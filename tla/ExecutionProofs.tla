--------------------------- MODULE ExecutionProofs ---------------------------
(***************************************************************************)
(* Theorems about Execution for any callers, operations, runs and          *)
(* requests, and any number of crashes and restarts; and about the locks   *)
(* of the store, for any clients.                                          *)
(***************************************************************************)
EXTENDS Execution, TLAPS

\* Most steps are first-order; the ones with arithmetic or records cite SMT.
USE ZenonT(60)

Executing(c) == pc[c] \in ExecutionStages

\* The tables of the session: a receipt of a run refers to an existing run
\* and to no other receipt's, and a run is recorded once it is accepted.
TableInv ==
    /\ \A o \in Operations :
          /\ commands[o].method \in {"accept_run", "accept_history_run"} <=> commands[o].run # NoRun
          /\ commands[o].method = "none" => commands[o] = NoCommand
          /\ commands[o].method = "accept_run" => commands[o].through = 0
          /\ commands[o].run # NoRun => runs[commands[o].run].state # "none"
    /\ \A o, p \in Operations :
          commands[o].run # NoRun /\ commands[o].run = commands[p].run => o = p
    /\ \A r \in Runs : runs[r].state = "none" => runs[r] = NoRecord /\ starts[r] = 0

\* The runs follow each other in the history of the session, and at most the
\* last one is unfinished.
OrderInv ==
    /\ \A r, q \in Runs : Active(r) /\ Active(q) => r = q
    /\ \A r, q \in Runs :
          runs[r] # NoRecord /\ runs[q] # NoRecord /\ runs[r].accepted < runs[q].accepted
          => ~Active(r) /\ runs[r].ended < runs[q].accepted
    /\ \A r \in Runs : runs[r].through # 0 => runs[r].accepted = runs[r].through + 1

\* A caller that executes a run does so under the receipt of its own request,
\* and the run is at the record the caller will append to.
ExecutionInvOf(c) ==
    Executing(c) =>
      /\ commands[Op(c)].run = Run(c) /\ commands[Op(c)].input = req[c].input
      /\ runs[Run(c)].owner = instance /\ ~runs[Run(c)].result
      /\ pc[c] = "start" => runs[Run(c)].state = "accepted" /\ starts[Run(c)] = 0
      /\ pc[c] = "begin" => runs[Run(c)].state = "accepted"
      /\ pc[c] = "going" => runs[Run(c)].state = "running"
      /\ pc[c] = "ended" => runs[Run(c)].state = "terminal"

\* It is the only caller to do so, and the run has not begun before.
ExecutionInv ==
    /\ \A c \in Callers : ExecutionInvOf(c)
    /\ \A c, d \in Callers : Executing(c) /\ Executing(d) /\ Run(c) = Run(d) => c = d
    /\ \A r \in Runs : starts[r] <= 1

\* From the recheck to the end of the acceptance a caller holds the lock of
\* its operation.  So a receipt that it did not find under the lock is not
\* written by another caller, and one that it found carries its selection.
LockInvOf(c) ==
    /\ ~up => pc[c] = "idle"
    /\ pc[c] \in LockStages => lock[Op(c)] = c
    /\ pc[c] = "lock" /\ found[c] => commands[Op(c)] # NoCommand
    /\ pc[c] = "repeat" => commands[Op(c)] # NoCommand
    /\ pc[c] = "prepare" => commands[Op(c)].run = NoRun
    /\ pc[c] \in {"accept", "accepting", "orphan"} =>
          \/ commands[Op(c)].run = NoRun
          \/ commands[Op(c)].method # req[c].method
          \/ commands[Op(c)].through = Command(c).through

LockInv == \A c \in Callers : LockInvOf(c)

\* What was reported stays true: a receipt is never rewritten, and a run that
\* has its result never changes again.
ReportInvOf(c) ==
    LET same == commands[Op(c)].run = Run(c) /\ commands[Op(c)].input = req[c].input IN
    /\ report[c] = "executed" => runs[Run(c)].state = "terminal" /\ runs[Run(c)].result
    /\ report[c] = "duplicate" => same
    /\ report[c] = "conflict" => /\ commands[Op(c)] # NoCommand
                                 /\ commands[Op(c)].method # req[c].method \/ ~same

ReportInv == \A c \in Callers : ReportInvOf(c)

IInv == TypeOK /\ TableInv /\ OrderInv /\ ExecutionInv /\ LockInv /\ ReportInv

-----------------------------------------------------------------------------

\* What is well typed stays so when the history grows.
CommandRecords(h) == [method : Methods, run : Runs \cup {NoRun},
                      input : Inputs \cup {NoInput}, through : 0..h]
RunRecords(h) == [state : RunStates, owner : Nat, accepted : 0..h,
                  through : 0..h, ended : 0..h, result : BOOLEAN]

LEMMA TypesGrow ==
    ASSUME NEW h \in Nat, NEW k \in Nat, h <= k
    PROVE  /\ CommandRecords(h) \subseteq CommandRecords(k)
           /\ RunRecords(h) \subseteq RunRecords(k)
           /\ 0..h \subseteq 0..k
<1>1. 0..h \subseteq 0..k
  BY SMT
<1>2. QED
  BY <1>1 DEF CommandRecords, RunRecords

LEMMA InitIInv == Init => IInv
<1> SUFFICES ASSUME Init PROVE IInv
  BY SMT
<1>1. req \in [Callers -> Requests]
  BY ExecutionAssumption DEF Init
<1>2. TypeOK
  <2>1. commands \in [Operations -> CommandRecords(head)] /\ runs \in [Runs -> RunRecords(head)]
    BY SMT DEF Init, CommandRecords, RunRecords, NoCommand, NoRecord, Methods, RunStates
  <2>2. /\ head \in Nat /\ instance \in Nat /\ up \in BOOLEAN /\ closing \in BOOLEAN
        /\ lock \in [Operations -> Callers \cup {NoCaller}]
        /\ starts \in [Runs -> Nat]
    BY DEF Init
  <2>3. /\ pc \in [Callers -> Stages]
        /\ report \in [Callers -> Reports]
        /\ found \in [Callers -> BOOLEAN]
    BY DEF Init, Stages, Reports
  <2>4. through \in [Callers -> 0..head]
    BY SMT DEF Init
  <2>5. QED
    BY <1>1, <2>1, <2>2, <2>3, <2>4 DEF TypeOK, CommandRecords, RunRecords
<1>3. TableInv
  BY DEF Init, TableInv, NoCommand, NoRecord
<1>4. OrderInv
  BY DEF Init, OrderInv, Active, NoRecord
<1>5. ExecutionInv /\ LockInv /\ ReportInv
  BY SMT DEF Init, ExecutionInv, ExecutionInvOf, Executing, LockInv, LockInvOf, ReportInv, ReportInvOf,
         ExecutionStages, LockStages
<1>6. QED
  BY <1>2, <1>3, <1>4, <1>5 DEF IInv

\* What a caller asks for is a request.
LEMMA RequestType ==
    ASSUME TypeOK, NEW c \in Callers
    PROVE  /\ Op(c) \in Operations /\ Run(c) \in Runs /\ Run(c) # NoRun
           /\ req[c].input \in Inputs
           /\ req[c].method \in {"accept_run", "accept_history_run"}
BY ExecutionAssumption, SMT DEF TypeOK, Op, Run

\* The caller leaves the stages that hold a lock: nothing of the others changes.
LEMMA LeaveFrame ==
    ASSUME TypeOK, NEW c \in Callers, NEW stage \in Stages, Leave(c, stage)
    PROVE  /\ pc' \in [Callers -> Stages] /\ lock' \in [Operations -> Callers \cup {NoCaller}]
           /\ found' \in [Callers -> BOOLEAN] /\ through' \in [Callers -> 0..head]
           /\ pc'[c] = stage
           /\ \A d \in Callers \ {c} :
                 /\ pc'[d] = pc[d] /\ found'[d] = found[d] /\ through'[d] = through[d]
                 /\ \A o \in Operations : lock[o] = d => lock'[o] = d
BY SMT DEF TypeOK, Leave, Goto, Unlock

\* The lock of a caller, its receipt and its selection do not depend on the
\* steps of the others, as long as its operation gets no receipt.
LEMMA LockFrame ==
    ASSUME IInv, NEW d \in Callers,
           up' = up, req' = req, commands'[Op(d)] = commands[Op(d)],
           pc'[d] = pc[d], found'[d] = found[d], through'[d] = through[d],
           \A o \in Operations : lock[o] = d => lock'[o] = d
    PROVE  LockInvOf(d)'
<1>1. Op(d) \in Operations
  BY RequestType DEF IInv
<1>2. QED
  BY <1>1 DEF IInv, LockInv, LockInvOf, Op, Run, Command

\* Neither do the tables and their order depend on the callers.
LEMMA TableFrame ==
    ASSUME IInv, UNCHANGED <<database, starts>>
    PROVE  TableInv' /\ OrderInv'
BY DEF IInv, TableInv, OrderInv, Active, database

\* A receipt is never rewritten, a run that has its result never changed.
Permanent ==
    /\ \A o \in Operations : commands[o] # NoCommand => commands'[o] = commands[o]
    /\ \A r \in Runs : runs[r].state = "terminal" /\ runs[r].result => runs'[r] = runs[r]

LEMMA ReportFrame ==
    ASSUME IInv, NEW d \in Callers, Permanent, req'[d] = req[d],
           report'[d] \in {report[d], "none", "failed"}
    PROVE  ReportInvOf(d)'
<1>1. Op(d) \in Operations /\ Run(d) \in Runs /\ Run(d) # NoRun
  BY RequestType DEF IInv
<1>2. Op(d)' = Op(d) /\ Run(d)' = Run(d)
  BY DEF Op, Run
<1>3. commands[Op(d)].run # NoRun => commands[Op(d)] # NoCommand
  BY SMT DEF NoCommand
<1>4. QED
  BY <1>1, <1>2, <1>3, SMT DEF IInv, ReportInv, ReportInvOf, Permanent

LEMMA ExecutionFrame ==
    ASSUME IInv, NEW d \in Callers, Permanent, req'[d] = req[d], pc'[d] = pc[d],
           instance' = instance,
           Executing(d) => runs'[Run(d)] = runs[Run(d)] /\ starts'[Run(d)] = starts[Run(d)]
    PROVE  ExecutionInvOf(d)'
<1>1. Op(d) \in Operations /\ Run(d) # NoRun
  BY RequestType DEF IInv
<1>2. Op(d)' = Op(d) /\ Run(d)' = Run(d) /\ (Executing(d)' <=> Executing(d))
  BY DEF Op, Run, Executing
<1>3. commands[Op(d)].run # NoRun => commands[Op(d)] # NoCommand
  BY SMT DEF NoCommand
<1>4. QED
  BY <1>1, <1>2, <1>3, SMT DEF IInv, ExecutionInv, ExecutionInvOf, Permanent

\* A caller that returns, or is gone, without a change of the tables.
LEMMA LeaveStep ==
    ASSUME IInv, NEW c \in Callers, NEW r \in Reports, Leave(c, "idle"),
           report' = [report EXCEPT ![c] = r], ReportInvOf(c)',
           UNCHANGED <<database, instance, up, req, starts>>, closing' \in BOOLEAN
    PROVE  IInv'
<1>1. TypeOK'
  <2>1. report' \in [Callers -> Reports]
    BY DEF IInv, TypeOK
  <2>2. QED
    BY <2>1, LeaveFrame DEF IInv, TypeOK, database, Stages
<1>2. TableInv' /\ OrderInv'
  BY TableFrame
<1>3. Permanent /\ req' = req /\ instance' = instance /\ up' = up
  BY DEF Permanent, database
<1>4. /\ pc'[c] = "idle"
      /\ \A d \in Callers \ {c} :
            /\ pc'[d] = pc[d] /\ found'[d] = found[d] /\ through'[d] = through[d]
            /\ \A o \in Operations : lock[o] = d => lock'[o] = d
            /\ report'[d] = report[d]
  <2>1. "idle" \in Stages /\ TypeOK
    BY DEF IInv, Stages
  <2>2. \A d \in Callers \ {c} : report'[d] = report[d]
    BY <2>1 DEF TypeOK
  <2>3. QED
    BY <2>1, <2>2, LeaveFrame, SMT
<1>5. ExecutionInv'
  <2>1. ExecutionInvOf(c)' /\ ~Executing(c)'
    BY <1>4 DEF ExecutionInvOf, Executing, ExecutionStages
  <2>2. \A d \in Callers \ {c} : ExecutionInvOf(d)' /\ (Executing(d)' <=> Executing(d))
    BY <1>3, <1>4, ExecutionFrame DEF Executing, database
  <2>3. \A d \in Callers : Run(d)' = Run(d)
    BY DEF Run
  <2>4. QED
    BY <2>1, <2>2, <2>3 DEF IInv, ExecutionInv
<1>6. LockInv'
  <2>1. LockInvOf(c)'
    BY <1>4 DEF LockInvOf, LockStages
  <2>2. \A d \in Callers \ {c} : LockInvOf(d)'
    BY <1>3, <1>4, LockFrame DEF database
  <2>3. QED
    BY <2>1, <2>2 DEF LockInv
<1>7. ReportInv'
  BY <1>3, <1>4, ReportFrame DEF ReportInv
<1>8. QED
  BY <1>1, <1>2, <1>5, <1>6, <1>7 DEF IInv

LEMMA LookupStep ==
    ASSUME IInv, NEW c \in Callers, Lookup(c)
    PROVE  IInv'
<1>1. TypeOK'
  BY RequestType DEF IInv, TypeOK, Lookup, Goto, database, process, Stages, LockStages, Reports
<1>2. TableInv' /\ OrderInv'
  BY TableFrame DEF Lookup, database
<1>3. ExecutionInv'
  BY RequestType, SMT DEF IInv, TypeOK, ExecutionInv, ExecutionInvOf, Executing, ExecutionStages, Op, Run, Lookup, Goto, database, process
<1>4. LockInv'
  <2>1. ASSUME NEW d \in Callers, d # c
        PROVE  LockInvOf(d)'
    BY <2>1, RequestType, LockFrame DEF IInv, TypeOK, Lookup, Goto, database, process
  <2>2. LockInvOf(c)'
    BY RequestType DEF IInv, TypeOK, LockInv, LockInvOf, LockStages, Op, Run, Command, NoCommand, Lookup, Goto, database, process
  <2>3. QED
    BY <2>1, <2>2 DEF LockInv
<1>5. ReportInv'
  BY ReportFrame DEF ReportInv, Permanent, Lookup, database
<1>6. QED
  BY <1>1, <1>2, <1>3, <1>4, <1>5 DEF IInv

LEMMA LockStep ==
    ASSUME IInv, NEW c \in Callers, Lock(c)
    PROVE  IInv'
<1>1. TypeOK'
  BY RequestType DEF IInv, TypeOK, Lock, Goto, database, process, Stages, LockStages, Reports
<1>2. TableInv' /\ OrderInv'
  BY TableFrame DEF Lock, database
<1>3. ExecutionInv'
  BY RequestType, SMT DEF IInv, TypeOK, ExecutionInv, ExecutionInvOf, Executing, ExecutionStages, Op, Run, Lock, Goto, database, process
<1>4. LockInv'
  <2>1. ASSUME NEW d \in Callers, d # c
        PROVE  LockInvOf(d)'
    <3>1. \A o \in Operations : lock[o] = d => lock'[o] = d
      BY ExecutionAssumption DEF IInv, TypeOK, Lock
    <3>2. QED
      BY <2>1, <3>1, LockFrame DEF IInv, TypeOK, Lock, Goto, database, process
  <2>2. LockInvOf(c)'
    <3>1. Op(c) \in Operations /\ Op(c)' = Op(c) /\ lock'[Op(c)] = c /\ up'
      BY RequestType DEF IInv, TypeOK, Lock, Op, process
    <3>2. pc'[c] \in {"repeat", "recheck"} /\ (pc'[c] = "repeat" => commands[Op(c)] # NoCommand)
      BY DEF IInv, TypeOK, LockInv, LockInvOf, Lock, Goto
    <3>3. QED
      BY <3>1, <3>2 DEF LockInvOf, Lock, database
  <2>3. QED
    BY <2>1, <2>2 DEF LockInv
<1>5. ReportInv'
  BY ReportFrame DEF ReportInv, Permanent, Lock, database
<1>6. QED
  BY <1>1, <1>2, <1>3, <1>4, <1>5 DEF IInv

LEMMA RecheckStep ==
    ASSUME IInv, NEW c \in Callers, Recheck(c)
    PROVE  IInv'
<1>1. TypeOK'
  BY RequestType DEF IInv, TypeOK, Recheck, RecheckResult, AfterRecheck, Goto, database, process, Stages, LockStages, Reports
<1>2. TableInv' /\ OrderInv'
  BY TableFrame DEF Recheck, database
<1>3. ExecutionInv'
  BY RequestType, SMT DEF IInv, TypeOK, ExecutionInv, ExecutionInvOf, Executing, ExecutionStages, Op, Run, Recheck, RecheckResult, AfterRecheck, Goto, database, process
<1>4. LockInv'
  <2>1. ASSUME NEW d \in Callers, d # c
        PROVE  LockInvOf(d)'
    BY <2>1, RequestType, LockFrame DEF IInv, TypeOK, Recheck, RecheckResult, AfterRecheck, Goto, database, process
  <2>2. LockInvOf(c)'
    BY RequestType, SMT DEF IInv, TypeOK, LockInv, LockInvOf, LockStages, Op, Run, Command, NoCommand, Recheck, RecheckResult, AfterRecheck, Goto, database, process
  <2>3. QED
    BY <2>1, <2>2 DEF LockInv
<1>5. ReportInv'
  BY ReportFrame DEF ReportInv, Permanent, Recheck, database
<1>6. QED
  BY <1>1, <1>2, <1>3, <1>4, <1>5 DEF IInv

LEMMA PrepareStep ==
    ASSUME IInv, NEW c \in Callers, Prepare(c)
    PROVE  IInv'
<1>1. TypeOK'
  BY RequestType, SMT DEF IInv, TypeOK, Prepare, Goto, database, process, Stages, LockStages, Reports
<1>2. TableInv' /\ OrderInv'
  BY TableFrame DEF Prepare, database
<1>3. ExecutionInv'
  BY RequestType, SMT DEF IInv, TypeOK, ExecutionInv, ExecutionInvOf, Executing, ExecutionStages, Op, Run, Prepare, Goto, database, process
<1>4. LockInv'
  <2>1. ASSUME NEW d \in Callers, d # c
        PROVE  LockInvOf(d)'
    BY <2>1, RequestType, LockFrame DEF IInv, TypeOK, Prepare, Goto, database, process
  <2>2. LockInvOf(c)'
    BY RequestType DEF IInv, TypeOK, LockInv, LockInvOf, LockStages, Op, Run, Command, NoCommand, Prepare, Goto, database, process
  <2>3. QED
    BY <2>1, <2>2 DEF LockInv
<1>5. ReportInv'
  BY ReportFrame DEF ReportInv, Permanent, Prepare, database
<1>6. QED
  BY <1>1, <1>2, <1>3, <1>4, <1>5 DEF IInv

LEMMA AcceptStep ==
    ASSUME IInv, NEW c \in Callers, Accept(c)
    PROVE  IInv'
<1>1. TypeOK'
  BY RequestType DEF IInv, TypeOK, Accept, Goto, database, process, Stages, LockStages, Reports
<1>2. TableInv' /\ OrderInv'
  BY TableFrame DEF Accept, database
<1>3. ExecutionInv'
  BY RequestType, SMT DEF IInv, TypeOK, ExecutionInv, ExecutionInvOf, Executing, ExecutionStages, Op, Run, Accept, Goto, database, process
<1>4. LockInv'
  <2>1. ASSUME NEW d \in Callers, d # c
        PROVE  LockInvOf(d)'
    BY <2>1, RequestType, LockFrame DEF IInv, TypeOK, Accept, Goto, database, process
  <2>2. LockInvOf(c)'
    BY RequestType DEF IInv, TypeOK, LockInv, LockInvOf, LockStages, Op, Run, Command, NoCommand, Accept, Goto, database, process
  <2>3. QED
    BY <2>1, <2>2 DEF LockInv
<1>5. ReportInv'
  BY ReportFrame DEF ReportInv, Permanent, Accept, database
<1>6. QED
  BY <1>1, <1>2, <1>3, <1>4, <1>5 DEF IInv

LEMMA RepeatStep ==
    ASSUME IInv, NEW c \in Callers, Repeat(c)
    PROVE  IInv'
<1> DEFINE original == commands[Op(c)]
<1>1. Op(c) \in Operations /\ original.through \in 0..head /\ original # NoCommand
  BY RequestType DEF IInv, TypeOK, LockInv, LockInvOf, Repeat
<1>2. CASE req[c].method = "accept_history_run" /\ original.method # "accept_history_run"
  <2>1. Return(c, "conflict") /\ UNCHANGED <<database, process, req, starts>>
    BY <1>2 DEF Repeat
  <2>2. ReportInvOf(c)'
    BY <1>1, <1>2, <2>1 DEF IInv, TypeOK, ReportInvOf, Return, Op, Run, database
  <2>3. QED
    BY <2>1, <2>2, LeaveStep DEF IInv, TypeOK, Return, Reports, process
<1>3. CASE ~(req[c].method = "accept_history_run" /\ original.method # "accept_history_run")
  <2>1. /\ Goto(c, "accept") /\ through' = [through EXCEPT ![c] = original.through]
        /\ UNCHANGED <<lock, report, found, database, process, req, starts>>
    BY <1>3 DEF Repeat
  <2>2. TypeOK'
    BY <1>1, <2>1 DEF IInv, TypeOK, Goto, database, process, Stages, LockStages
  <2>3. TableInv' /\ OrderInv'
    BY <2>1, TableFrame
  <2>4. ExecutionInv'
    BY <2>1, SMT DEF IInv, TypeOK, ExecutionInv, ExecutionInvOf, Executing, ExecutionStages, Op, Run, Goto,
                database, process
  <2>5. LockInv'
    <3>1. ASSUME NEW d \in Callers, d # c
          PROVE  LockInvOf(d)'
      BY <2>1, <3>1, LockFrame DEF IInv, TypeOK, Goto, database, process
    <3>2. req[c].method = original.method => Command(c)'.through = original.through
      BY <1>1, <2>1, RequestType DEF IInv, TypeOK, TableInv, Command
    <3>3. LockInvOf(c)'
      BY <2>1, <3>2, SMT DEF IInv, TypeOK, LockInv, LockInvOf, LockStages, Op, Repeat, Goto, database, process
    <3>4. QED
      BY <3>1, <3>3 DEF LockInv
  <2>6. ReportInv'
    BY <2>1, ReportFrame DEF ReportInv, Permanent, database
  <2>7. QED
    BY <2>2, <2>3, <2>4, <2>5, <2>6 DEF IInv
<1>4. QED
  BY <1>2, <1>3

LEMMA RejectedStep ==
    ASSUME IInv, NEW c \in Callers, Rejected(c)
    PROVE  IInv'
<1>1. Return(c, "failed") /\ UNCHANGED <<database, process, req, starts>>
  BY DEF Rejected
<1>2. ReportInvOf(c)'
  BY <1>1, ReportFrame DEF IInv, TypeOK, Return, Permanent, database
<1>3. QED
  BY <1>1, <1>2, LeaveStep DEF IInv, TypeOK, Return, Reports, process

LEMMA DroppedStep ==
    ASSUME IInv, NEW c \in Callers, Dropped(c)
    PROVE  IInv'
<1>1. UNCHANGED <<database, instance, up, req, report, starts>> /\ closing' = TRUE
  BY DEF Dropped
<1>2. ReportInv'
  BY <1>1, ReportFrame DEF ReportInv, Permanent, database
<1>3. CASE pc[c] = "accepting"
  <2>1. Goto(c, "orphan") /\ UNCHANGED <<lock, found, through>>
    BY <1>3 DEF Dropped
  <2>2. TypeOK'
    BY <1>1, <2>1 DEF IInv, TypeOK, Goto, database, Stages, LockStages
  <2>3. TableInv' /\ OrderInv'
    BY <1>1, TableFrame
  <2>4. ExecutionInv'
    BY <1>1, <1>3, <2>1 DEF IInv, TypeOK, ExecutionInv, ExecutionInvOf, Executing, ExecutionStages,
                            Op, Run, Goto, database
  <2>5. LockInv'
    <3>1. ASSUME NEW d \in Callers, d # c
          PROVE  LockInvOf(d)'
      BY <1>1, <2>1, <3>1, LockFrame DEF IInv, TypeOK, Goto, database
    <3>2. LockInvOf(c)'
      BY <1>1, <1>3, <2>1, SMT DEF IInv, TypeOK, LockInv, LockInvOf, LockStages, Op, Run, Command, Goto,
                              database, Dropped
    <3>3. QED
      BY <3>1, <3>2 DEF LockInv
  <2>6. QED
    BY <1>2, <2>2, <2>3, <2>4, <2>5 DEF IInv
<1>4. CASE pc[c] # "accepting"
  <2>1. Leave(c, "idle")
    BY <1>4 DEF Dropped
  <2>2. report[c] \in Reports /\ report' = [report EXCEPT ![c] = report[c]]
    BY <1>1 DEF IInv, TypeOK
  <2>3. QED
    BY <1>1, <1>2, <2>1, <2>2, LeaveStep DEF ReportInv
<1>5. QED
  BY <1>3, <1>4

LEMMA StartRunStep ==
    ASSUME IInv, NEW c \in Callers, StartRun(c)
    PROVE  IInv'
<1>1. Run(c) \in Runs /\ starts[Run(c)] = 0 /\ runs[Run(c)].state = "accepted" /\ Executing(c)
  BY RequestType DEF IInv, ExecutionInv, ExecutionInvOf, Executing, ExecutionStages, StartRun
<1>2. /\ starts' = [starts EXCEPT ![Run(c)] = 1]
      /\ UNCHANGED <<database, process, lock, req, found, through, report>>
      /\ Goto(c, "begin")
  BY <1>1, SMT DEF StartRun
<1>3. TypeOK'
  BY <1>1, <1>2 DEF IInv, TypeOK, Goto, database, process, Stages, ExecutionStages
<1>4. TableInv' /\ OrderInv'
  BY <1>1, <1>2 DEF IInv, TypeOK, TableInv, OrderInv, Active, database
<1>5. ExecutionInv'
  <2>1. Permanent /\ req' = req /\ instance' = instance
    BY <1>2 DEF Permanent, database, process
  <2>2. ASSUME NEW d \in Callers, d # c
        PROVE  ExecutionInvOf(d)' /\ (Executing(d)' <=> Executing(d))
    <3>1. Executing(d) => Run(d) # Run(c)
      BY <1>1, <2>2 DEF IInv, ExecutionInv
    <3>2. pc'[d] = pc[d] /\ (Executing(d) => starts'[Run(d)] = starts[Run(d)])
      BY <1>2, <2>2, <3>1, RequestType DEF IInv, TypeOK, Goto
    <3>3. QED
      BY <1>2, <2>1, <3>2, ExecutionFrame DEF Executing, database
  <2>3. ExecutionInvOf(c)'
    BY <1>1, <1>2 DEF IInv, TypeOK, ExecutionInv, ExecutionInvOf, Executing, Op, Run, Goto, database, process
  <2>4. \A d \in Callers : Run(d)' = Run(d)
    BY <2>1 DEF Run
  <2>5. \A r \in Runs : starts'[r] <= 1
    BY <1>2, SMT DEF IInv, TypeOK, ExecutionInv
  <2>6. QED
    BY <1>1, <2>2, <2>3, <2>4, <2>5 DEF IInv, ExecutionInv
<1>6. LockInv'
  <2>1. ASSUME NEW d \in Callers, d # c
        PROVE  LockInvOf(d)'
    BY <1>2, <2>1, LockFrame DEF IInv, TypeOK, Goto, database, process
  <2>2. LockInvOf(c)'
    BY <1>2, SMT DEF IInv, TypeOK, LockInvOf, LockStages, Goto, StartRun, process
  <2>3. QED
    BY <2>1, <2>2 DEF LockInv
<1>7. ReportInv'
  BY <1>2, ReportFrame DEF ReportInv, Permanent, database
<1>8. QED
  BY <1>3, <1>4, <1>5, <1>6, <1>7 DEF IInv

\* The order of the runs stays when a run takes its next record, or ends.
LEMMA OrderKept ==
    ASSUME IInv, NEW r \in Runs, runs[r] # NoRecord, Active(r)' => Active(r),
           runs'[r].accepted = runs[r].accepted, runs'[r].through = runs[r].through,
           runs'[r].ended = runs[r].ended \/ Active(r),
           \A q \in Runs \ {r} : runs'[q] = runs[q]
    PROVE  OrderInv'
<1>1. \A q \in Runs : Active(q)' => Active(q)
  BY DEF Active
<1>2. \A q \in Runs : runs'[q] # NoRecord => runs[q] # NoRecord
  BY SMT
<1>3. \A q \in Runs : runs'[q].accepted = runs[q].accepted /\ runs'[q].through = runs[q].through
  BY SMT
<1>4. \A q \in Runs : runs[q] # NoRecord /\ runs[r].accepted < runs[q].accepted
                       => runs'[r].ended = runs[r].ended
  BY DEF IInv, OrderInv
<1>5. QED
  BY <1>1, <1>2, <1>3, <1>4 DEF IInv, OrderInv

\* Reconciliation ends at most one run, which is the last one and which no
\* caller of this process executes.
LEMMA ReconcileTables ==
    ASSUME IInv, Reconcile, UNCHANGED starts
    PROVE  /\ head' \in Nat /\ head <= head' /\ commands' = commands
           /\ runs' \in [Runs -> RunRecords(head')]
           /\ TableInv' /\ OrderInv' /\ Permanent
           /\ \A d \in Callers : Executing(d) => runs'[Run(d)] = runs[Run(d)]
<1>1. CASE UNCHANGED database
  <2>1. TableInv' /\ OrderInv'
    BY <1>1, TableFrame
  <2>2. QED
    BY <1>1, <2>1, SMT DEF IInv, TypeOK, RunRecords, Permanent, database
<1>2. ASSUME NEW r \in Runs, Abandoned(r), Interrupt(r)
      PROVE  /\ head' \in Nat /\ head <= head' /\ commands' = commands
             /\ runs' \in [Runs -> RunRecords(head')]
             /\ TableInv' /\ OrderInv' /\ Permanent
             /\ \A d \in Callers : Executing(d) => runs'[Run(d)] = runs[Run(d)]
  <2>1. head \in Nat /\ head' = head + 1 /\ commands' = commands
    BY <1>2 DEF IInv, TypeOK, Interrupt
  <2>2. runs \in [Runs -> RunRecords(head)] /\ runs \in [Runs -> RunRecords(head')]
    BY <2>1, TypesGrow, SMT DEF IInv, TypeOK, RunRecords
  <2>3. /\ runs' = [runs EXCEPT ![r] = [runs[r] EXCEPT !.state = "interrupted", !.ended = head + 1]]
        /\ [runs[r] EXCEPT !.state = "interrupted", !.ended = head + 1] \in RunRecords(head')
    BY <1>2, <2>1, <2>2, SMT DEF Interrupt, RunRecords, RunStates
  <2>4. runs' \in [Runs -> RunRecords(head')]
    BY <2>2, <2>3
  <2>5. /\ runs'[r].state = "interrupted" /\ runs'[r].ended = head + 1
        /\ runs'[r].accepted = runs[r].accepted /\ runs'[r].through = runs[r].through
        /\ \A q \in Runs \ {r} : runs'[q] = runs[q]
    BY <2>2, <2>3 DEF RunRecords
  <2>6. TableInv'
    BY <2>1, <2>5, SMT DEF IInv, TypeOK, TableInv
  <2>7. OrderInv'
    <3>1. Active(r) /\ runs[r] # NoRecord /\ ~Active(r)'
      BY <1>2, <2>5, SMT DEF Abandoned, Active, NoRecord
    <3>2. QED
      BY <2>5, <3>1, OrderKept
  <2>8. Permanent
    BY <1>2, <2>1, <2>5 DEF Permanent, Abandoned, Active
  <2>9. ASSUME NEW d \in Callers, Executing(d) PROVE runs'[Run(d)] = runs[Run(d)]
    <3>1. Run(d) \in Runs /\ Run(d) # r
      BY <1>2, <2>9, RequestType DEF IInv, ExecutionInv, ExecutionInvOf, Abandoned
    <3>2. QED
      BY <2>5, <3>1
  <2>10. QED
    BY <2>1, <2>4, <2>6, <2>7, <2>8, <2>9, SMT
<1>3. QED
  BY <1>1, <1>2 DEF Reconcile

LEMMA SubmitStep ==
    ASSUME IInv, NEW c \in Callers, NEW r \in Requests, Submit(c, r)
    PROVE  IInv'
<1>1. /\ head' \in Nat /\ head <= head' /\ commands' = commands
      /\ runs' \in [Runs -> RunRecords(head')]
      /\ TableInv' /\ OrderInv' /\ Permanent
      /\ \A d \in Callers : Executing(d) => runs'[Run(d)] = runs[Run(d)]
  BY ReconcileTables DEF Submit
<1>2. /\ pc' = [pc EXCEPT ![c] = "lookup"] /\ req' = [req EXCEPT ![c] = r]
      /\ report' = [report EXCEPT ![c] = "none"] /\ pc[c] = "idle" /\ up
      /\ UNCHANGED <<instance, up, closing, lock, found, through, starts>>
  BY DEF Submit, Goto, process
<1>3. TypeOK'
  <2>1. through' \in [Callers -> 0..head'] /\ commands' \in [Operations -> CommandRecords(head')]
    BY <1>1, <1>2, TypesGrow DEF IInv, TypeOK, CommandRecords
  <2>2. pc' \in [Callers -> Stages] /\ report' \in [Callers -> Reports] /\ req' \in [Callers -> Requests]
    BY <1>2 DEF IInv, TypeOK, Stages, Reports
  <2>3. QED
    BY <1>1, <1>2, <2>1, <2>2 DEF IInv, TypeOK, CommandRecords, RunRecords
<1>4. \A d \in Callers \ {c} : pc'[d] = pc[d] /\ req'[d] = req[d] /\ report'[d] = report[d]
  BY <1>2 DEF IInv, TypeOK
<1>5. pc'[c] = "lookup" /\ report'[c] = "none"
  BY <1>2 DEF IInv, TypeOK
<1>6. ExecutionInv'
  <2>1. ExecutionInvOf(c)' /\ ~Executing(c)'
    BY <1>5 DEF ExecutionInvOf, Executing, ExecutionStages
  <2>2. \A d \in Callers \ {c} : ExecutionInvOf(d)' /\ (Executing(d)' <=> Executing(d)) /\ Run(d)' = Run(d)
    BY <1>1, <1>2, <1>4, ExecutionFrame DEF Executing, Run
  <2>3. QED
    BY <1>2, <2>1, <2>2 DEF IInv, ExecutionInv
<1>7. LockInv'
  <2>1. LockInvOf(c)'
    BY <1>2, <1>5 DEF LockInvOf, LockStages
  <2>2. ASSUME NEW d \in Callers, d # c PROVE LockInvOf(d)'
    BY <1>1, <1>2, <1>4, <2>2, SMT DEF IInv, LockInv, LockInvOf, Op, Run, Command
  <2>3. QED
    BY <2>1, <2>2 DEF LockInv
<1>8. ReportInv'
  <2>1. ReportInvOf(c)'
    BY <1>5 DEF ReportInvOf
  <2>2. \A d \in Callers \ {c} : ReportInvOf(d)'
    BY <1>1, <1>4, ReportFrame
  <2>3. QED
    BY <2>1, <2>2 DEF ReportInv
<1>9. QED
  BY <1>1, <1>3, <1>6, <1>7, <1>8 DEF IInv

LEMMA OpenFailsStep ==
    ASSUME IInv, OpenFails
    PROVE  IInv'
<1>1. /\ head' \in Nat /\ head <= head' /\ commands' = commands
      /\ runs' \in [Runs -> RunRecords(head')]
      /\ TableInv' /\ OrderInv' /\ Permanent
      /\ \A d \in Callers : Executing(d) => runs'[Run(d)] = runs[Run(d)]
  BY ReconcileTables DEF OpenFails
<1>2. closing' \in BOOLEAN /\ UNCHANGED <<instance, up, lock, pc, req, found, through, report, starts>>
  BY DEF OpenFails
<1>3. TypeOK'
  <2>1. through' \in [Callers -> 0..head'] /\ commands' \in [Operations -> CommandRecords(head')]
    BY <1>1, <1>2, TypesGrow DEF IInv, TypeOK, CommandRecords
  <2>2. QED
    BY <1>1, <1>2, <2>1 DEF IInv, TypeOK, CommandRecords, RunRecords
<1>4. ExecutionInv'
  <2>1. \A d \in Callers : ExecutionInvOf(d)' /\ (Executing(d)' <=> Executing(d)) /\ Run(d)' = Run(d)
    BY <1>1, <1>2, ExecutionFrame DEF Executing, Run
  <2>2. QED
    BY <1>2, <2>1 DEF IInv, ExecutionInv
<1>5. LockInv'
  BY <1>1, <1>2, LockFrame DEF LockInv
<1>6. ReportInv'
  BY <1>1, <1>2, ReportFrame DEF ReportInv
<1>7. QED
  BY <1>1, <1>3, <1>4, <1>5, <1>6 DEF IInv

LEMMA RenameStep ==
    ASSUME IInv, NEW o \in Operations, Rename(o)
    PROVE  IInv'
<1>1. /\ head \in Nat /\ head' = head + 1 /\ runs' = runs
      /\ UNCHANGED <<instance, up, closing, lock, pc, req, found, through, report, starts>>
      /\ commands[o] = NoCommand
  BY DEF IInv, TypeOK, Rename, process
<1>2. /\ commands' = [commands EXCEPT ![o] = [NoCommand EXCEPT !.method = "rename"]]
      /\ [NoCommand EXCEPT !.method = "rename"] \in CommandRecords(head')
  BY <1>1, SMT DEF Rename, NoCommand, CommandRecords, Methods
<1>3. TypeOK'
  <2>1. /\ commands \in [Operations -> CommandRecords(head')] /\ runs' \in [Runs -> RunRecords(head')]
        /\ through' \in [Callers -> 0..head']
    BY <1>1, TypesGrow, SMT DEF IInv, TypeOK, CommandRecords, RunRecords
  <2>2. commands' \in [Operations -> CommandRecords(head')]
    BY <1>2, <2>1
  <2>3. QED
    BY <1>1, <2>1, <2>2, SMT DEF IInv, TypeOK, CommandRecords, RunRecords
<1>4. /\ commands'[o].method = "rename" /\ commands'[o].run = NoRun
      /\ \A p \in Operations \ {o} : commands'[p] = commands[p]
  BY <1>2 DEF IInv, TypeOK, NoCommand
<1>5. TableInv'
  BY <1>1, <1>4, SMT DEF IInv, TableInv, NoCommand
<1>6. OrderInv'
  BY <1>1 DEF IInv, OrderInv, Active
<1>7. Permanent
  BY <1>1, <1>4 DEF Permanent
<1>8. ExecutionInv'
  <2>1. \A d \in Callers : ExecutionInvOf(d)' /\ (Executing(d)' <=> Executing(d)) /\ Run(d)' = Run(d)
    BY <1>1, <1>7, ExecutionFrame DEF Executing, Run
  <2>2. QED
    BY <1>1, <2>1 DEF IInv, ExecutionInv
<1>9. LockInv'
  <2>1. ASSUME NEW d \in Callers, Op(d) # o PROVE LockInvOf(d)'
    BY <1>1, <1>4, <2>1, LockFrame, RequestType DEF IInv
  <2>2. ASSUME NEW d \in Callers, Op(d) = o PROVE LockInvOf(d)'
    BY <1>1, <1>4, <2>2 DEF IInv, LockInv, LockInvOf, Op, NoCommand
  <2>3. QED
    BY <2>1, <2>2 DEF LockInv
<1>10. ReportInv'
  BY <1>1, <1>7, ReportFrame DEF ReportInv
<1>11. QED
  BY <1>3, <1>5, <1>6, <1>8, <1>9, <1>10 DEF IInv

LEMMA CrashStep ==
    ASSUME IInv, Crash
    PROVE  IInv'
<1>1. TypeOK'
  <2>1. head \in Nat /\ through' \in [Callers -> 0..head]
    BY SMT DEF IInv, TypeOK, Crash
  <2>2. /\ pc' \in [Callers -> Stages] /\ lock' \in [Operations -> Callers \cup {NoCaller}]
        /\ found' \in [Callers -> BOOLEAN] /\ report' \in [Callers -> Reports]
    BY DEF Crash, Stages, Reports
  <2>3. QED
    BY <2>1, <2>2 DEF IInv, TypeOK, Crash, database
<1>2. TableInv' /\ OrderInv'
  BY TableFrame DEF Crash
<1>3. \A c \in Callers : pc'[c] = "idle" /\ report'[c] = "none"
  BY DEF Crash
<1>4. ExecutionInv'
  BY <1>3 DEF IInv, ExecutionInv, ExecutionInvOf, Executing, ExecutionStages, Crash
<1>5. LockInv' /\ ReportInv'
  BY <1>3 DEF LockInv, LockInvOf, LockStages, ReportInv, ReportInvOf
<1>6. QED
  BY <1>1, <1>2, <1>4, <1>5 DEF IInv

LEMMA RestartStep ==
    ASSUME IInv, Restart
    PROVE  IInv'
<1>1. TypeOK'
  BY SMT DEF IInv, TypeOK, Restart, database
<1>2. TableInv' /\ OrderInv'
  BY TableFrame DEF Restart
<1>3. \A c \in Callers : pc'[c] = "idle"
  BY DEF IInv, LockInv, LockInvOf, Restart
<1>4. ExecutionInv'
  BY <1>3 DEF IInv, ExecutionInv, ExecutionInvOf, Executing, ExecutionStages, Restart
<1>5. LockInv'
  BY <1>3 DEF LockInv, LockInvOf, LockStages
<1>6. ReportInv'
  BY ReportFrame DEF ReportInv, Permanent, Restart, database
<1>7. QED
  BY <1>1, <1>2, <1>4, <1>5, <1>6 DEF IInv

\* The insertion of a run: its operation had no receipt and its identity no
\* record, no run is unfinished, and the selection is the end of the history.
LEMMA InsertTables ==
    ASSUME IInv, NEW c \in Callers, Verdict(c) = "fresh", InsertRun(c), UNCHANGED starts
    PROVE  /\ head' \in Nat /\ head <= head'
           /\ commands' \in [Operations -> CommandRecords(head')]
           /\ runs' \in [Runs -> RunRecords(head')]
           /\ TableInv' /\ OrderInv' /\ Permanent
           /\ commands[Op(c)] = NoCommand /\ commands'[Op(c)] = Command(c)
           /\ \A o \in Operations \ {Op(c)} : commands'[o] = commands[o]
           /\ runs[Run(c)] = NoRecord /\ starts[Run(c)] = 0
           /\ runs'[Run(c)].state = "accepted" /\ runs'[Run(c)].owner = instance
           /\ ~runs'[Run(c)].result
           /\ \A r \in Runs \ {Run(c)} : runs'[r] = runs[r]
<1> DEFINE record == [state |-> "accepted", owner |-> instance, accepted |-> head + 1,
                      through |-> Command(c).through, ended |-> 0, result |-> FALSE]
<1>1. Op(c) \in Operations /\ Run(c) \in Runs /\ Run(c) # NoRun /\ req[c].input \in Inputs
  BY RequestType DEF IInv
<1>2. /\ commands[Op(c)] = NoCommand /\ runs[Run(c)] = NoRecord
      /\ \A r \in Runs : ~Active(r)
      /\ req[c].method = "accept_history_run" => head = through[c]
  BY DEF Verdict
<1>3. head \in Nat /\ head' \in Nat /\ head + 1 <= head' /\ instance \in Nat
  BY SMT DEF IInv, TypeOK, InsertRun
<1>4. /\ Command(c).run = Run(c) /\ Command(c).input = req[c].input
      /\ Command(c).method \in {"accept_run", "accept_history_run"}
      /\ Command(c).method = "accept_run" => Command(c).through = 0
      /\ Command(c).through \in {0, head}
      /\ Command(c) \in CommandRecords(head')
  BY <1>1, <1>2, <1>3, RequestType, SMT DEF IInv, Command, CommandRecords, Methods
<1>5. /\ record.state = "accepted" /\ record.owner = instance /\ record.accepted = head + 1
      /\ record.through = Command(c).through /\ record.ended = 0 /\ ~record.result
      /\ record \in RunRecords(head') /\ record # NoRecord
  <2>1. head + 1 \in 0..head' /\ Command(c).through \in 0..head' /\ 0 \in 0..head'
    BY <1>3, <1>4, SMT
  <2>2. record \in RunRecords(head')
    BY <1>3, <2>1 DEF RunRecords, RunStates
  <2>3. QED
    BY <2>2 DEF NoRecord
<1>6. /\ commands' = [commands EXCEPT ![Op(c)] = Command(c)]
      /\ runs' = [runs EXCEPT ![Run(c)] = record]
  BY DEF InsertRun
<1> HIDE DEF record
<1>7. /\ commands \in [Operations -> CommandRecords(head')] /\ runs \in [Runs -> RunRecords(head')]
      /\ runs \in [Runs -> RunRecords(head)]
  BY <1>3, TypesGrow, SMT DEF IInv, TypeOK, CommandRecords, RunRecords
<1>8. /\ commands' \in [Operations -> CommandRecords(head')] /\ runs' \in [Runs -> RunRecords(head')]
      /\ commands'[Op(c)] = Command(c) /\ runs'[Run(c)] = record
      /\ \A o \in Operations \ {Op(c)} : commands'[o] = commands[o]
      /\ \A r \in Runs \ {Run(c)} : runs'[r] = runs[r]
  BY <1>1, <1>4, <1>5, <1>6, <1>7
<1>9. NoRecord.state = "none" /\ starts[Run(c)] = 0 /\ NoCommand.run = NoRun
  BY <1>1, <1>2, SMT DEF IInv, TableInv, NoRecord, NoCommand
<1>10. TableInv'
  <2>1. \A o \in Operations : commands[o].run # Run(c)
    BY <1>1, <1>2, <1>9 DEF IInv, TableInv
  <2>2. /\ commands'[Op(c)].method # "none" /\ commands'[Op(c)].run = Run(c)
        /\ runs'[Run(c)].state # "none"
    BY <1>4, <1>5, <1>8
  <2>3. \A o \in Operations :
          /\ commands'[o].method \in {"accept_run", "accept_history_run"} <=> commands'[o].run # NoRun
          /\ commands'[o].method = "none" => commands'[o] = NoCommand
          /\ commands'[o].method = "accept_run" => commands'[o].through = 0
          /\ commands'[o].run # NoRun => runs'[commands'[o].run].state # "none"
    <3>1. ASSUME NEW o \in Operations, o # Op(c)
          PROVE  commands'[o].run # NoRun => runs'[commands'[o].run].state # "none"
      BY <1>7, <1>8, <2>1, <3>1, SMT DEF IInv, TableInv, CommandRecords
    <3>2. QED
      BY <1>1, <1>4, <1>8, <2>2, <3>1 DEF IInv, TableInv
  <2>4. \A o, p \in Operations :
          commands'[o].run # NoRun /\ commands'[o].run = commands'[p].run => o = p
    BY <1>8, <2>1, <2>2, SMT DEF IInv, TableInv
  <2>5. \A r \in Runs : runs'[r].state = "none" => runs'[r] = NoRecord /\ starts'[r] = 0
    BY <1>8, <2>2 DEF IInv, TableInv
  <2>6. QED
    BY <2>3, <2>4, <2>5 DEF TableInv
<1>11. OrderInv'
  <2>1. \A r \in Runs : Active(r)' => r = Run(c)
    BY <1>2, <1>8 DEF Active
  <2>2. \A r \in Runs \ {Run(c)} : /\ runs'[r].accepted \in 0..head /\ runs'[r].ended \in 0..head
                                   /\ ~Active(r)'
    BY <1>7, <1>8, <2>1 DEF RunRecords
  <2>3. runs'[Run(c)].accepted = head + 1 /\ runs'[Run(c)].through \in {0, head}
    BY <1>4, <1>5, <1>8
  <2>4. ASSUME NEW r \in Runs, NEW q \in Runs, runs'[r] # NoRecord, runs'[q] # NoRecord,
               runs'[r].accepted < runs'[q].accepted
        PROVE  ~Active(r)' /\ runs'[r].ended < runs'[q].accepted
    <3>1. r # Run(c)
      BY <1>3, <2>2, <2>3, <2>4, SMT
    <3>2. CASE q = Run(c)
      BY <1>3, <2>2, <2>3, <3>1, <3>2, SMT
    <3>3. CASE q # Run(c)
      BY <1>8, <2>2, <2>4, <3>1, <3>3 DEF IInv, OrderInv
    <3>4. QED
      BY <3>2, <3>3
  <2>5. \A r \in Runs : runs'[r].through # 0 => runs'[r].accepted = runs'[r].through + 1
    BY <1>8, <2>3 DEF IInv, OrderInv
  <2>6. QED
    BY <2>1, <2>4, <2>5 DEF OrderInv
<1>12. Permanent
  BY <1>2, <1>8, <1>9 DEF Permanent
<1>13. QED
  BY <1>2, <1>3, <1>5, <1>8, <1>9, <1>10, <1>11, <1>12, SMT

\* The acceptance that inserts the run, and the caller that goes on to execute
\* it, is told of a failure, or is gone.
LEMMA InsertStep ==
    ASSUME IInv, NEW c \in Callers, pc[c] \in {"accepting", "orphan"}, up,
           Verdict(c) = "fresh", InsertRun(c), NEW stage \in {"idle", "start"}, Leave(c, stage),
           NEW r \in {report[c], "failed"}, report' = [report EXCEPT ![c] = r],
           UNCHANGED <<instance, up, req, starts>>, closing' \in BOOLEAN
    PROVE  IInv'
<1>1. /\ head' \in Nat /\ head <= head'
      /\ commands' \in [Operations -> CommandRecords(head')]
      /\ runs' \in [Runs -> RunRecords(head')]
      /\ TableInv' /\ OrderInv' /\ Permanent
      /\ commands[Op(c)] = NoCommand /\ commands'[Op(c)] = Command(c)
      /\ \A o \in Operations \ {Op(c)} : commands'[o] = commands[o]
      /\ runs[Run(c)] = NoRecord /\ starts[Run(c)] = 0
      /\ runs'[Run(c)].state = "accepted" /\ runs'[Run(c)].owner = instance
      /\ ~runs'[Run(c)].result
      /\ \A q \in Runs \ {Run(c)} : runs'[q] = runs[q]
  BY InsertTables
<1>2. /\ pc' \in [Callers -> Stages] /\ lock' \in [Operations -> Callers \cup {NoCaller}]
      /\ found' \in [Callers -> BOOLEAN] /\ through' \in [Callers -> 0..head]
      /\ pc'[c] = stage
      /\ \A d \in Callers \ {c} :
            /\ pc'[d] = pc[d] /\ found'[d] = found[d] /\ through'[d] = through[d]
            /\ \A o \in Operations : lock[o] = d => lock'[o] = d
  <2>1. stage \in Stages /\ TypeOK
    BY DEF IInv, Stages, ExecutionStages
  <2>2. QED
    BY <2>1, LeaveFrame
<1>3. TypeOK'
  <2>1. through' \in [Callers -> 0..head'] /\ report' \in [Callers -> Reports]
    BY <1>1, <1>2, TypesGrow DEF IInv, TypeOK, Reports
  <2>2. QED
    BY <1>1, <1>2, <2>1 DEF IInv, TypeOK, CommandRecords, RunRecords
<1>4. \A d \in Callers : Op(d)' = Op(d) /\ Run(d)' = Run(d) /\ Op(d) \in Operations /\ Run(d) \in Runs
  BY RequestType DEF IInv, Op, Run
<1>5. \A d \in Callers : Executing(d) => Run(d) # Run(c)
  <2>1. NoRecord.state = "none"
    BY DEF NoRecord
  <2>2. QED
    BY <1>1, <1>4, <2>1, RequestType, SMT DEF IInv, ExecutionInv, ExecutionInvOf, TableInv
<1>6. ExecutionInv'
  <2>1. ASSUME NEW d \in Callers, d # c
        PROVE  ExecutionInvOf(d)' /\ (Executing(d)' <=> Executing(d))
    BY <1>1, <1>2, <1>4, <1>5, <2>1, ExecutionFrame DEF Executing
  <2>2. Command(c).run = Run(c) /\ Command(c).input = req[c].input
    BY DEF Command
  <2>3. ExecutionInvOf(c)'
    BY <1>1, <1>2, <1>4, <2>2 DEF ExecutionInvOf, Executing, ExecutionStages
  <2>4. QED
    BY <1>4, <1>5, <2>1, <2>3 DEF IInv, ExecutionInv
<1>7. LockInv'
  <2>1. LockInvOf(c)'
    BY <1>2 DEF LockInvOf, LockStages
  <2>2. lock[Op(c)] = c
    BY DEF IInv, LockInv, LockInvOf, LockStages
  <2>3. ASSUME NEW d \in Callers, d # c, Op(d) # Op(c)
        PROVE  LockInvOf(d)'
    BY <1>1, <1>2, <1>4, <2>3, LockFrame
  <2>4. ASSUME NEW d \in Callers, d # c, Op(d) = Op(c)
        PROVE  LockInvOf(d)'
    BY <1>1, <1>2, <1>4, <2>2, <2>4, SMT DEF IInv, LockInv, LockInvOf, LockStages
  <2>5. QED
    BY <2>1, <2>3, <2>4 DEF LockInv
<1>8. ReportInv'
  <2>1. \A d \in Callers : report'[d] \in {report[d], "none", "failed"}
    BY DEF IInv, TypeOK
  <2>2. QED
    BY <1>1, <2>1, ReportFrame DEF ReportInv
<1>9. QED
  BY <1>1, <1>3, <1>6, <1>7, <1>8 DEF IInv

LEMMA CommitAcceptanceStep ==
    ASSUME IInv, NEW c \in Callers, NEW how \in Hows, CommitAcceptance(c, how)
    PROVE  IInv'
<1>1. /\ up /\ pc[c] \in {"accepting", "orphan"} /\ closing' \in BOOLEAN
      /\ UNCHANGED <<instance, up, req, starts>>
  BY DEF CommitAcceptance
<1>2. report[c] \in Reports /\ report = [report EXCEPT ![c] = report[c]]
  BY DEF IInv, TypeOK
<1>3. CASE Verdict(c) = "fresh" /\ InsertRun(c)
  <2>1. CASE pc[c] = "orphan"
    <3>1. Leave(c, "idle") /\ report' = report
      BY <2>1 DEF CommitAcceptance, AcceptanceOutcome
    <3>2. QED
      BY <1>1, <1>2, <1>3, <3>1, InsertStep
  <2>2. CASE pc[c] # "orphan" /\ how = "ok"
    <3>1. Leave(c, "start") /\ report' = report
      BY <1>3, <2>2 DEF CommitAcceptance, AcceptanceOutcome, Executes, GoesOn
    <3>2. QED
      BY <1>1, <1>2, <1>3, <3>1, InsertStep
  <2>3. CASE pc[c] # "orphan" /\ how # "ok"
    <3>1. Return(c, "failed")
      BY <1>3, <2>3 DEF CommitAcceptance, AcceptanceOutcome, Executes, GoesOn
    <3>2. QED
      BY <1>1, <1>2, <1>3, <3>1, InsertStep DEF Return
  <2>4. QED
    BY <2>1, <2>2, <2>3
<1>4. CASE UNCHANGED database /\ ~(Verdict(c) = "fresh" /\ how = "ok")
  <2>1. Permanent
    BY <1>4 DEF Permanent, database
  <2>2. CASE pc[c] = "orphan"
    <3>1. Leave(c, "idle") /\ report' = report
      BY <2>2 DEF CommitAcceptance, AcceptanceOutcome
    <3>2. ReportInvOf(c)'
      BY <1>1, <2>1, <3>1, ReportFrame
    <3>3. QED
      BY <1>1, <1>2, <1>4, <3>1, <3>2, LeaveStep
  <2>3. CASE pc[c] # "orphan"
    <3>1. PICK r \in {"duplicate", "failed", "conflict"} :
            /\ Return(c, r)
            /\ r = "duplicate" => Verdict(c) = "duplicate"
            /\ r = "conflict" => Verdict(c) = "conflict"
      BY <1>4, <2>3 DEF CommitAcceptance, AcceptanceOutcome, Executes, GoesOn
    <3>2. ReportInvOf(c)'
      <4>1. report'[c] = r
        BY <3>1 DEF IInv, TypeOK, Return
      <4>2. CASE r = "failed"
        BY <1>1, <2>1, <4>1, <4>2, ReportFrame
      <4>3. Op(c)' = Op(c) /\ Run(c)' = Run(c) /\ commands' = commands /\ runs' = runs /\ req' = req
        BY <1>1, <1>4 DEF Op, Run, database
      <4>4. CASE r = "duplicate"
        <5>1. commands[Op(c)] = Command(c)
          BY <3>1, <4>4 DEF Verdict
        <5>2. QED
          BY <4>1, <4>3, <4>4, <5>1, SMT DEF ReportInvOf, Command
      <4>5. CASE r = "conflict"
        <5>1. commands[Op(c)] # NoCommand /\ commands[Op(c)] # Command(c)
          BY <3>1, <4>5 DEF Verdict
        <5>2. commands[Op(c)] \in CommandRecords(head) /\ Run(c) # NoRun
          BY RequestType DEF IInv, TypeOK, CommandRecords
        <5>3. /\ Command(c).method = req[c].method /\ Command(c).run = Run(c)
              /\ Command(c).input = req[c].input
          BY DEF Command
        <5>4. \/ commands[Op(c)].run # Run(c) \/ commands[Op(c)].method # req[c].method
              \/ commands[Op(c)].through = Command(c).through
          BY <1>1, <5>2 DEF IInv, LockInv, LockInvOf
        <5>5. ~(/\ commands[Op(c)].method = req[c].method /\ commands[Op(c)].run = Run(c)
                /\ commands[Op(c)].input = req[c].input)
          BY <5>1, <5>2, <5>3, <5>4 DEF CommandRecords, Command
        <5>6. QED
          BY <4>1, <4>3, <4>5, <5>1, <5>5 DEF ReportInvOf
      <4>6. QED
        BY <4>2, <4>4, <4>5
    <3>3. QED
      BY <1>1, <1>4, <3>1, <3>2, LeaveStep DEF Return, Reports
  <2>4. QED
    BY <2>2, <2>3
<1>5. QED
  BY <1>3, <1>4 DEF CommitAcceptance

\* A record that the executor of a run appends is the next one of its run.
LEMMA AppendTables ==
    ASSUME IInv, NEW c \in Callers, NEW kind \in Kinds, AppendRecord(c, kind), UNCHANGED starts,
           \/ pc[c] = "begin" /\ kind = "started"
           \/ pc[c] = "going" /\ kind \in {"work", "finished"}
           \/ pc[c] = "ended" /\ kind = "result"
    PROVE  /\ head' \in Nat /\ head <= head' /\ commands' = commands
           /\ runs' \in [Runs -> RunRecords(head')]
           /\ TableInv' /\ OrderInv' /\ Permanent
           /\ \A q \in Runs \ {Run(c)} : runs'[q] = runs[q]
           /\ runs'[Run(c)].owner = instance
           /\ kind \in {"started", "work"} => runs'[Run(c)].state = "running"
           /\ kind \in {"finished", "result"} => runs'[Run(c)].state = "terminal"
           /\ runs'[Run(c)].result <=> kind = "result"
<1>0. PICK r \in Runs : r = Run(c)
  BY RequestType DEF IInv
<1> DEFINE next == CASE kind = "started" -> [runs[r] EXCEPT !.state = "running"]
                     [] kind = "work" -> runs[r]
                     [] kind = "finished" -> [runs[r] EXCEPT !.state = "terminal", !.ended = head + 1]
                     [] kind = "result" -> [runs[r] EXCEPT !.result = TRUE]
<1>1. r # NoRun /\ Executing(c)
  BY <1>0, RequestType DEF IInv, Executing, ExecutionStages
<1>2. /\ runs[r].owner = instance /\ runs[r].state # "none"
      /\ kind = "started" => runs[r].state = "accepted"
      /\ kind \in {"work", "finished"} => runs[r].state = "running"
      /\ kind = "result" => runs[r].state = "terminal"
      /\ ~runs[r].result
  BY <1>0, <1>1 DEF IInv, ExecutionInv, ExecutionInvOf
<1>3. head \in Nat /\ head' = head + 1 /\ commands' = commands /\ runs' = [runs EXCEPT ![r] = next]
  BY <1>0 DEF IInv, TypeOK, AppendRecord
<1>4. runs \in [Runs -> RunRecords(head)] /\ runs \in [Runs -> RunRecords(head')]
  BY <1>3, TypesGrow, SMT DEF IInv, TypeOK, RunRecords
<1>5. /\ next \in RunRecords(head') /\ next.state # "none"
      /\ next.accepted = runs[r].accepted /\ next.through = runs[r].through
      /\ next.owner = runs[r].owner
      /\ next.ended = runs[r].ended \/ kind = "finished"
      /\ kind \in {"started", "work"} => next.state = "running"
      /\ kind \in {"finished", "result"} => next.state = "terminal"
      /\ next.result <=> kind = "result"
  <2>1. CASE kind = "started"
    BY <1>1, <1>2, <1>3, <1>4, <2>1 DEF RunRecords, RunStates
  <2>2. CASE kind = "work"
    BY <1>1, <1>2, <1>3, <1>4, <2>2 DEF RunRecords, RunStates
  <2>3. CASE kind = "finished"
    <3>1. next = [runs[r] EXCEPT !.state = "terminal", !.ended = head + 1]
      BY <2>3
    <3>2. [runs[r] EXCEPT !.state = "terminal", !.ended = head + 1] \in RunRecords(head')
      <4> HIDE DEF next
      <4>1. head + 1 \in 0..head' /\ runs[r] \in RunRecords(head')
        BY <1>3, <1>4, SMT
      <4>2. QED
        BY <4>1 DEF RunRecords, RunStates
    <3>3. QED
      BY <1>2, <1>4, <2>3, <3>1, <3>2 DEF RunRecords
  <2>4. CASE kind = "result"
    BY <1>1, <1>2, <1>3, <1>4, <2>4 DEF RunRecords, RunStates
  <2>5. QED
    BY <2>1, <2>2, <2>3, <2>4 DEF Kinds
<1> HIDE DEF next
<1>6. /\ runs' \in [Runs -> RunRecords(head')] /\ runs'[r] = next
      /\ \A q \in Runs \ {r} : runs'[q] = runs[q]
  BY <1>1, <1>3, <1>4, <1>5
<1>7. TableInv'
  BY <1>1, <1>2, <1>3, <1>5, <1>6 DEF IInv, TypeOK, TableInv
<1>8. OrderInv'
  <2>1. runs[r] # NoRecord
    BY <1>2, SMT DEF NoRecord
  <2>2. (Active(r)' => Active(r)) /\ (kind = "finished" => Active(r))
    BY <1>2, <1>5, <1>6 DEF Active, Kinds
  <2>3. QED
    BY <1>1, <1>5, <1>6, <2>1, <2>2, OrderKept
<1>9. Permanent
  BY <1>2, <1>3, <1>6 DEF Permanent, Kinds
<1>10. QED
  BY <1>0, <1>2, <1>3, <1>5, <1>6, <1>7, <1>8, <1>9, SMT

\* The executor appends a record and goes on, or returns.
LEMMA RecordStep ==
    ASSUME IInv, NEW c \in Callers, NEW kind \in Kinds, AppendRecord(c, kind), up,
           \/ pc[c] = "begin" /\ kind = "started"
           \/ pc[c] = "going" /\ kind \in {"work", "finished"}
           \/ pc[c] = "ended" /\ kind = "result",
           NEW stage \in {"idle", "going", "ended"},
           stage = "going" => kind \in {"started", "work"}, stage = "ended" => kind = "finished",
           Leave(c, stage) \/ (Goto(c, stage) /\ UNCHANGED <<lock, found, through>>),
           NEW r \in {report[c], "failed", "executed"}, r = "executed" => kind = "result" \/ r = report[c],
           report' = [report EXCEPT ![c] = r],
           UNCHANGED <<instance, up, req, starts>>, closing' \in BOOLEAN
    PROVE  IInv'
<1>1. /\ head' \in Nat /\ head <= head' /\ commands' = commands
      /\ runs' \in [Runs -> RunRecords(head')]
      /\ TableInv' /\ OrderInv' /\ Permanent
      /\ \A q \in Runs \ {Run(c)} : runs'[q] = runs[q]
      /\ runs'[Run(c)].owner = instance
      /\ kind \in {"started", "work"} => runs'[Run(c)].state = "running"
      /\ kind \in {"finished", "result"} => runs'[Run(c)].state = "terminal"
      /\ runs'[Run(c)].result <=> kind = "result"
  BY AppendTables
<1>2. /\ pc' \in [Callers -> Stages] /\ lock' \in [Operations -> Callers \cup {NoCaller}]
      /\ found' \in [Callers -> BOOLEAN] /\ through' \in [Callers -> 0..head]
      /\ pc'[c] = stage
      /\ \A d \in Callers \ {c} :
            /\ pc'[d] = pc[d] /\ found'[d] = found[d] /\ through'[d] = through[d]
            /\ \A o \in Operations : lock[o] = d => lock'[o] = d
  <2>1. stage \in Stages /\ TypeOK
    BY DEF IInv, Stages, ExecutionStages
  <2>2. CASE Leave(c, stage)
    BY <2>1, <2>2, LeaveFrame
  <2>3. CASE Goto(c, stage) /\ UNCHANGED <<lock, found, through>>
    BY <2>1, <2>3 DEF TypeOK, Goto
  <2>4. QED
    BY <2>2, <2>3
<1>3. TypeOK'
  <2>1. through' \in [Callers -> 0..head'] /\ report' \in [Callers -> Reports]
    BY <1>1, <1>2, TypesGrow, ZenonT(30) DEF IInv, TypeOK, Reports
  <2>2. commands' \in [Operations -> CommandRecords(head')]
    BY <1>1, TypesGrow DEF IInv, TypeOK, CommandRecords
  <2>3. QED
    BY <1>1, <1>2, <2>1, <2>2 DEF IInv, TypeOK, CommandRecords, RunRecords
<1>4. \A d \in Callers : Op(d)' = Op(d) /\ Run(d)' = Run(d) /\ Op(d) \in Operations /\ Run(d) \in Runs
  BY RequestType DEF IInv, Op, Run
<1>5. Executing(c) /\ \A d \in Callers \ {c} : Executing(d) => Run(d) # Run(c)
  <2>1. Executing(c)
    BY DEF Executing, ExecutionStages
  <2>2. QED
    BY <2>1 DEF IInv, ExecutionInv
<1>6. ExecutionInv'
  <2>1. ASSUME NEW d \in Callers, d # c
        PROVE  ExecutionInvOf(d)' /\ (Executing(d)' <=> Executing(d))
    BY <1>1, <1>2, <1>4, <1>5, <2>1, ExecutionFrame DEF Executing
  <2>2. commands[Op(c)].run = Run(c) /\ commands[Op(c)].input = req[c].input
    BY <1>5 DEF IInv, ExecutionInv, ExecutionInvOf
  <2>3. ExecutionInvOf(c)'
    BY <1>1, <1>2, <1>4, <2>2 DEF ExecutionInvOf, Executing, ExecutionStages
  <2>4. QED
    BY <1>4, <1>5, <2>1, <2>3 DEF IInv, ExecutionInv
<1>7. LockInv'
  <2>1. LockInvOf(c)'
    BY <1>2 DEF LockInvOf, LockStages
  <2>2. ASSUME NEW d \in Callers, d # c
        PROVE  LockInvOf(d)'
    BY <1>1, <1>2, <2>2, LockFrame
  <2>3. QED
    BY <2>1, <2>2 DEF LockInv
<1>8. ReportInv'
  <2>1. report'[c] = r /\ \A d \in Callers \ {c} : report'[d] = report[d]
    BY DEF IInv, TypeOK
  <2>2. \A d \in Callers \ {c} : ReportInvOf(d)'
    BY <1>1, <2>1, ReportFrame
  <2>3. ReportInvOf(c)'
    <3>1. CASE r \in {report[c], "failed"}
      BY <1>1, <2>1, <3>1, ReportFrame
    <3>2. CASE r = "executed" /\ r # report[c]
      BY <1>1, <1>4, <2>1, <3>2 DEF ReportInvOf
    <3>3. QED
      BY <3>1, <3>2
  <2>4. QED
    BY <2>2, <2>3 DEF ReportInv
<1>9. QED
  BY <1>1, <1>3, <1>6, <1>7, <1>8 DEF IInv

LEMMA AppendStep ==
    ASSUME IInv, NEW c \in Callers, NEW kind \in Kinds, NEW how \in Hows, Append(c, kind, how)
    PROVE  IInv'
<1>1. /\ up /\ closing' \in BOOLEAN /\ UNCHANGED <<instance, up, req, starts>>
      /\ \/ pc[c] = "begin" /\ kind = "started"
         \/ pc[c] = "going" /\ kind \in {"work", "finished"}
         \/ pc[c] = "ended" /\ kind = "result"
  BY DEF Append
<1>2. report[c] \in Reports /\ report = [report EXCEPT ![c] = report[c]]
  BY DEF IInv, TypeOK
<1>3. \/ AppendRecord(c, kind)
      \/ UNCHANGED database /\ ~Acknowledged(kind, how)
  BY DEF Append, Acknowledged
<1>4. CASE ~Acknowledged(kind, how)
  <2>1. Return(c, "failed")
    BY <1>4 DEF Append
  <2>2. CASE AppendRecord(c, kind)
    BY <1>1, <2>1, <2>2, RecordStep DEF Return
  <2>3. CASE UNCHANGED database
    <3>1. ReportInvOf(c)'
      BY <1>1, <2>1, <2>3, ReportFrame DEF IInv, TypeOK, Return, Permanent, database
    <3>2. QED
      BY <1>1, <2>1, <2>3, <3>1, LeaveStep DEF Return, Reports
  <2>4. QED
    BY <1>3, <2>2, <2>3
<1>5. CASE Acknowledged(kind, how)
  <2>1. AppendRecord(c, kind) /\ AfterAppend(c, kind)
    BY <1>3, <1>5 DEF Append
  <2>2. CASE kind \in {"started", "work"}
    <3>1. Goto(c, "going") /\ UNCHANGED <<report, lock, found, through>>
      BY <2>1, <2>2 DEF AfterAppend
    <3>2. QED
      BY <1>1, <1>2, <2>1, <2>2, <3>1, RecordStep
  <2>3. CASE kind = "finished"
    <3>1. Goto(c, "ended") /\ UNCHANGED <<report, lock, found, through>>
      BY <2>1, <2>3 DEF AfterAppend
    <3>2. QED
      BY <1>1, <1>2, <2>1, <2>3, <3>1, RecordStep
  <2>4. CASE kind = "result"
    <3>1. Return(c, "executed")
      BY <2>1, <2>4 DEF AfterAppend
    <3>2. QED
      BY <1>1, <2>1, <2>4, <3>1, RecordStep DEF Return
  <2>5. QED
    BY <2>2, <2>3, <2>4 DEF Kinds
<1>6. QED
  BY <1>4, <1>5

LEMMA NextStep == IInv /\ [Next]_vars => IInv'
<1> SUFFICES ASSUME IInv, [Next]_vars PROVE IInv'
  BY SMT
<1>1. CASE UNCHANGED vars
  <2>1. TableInv' /\ OrderInv'
    BY <1>1, TableFrame DEF vars
  <2>2. TypeOK'
    BY <1>1 DEF IInv, TypeOK, vars, database, process
  <2>3. Permanent /\ UNCHANGED <<req, pc, instance, up, commands, runs, found, through, lock, report, starts>>
    BY <1>1 DEF Permanent, vars, database, process
  <2>4. ExecutionInv'
    BY <2>3 DEF IInv, ExecutionInv, ExecutionInvOf, Executing, Op, Run
  <2>5. LockInv' /\ ReportInv'
    BY <2>3, LockFrame, ReportFrame DEF LockInv, ReportInv
  <2>6. QED
    BY <2>1, <2>2, <2>4, <2>5 DEF IInv
<1>2. CASE \E c \in Callers : CallerStep(c)
  BY <1>2, SubmitStep, LookupStep, LockStep, RecheckStep, PrepareStep, RepeatStep, AcceptStep,
     RejectedStep, CommitAcceptanceStep, StartRunStep, AppendStep, DroppedStep
     DEF CallerStep
<1>3. CASE Next
  BY <1>2, <1>3, OpenFailsStep, RenameStep, CrashStep, RestartStep DEF Next
<1>4. QED
  BY <1>1, <1>3

-----------------------------------------------------------------------------

\* The inductive invariant holds in every state.
THEOREM Invariant == Spec => []IInv
BY InitIInv, NextStep, PTL DEF Spec

\* The runs of a session execute in turn, each at most once, whatever callers
\* retry and wherever the process crashes (execute, accept).
THEOREM ExecutesInTurn == Spec => []RunsInTurn
<1>1. ASSUME IInv, NEW c \in Callers, pc[c] \in ExecutionStages
      PROVE  /\ commands[Op(c)].run = Run(c) /\ commands[Op(c)].input = req[c].input
             /\ runs[Run(c)].owner = instance
             /\ runs[Run(c)].state \in {"accepted", "running", "terminal"}
  BY <1>1 DEF IInv, ExecutionInv, ExecutionInvOf, Executing, ExecutionStages
<1>2. IInv => RunsInTurn
  BY <1>1, SMT DEF IInv, ExecutionInv, OrderInv, RunsInTurn
<1>3. QED
  BY <1>2, Invariant, PTL

\* What a caller is told is what the database says (run_held, check_commit).
THEOREM ReportsAreTrue == Spec => []ReportIsTrue
<1>1. IInv => ReportIsTrue
  BY SMT DEF IInv, ReportInv, ReportInvOf, ReportIsTrue
<1>2. QED
  BY <1>1, Invariant, PTL

\* What a step does to the tables, as the ledger sees it: at most one run ends,
\* a receipt without a run is written, a run is accepted, or its execution begins.
RunsGoOn ==
    /\ UNCHANGED <<commands, starts>>
    /\ \/ \A q \in Runs : Active(q)' = Active(q)
       \/ \E r \in Runs : /\ Active(r) /\ ~Active(r)'
                          /\ \A q \in Runs \ {r} : Active(q)' = Active(q)

OtherReceipt ==
    /\ UNCHANGED <<runs, starts>>
    /\ \A o \in Operations : commands'[o] = commands[o] \/ (commands[o].run = NoRun /\ commands'[o].run = NoRun)

Accepted ==
    /\ UNCHANGED <<req, starts>>
    /\ \E c \in Callers : InsertRun(c) /\ Verdict(c) = "fresh"

LEMMA TableSteps ==
    ASSUME IInv, [Next]_vars
    PROVE  RunsGoOn \/ OtherReceipt \/ Accepted \/ \E c \in Callers : StartRun(c)
<1>1. ASSUME UNCHANGED <<commands, runs, starts>> PROVE RunsGoOn
  BY <1>1 DEF RunsGoOn, Active
<1>2. ASSUME Reconcile, UNCHANGED starts PROVE RunsGoOn
  <2>1. CASE UNCHANGED database
    BY <1>1, <1>2, <2>1 DEF database
  <2>2. ASSUME NEW r \in Runs, Abandoned(r), Interrupt(r) PROVE RunsGoOn
    <3>1. runs'[r].state = "interrupted" /\ \A q \in Runs \ {r} : runs'[q] = runs[q]
      BY <2>2 DEF IInv, TypeOK, Interrupt
    <3>2. QED
      BY <1>2, <2>2, <3>1 DEF RunsGoOn, Abandoned, Active, Interrupt
  <2>3. QED
    BY <1>2, <2>1, <2>2 DEF Reconcile
<1>3. ASSUME NEW c \in Callers, NEW how \in Hows, CommitAcceptance(c, how)
      PROVE  RunsGoOn \/ Accepted
  BY <1>1, <1>3 DEF CommitAcceptance, Accepted, database
<1>4. ASSUME NEW c \in Callers, NEW kind \in Kinds, NEW how \in Hows, Append(c, kind, how)
      PROVE  RunsGoOn
  <2>1. CASE UNCHANGED database
    BY <1>1, <1>4, <2>1 DEF Append, database
  <2>2. CASE AppendRecord(c, kind)
    <3>1. PICK r \in Runs : r = Run(c)
      BY RequestType DEF IInv
    <3>2. /\ commands' = commands /\ starts' = starts
          /\ \A q \in Runs \ {r} : runs'[q] = runs[q]
          /\ kind \in {"started", "work"} => runs'[r].state = "running"
          /\ kind \in {"finished", "result"} => runs'[r].state = "terminal"
      BY <1>4, <2>2, <3>1, AppendTables DEF Append
    <3>3. /\ kind = "started" => runs[r].state = "accepted"
          /\ kind \in {"work", "finished"} => runs[r].state = "running"
          /\ kind = "result" => runs[r].state = "terminal"
      BY <1>4, <3>1 DEF IInv, ExecutionInv, ExecutionInvOf, Executing, ExecutionStages, Append
    <3>4. QED
      BY <3>2, <3>3, SMT DEF RunsGoOn, Active, Kinds
  <2>3. QED
    BY <1>4, <2>1, <2>2 DEF Append
<1>5. ASSUME NEW o \in Operations, Rename(o) PROVE OtherReceipt
  BY <1>5, SMT DEF IInv, TypeOK, Rename, OtherReceipt, NoCommand
<1>6. ASSUME NEW c \in Callers, CallerStep(c)
      PROVE  RunsGoOn \/ Accepted \/ StartRun(c)
  BY <1>1, <1>2, <1>3, <1>4, <1>6 DEF CallerStep, Submit, Lookup, Lock, Recheck, Prepare, Repeat, Accept,
     Rejected, Dropped, database
<1>7. CASE UNCHANGED vars
  BY <1>1, <1>7 DEF vars, database
<1>8. CASE Next
  BY <1>1, <1>2, <1>5, <1>6, <1>8 DEF Next, OpenFails, Crash, Restart, database
<1>9. QED
  BY <1>7, <1>8

\* The session implements the ledger: acceptance, the first poll of an
\* execution, and the end or the interruption of a run are steps of it, and
\* everything else leaves it alone.
THEOREM ImplementsLedger == Spec => LedgerSpec
<1> DEFINE Content == [o \in Operations |->
                         IF commands[o].run = NoRun THEN NoCommand
                         ELSE [run |-> commands[o].run, input |-> commands[o].input]]
           Begun == {o \in Operations : commands[o].run # NoRun /\ starts[commands[o].run] > 0}
           Open == {o \in Operations : commands[o].run # NoRun /\ Active(commands[o].run)}
<1>1. Init => Ledger!Init
  BY SMT DEF Init, Ledger!Init, NoCommand
<1>2. ASSUME IInv, [Next]_vars
      PROVE  [Ledger!Next]_(Ledger!vars)
  <2>0. \A o \in Operations : commands[o].run \in Runs \cup {NoRun}
    BY <1>2 DEF IInv, TypeOK
  <2>1. CASE RunsGoOn
    <3>1. Content' = Content /\ Begun' = Begun
      BY <2>1 DEF RunsGoOn
    <3>2. CASE \A q \in Runs : Active(q)' = Active(q)
      <4>1. Open' = Open
        BY <2>0, <2>1, <3>2 DEF RunsGoOn, Active
      <4>2. QED
        BY <3>1, <4>1 DEF Ledger!vars
    <3>3. ASSUME NEW r \in Runs, Active(r), ~Active(r)', \A q \in Runs \ {r} : Active(q)' = Active(q)
          PROVE  [Ledger!Next]_(Ledger!vars)
      <4>1. CASE \E o \in Operations : commands[o].run = r
        <5>1. PICK o \in Operations : commands[o].run = r
          BY <4>1
        <5>2. r # NoRun /\ \A p \in Operations : commands[p].run = r => p = o
          BY <1>2, <5>1, ExecutionAssumption DEF IInv, TableInv
        <5>3. o \in Open /\ Open' = Open \ {o}
          BY <2>0, <2>1, <3>3, <5>1, <5>2 DEF RunsGoOn, Active
        <5>4. QED
          BY <3>1, <5>3 DEF Ledger!Next, Ledger!Close
      <4>2. CASE \A o \in Operations : commands[o].run # r
        <5>1. Open' = Open
          BY <2>0, <2>1, <3>3, <4>2 DEF RunsGoOn, Active
        <5>2. QED
          BY <3>1, <5>1 DEF Ledger!vars
      <4>3. QED
        BY <4>1, <4>2
    <3>4. QED
      BY <2>1, <3>2, <3>3 DEF RunsGoOn
  <2>2. CASE OtherReceipt
    <3>1. \A o \in Operations : \/ commands'[o] = commands[o]
                                \/ commands[o].run = NoRun /\ commands'[o].run = NoRun
      BY <2>2 DEF OtherReceipt
    <3>2. Content' = Content
      BY <3>1
    <3>3. Begun' = Begun
      BY <2>2, <3>1 DEF OtherReceipt
    <3>4. Open' = Open
      BY <2>2, <3>1 DEF OtherReceipt, Active
    <3>5. QED
      BY <3>2, <3>3, <3>4 DEF Ledger!vars
  <2>3. CASE Accepted
    <3>1. PICK c \in Callers : InsertRun(c) /\ Verdict(c) = "fresh"
      BY <2>3 DEF Accepted
    <3>2. PICK o \in Operations : o = Op(c)
      BY <1>2, RequestType DEF IInv
    <3>3. PICK r \in Runs : r = Run(c)
      BY <1>2, RequestType DEF IInv
    <3>4. /\ commands[o] = NoCommand /\ commands'[o] = Command(c)
          /\ \A p \in Operations \ {o} : commands'[p] = commands[p]
          /\ runs[r] = NoRecord /\ starts[r] = 0 /\ starts' = starts
          /\ runs'[r].state = "accepted"
          /\ \A q \in Runs \ {r} : runs'[q] = runs[q]
      BY <1>2, <2>3, <3>1, <3>2, <3>3, InsertTables DEF Accepted
    <3>5. /\ commands'[o].run = r /\ commands'[o].input = req[c].input /\ r # NoRun
          /\ req[c].input \in Inputs /\ commands[o].run = NoRun
      BY <1>2, <3>3, <3>4, RequestType, SMT DEF IInv, Command, NoCommand
    <3>6. \A q \in Runs : ~Active(q)
      BY <3>1 DEF Verdict
    <3>7. \A p \in Operations : commands[p].run # r
      BY <1>2, <3>4, <3>5, SMT DEF IInv, TableInv, NoRecord
    <3>8. /\ Content[o] = NoCommand
          /\ Content' = [Content EXCEPT ![o] = [run |-> r, input |-> req[c].input]]
      BY <3>4, <3>5
    <3>9. Begun' = Begun
      BY <3>4, <3>5, SMT
    <3>10. Open = {} /\ Open' = {o}
      <4>1. Open = {}
        BY <2>0, <3>6
      <4>2. \A q \in Runs : Active(q)' <=> q = r
        BY <3>4, <3>6 DEF Active
      <4>3. \A p \in Operations : p # o => commands'[p].run \in (Runs \ {r}) \cup {NoRun}
        BY <2>0, <3>4, <3>7
      <4>4. \A p \in Operations : (commands'[p].run # NoRun /\ Active(commands[p].run)') <=> p = o
        BY <3>5, <4>2, <4>3 DEF Active
      <4>5. QED
        BY <4>1, <4>4
    <3>11. QED
      BY <3>5, <3>8, <3>9, <3>10 DEF Ledger!Next, Ledger!Accept
  <2>4. ASSUME NEW c \in Callers, StartRun(c)
        PROVE  [Ledger!Next]_(Ledger!vars)
    <3>1. PICK o \in Operations : o = Op(c)
      BY <1>2, RequestType DEF IInv
    <3>2. PICK r \in Runs : r = Run(c)
      BY <1>2, RequestType DEF IInv
    <3>3. /\ UNCHANGED <<commands, runs>> /\ commands[o].run = r /\ r # NoRun
          /\ runs[r].state = "accepted" /\ starts[r] = 0
      BY <1>2, <2>4, <3>1, <3>2, RequestType
         DEF IInv, ExecutionInv, ExecutionInvOf, Executing, ExecutionStages, StartRun, database
    <3>4. starts'[r] = 1 /\ \A q \in Runs \ {r} : starts'[q] = starts[q]
      BY <1>2, <2>4, <3>2, <3>3, SMT DEF IInv, TypeOK, StartRun
    <3>5. \A p \in Operations : commands[p].run = r => p = o
      BY <1>2, <3>3 DEF IInv, TableInv
    <3>6. Content' = Content
      BY <3>3
    <3>7. Open' = Open /\ o \in Open
      BY <3>3 DEF Active
    <3>8. Begun' = Begun \cup {o} /\ o \notin Begun
      BY <2>0, <3>3, <3>4, <3>5, SMT
    <3>9. QED
      BY <3>6, <3>7, <3>8 DEF Ledger!Next, Ledger!Begin
  <2>5. QED
    BY <1>2, <2>1, <2>2, <2>3, <2>4, TableSteps, SMT
<1>3. QED
  BY <1>1, <1>2, Invariant, PTL DEF Spec, LedgerSpec, Ledger!Spec

-----------------------------------------------------------------------------
(***************************************************************************)
(* The locks of the store.  Each lock is a queue; who is in the queue of a *)
(* lock, and who has passed it, follows from where a task is.              *)
(***************************************************************************)
CONSTANTS Tasks, Ids, Commands, Copies, SessionOf, CommandOf, Does
VARIABLES place, kind, stage, current, inside, ahead

Locks == INSTANCE StorageLocks

\* Every task is a client of a session and has a command.
Clients == SessionOf \in [Tasks -> Ids] /\ CommandOf \in [Tasks -> Commands]

\* The locks that a task asks for.
SessionName(t) == <<"session", SessionOf[t]>>
CommandName(t) == <<"run", CommandOf[t]>>
OwnSession(t) == <<"session", SessionOf[t], current[SessionName(t)]>>
OwnCommand(t) == <<"run", CommandOf[t], current[CommandName(t)]>>

\* The tasks at a lock are in a line: of two one is ahead of the other, and of any of them
\* there is a first.
Queue(members, before) ==
  /\ \A t \in Tasks : before[t] \subseteq members /\ (t \notin members => before[t] = {})
  /\ \A t, u \in members : t # u => u \in before[t] \/ t \in before[u]
  /\ \A S \in SUBSET members : S # {} => \E t \in S : before[t] \cap S = {}

QueueInv == \A l \in Locks!Locks : Queue(inside[l], ahead[l])

\* A task is in the queues that its place tells.
PlaceOf(t) ==
  /\ t \in inside[Locks!Maintenance] <=> place[t] \notin Locks!Outside
  /\ t \in inside[Locks!CatalogLock] <=> place[t] \in Locks!InCatalog
  /\ \A l \in Locks!SessionLocks :
       t \in inside[l] <=> place[t] \in Locks!InSession /\ l = OwnSession(t)
  /\ \A l \in Locks!RunLocks :
       t \in inside[l] <=> stage[t] \in {"gate", "record"} /\ l = OwnCommand(t)
  /\ place[t] = "idle" => stage[t] = "none"

\* And the locks it has passed are its own.
GrantOf(t) ==
  /\ place[t] # "begin" =>
       \A u \in ahead[Locks!Maintenance][t] : Locks!Shared(t) /\ Locks!Shared(u)
  /\ place[t] # "session" => \A l \in Locks!SessionLocks : ahead[l][t] = {}
  /\ place[t] # "paused" => \A l \in Locks!RunLocks : ahead[l][t] = {}

LocksInv == Locks!LocksTypeOK /\ QueueInv /\ \A t \in Tasks : PlaceOf(t) /\ GrantOf(t)

LEMMA LocksDiffer ==
  /\ Locks!Maintenance # Locks!CatalogLock
  /\ Locks!Maintenance \notin Locks!SessionLocks \cup Locks!RunLocks
  /\ Locks!CatalogLock \notin Locks!SessionLocks \cup Locks!RunLocks
  /\ Locks!SessionLocks \cap Locks!RunLocks = {}
  /\ {Locks!Maintenance, Locks!CatalogLock} \cup Locks!SessionLocks \cup Locks!RunLocks = Locks!Locks
<1>1. ASSUME NEW l \in Locks!SessionLocks PROVE l[1] = "session"
  BY <1>1, SMT DEF Locks!SessionLocks
<1>2. ASSUME NEW l \in Locks!RunLocks PROVE l[1] = "run"
  BY <1>2, SMT DEF Locks!RunLocks
<1>3. Locks!Maintenance[1] = "maintenance" /\ Locks!CatalogLock[1] = "catalog"
  BY SMT DEF Locks!Maintenance, Locks!CatalogLock
<1>4. Locks!Maintenance # Locks!CatalogLock
  BY <1>3, SMT
<1>5. QED
  BY <1>1, <1>2, <1>3, <1>4 DEF Locks!Locks

\* Who joins goes to the end of the line.
LEMMA JoinQueue ==
  ASSUME NEW members \in SUBSET Tasks, NEW before \in [Tasks -> SUBSET Tasks],
         NEW t \in Tasks, t \notin members, Queue(members, before)
  PROVE  Queue(members \cup {t}, [before EXCEPT ![t] = members])
<1> DEFINE new == [before EXCEPT ![t] = members]
<1>1. new[t] = members /\ \A u \in Tasks \ {t} : new[u] = before[u]
  OBVIOUS
<1>2. t \notin before[t] /\ \A u \in Tasks : t \notin before[u]
  BY DEF Queue
<1> HIDE DEF new
<1>3. \A u \in Tasks : new[u] \subseteq members \cup {t} /\ (u \notin members \cup {t} => new[u] = {})
  BY <1>1 DEF Queue
<1>4. \A u, v \in members \cup {t} : u # v => v \in new[u] \/ u \in new[v]
  <2>1. TAKE u, v \in members \cup {t}
  <2>2. CASE u = t \/ v = t
    BY <1>1, <2>2
  <2>3. CASE u # t /\ v # t
    <3>1. u \in members /\ v \in members /\ new[u] = before[u] /\ new[v] = before[v]
      BY <1>1, <2>3
    <3>2. QED
      BY <3>1 DEF Queue
  <2>4. QED
    BY <2>2, <2>3
<1>5. ASSUME NEW S \in SUBSET (members \cup {t}), S # {} PROVE \E u \in S : new[u] \cap S = {}
  <2>1. CASE S \cap members = {}
    BY <1>1, <1>5, <2>1
  <2>2. CASE S \cap members # {}
    <3>1. PICK u \in S \cap members : before[u] \cap (S \cap members) = {}
      BY <2>2 DEF Queue
    <3>2. new[u] = before[u] /\ before[u] \subseteq members
      BY <1>1, <3>1 DEF Queue
    <3>3. QED
      BY <3>1, <3>2
  <2>3. QED
    BY <2>1, <2>2
<1>6. QED
  BY <1>3, <1>4, <1>5 DEF Queue, new

\* Who leaves, from anywhere in the line, leaves a line.
LEMMA LeaveQueue ==
  ASSUME NEW members \in SUBSET Tasks, NEW before \in [Tasks -> SUBSET Tasks],
         NEW t \in Tasks, Queue(members, before)
  PROVE  Queue(members \ {t}, [u \in Tasks |-> IF u = t THEN {} ELSE before[u] \ {t}])
<1> DEFINE new == [u \in Tasks |-> IF u = t THEN {} ELSE before[u] \ {t}]
<1>1. new[t] = {} /\ \A u \in Tasks \ {t} : new[u] = before[u] \ {t}
  OBVIOUS
<1> HIDE DEF new
<1>3. ASSUME NEW u \in Tasks
      PROVE  new[u] \subseteq members \ {t} /\ (u \notin members \ {t} => new[u] = {})
  <2>1. CASE u = t
    BY <1>1, <2>1
  <2>2. CASE u # t
    <3>1. new[u] = before[u] \ {t} /\ before[u] \subseteq members /\ (u \notin members => before[u] = {})
      BY <1>1, <2>2 DEF Queue
    <3>2. QED
      BY <2>2, <3>1
  <2>3. QED
    BY <2>1, <2>2
<1>4. ASSUME NEW u \in members \ {t}, NEW v \in members \ {t}, u # v
      PROVE  v \in new[u] \/ u \in new[v]
  <2>1. v \in before[u] \/ u \in before[v]
    BY <1>4 DEF Queue
  <2>2. QED
    BY <1>1, <1>4, <2>1
<1>5. ASSUME NEW S \in SUBSET (members \ {t}), S # {} PROVE \E u \in S : new[u] \cap S = {}
  <2>1. PICK u \in S : before[u] \cap S = {}
    BY <1>5 DEF Queue
  <2>2. QED
    BY <1>1, <2>1
<1>6. QED
  BY <1>3, <1>4, <1>5 DEF Queue, new

\* A task that moves waits for nobody: only others with a share are ahead of it.
LEMMA Unblocked ==
  ASSUME LocksInv, NEW t \in Tasks, ~Locks!Blocked(t), NEW l \in Locks!Locks, NEW u \in ahead[l][t]
  PROVE  l = Locks!Maintenance /\ Locks!Shared(t) /\ Locks!Shared(u)
<1>1. u \in Tasks /\ t \in inside[l]
  <2>1. ahead[l] \in [Tasks -> SUBSET Tasks]
    BY DEF LocksInv, Locks!LocksTypeOK
  <2>2. ahead[l][t] # {} /\ u \in Tasks
    BY <2>1
  <2>3. QED
    BY <2>2 DEF LocksInv, QueueInv, Queue
<1>2. ~Locks!WaitsAt(l, t, u)
  BY <1>1 DEF Locks!Blocked, Locks!WaitsFor
<1>3. QED
  BY <1>1, <1>2 DEF Locks!WaitsAt

\* What joining a lock changes.
Joined(t, l) ==
  /\ inside' \in [Locks!Locks -> SUBSET Tasks] /\ ahead' \in [Locks!Locks -> [Tasks -> SUBSET Tasks]]
  /\ QueueInv'
  /\ inside'[l] = inside[l] \cup {t} /\ ahead'[l][t] = inside[l]
  /\ \A k \in Locks!Locks \ {l} : inside'[k] = inside[k] /\ ahead'[k] = ahead[k]
  /\ \A u \in Tasks \ {t} : ahead'[l][u] = ahead[l][u]

LEMMA JoinFacts ==
  ASSUME LocksInv, NEW t \in Tasks, NEW l \in Locks!Locks, t \notin inside[l], Locks!Join(t, l)
  PROVE  Joined(t, l)
<1>1. /\ inside \in [Locks!Locks -> SUBSET Tasks] /\ ahead \in [Locks!Locks -> [Tasks -> SUBSET Tasks]]
      /\ inside[l] \in SUBSET Tasks /\ ahead[l] \in [Tasks -> SUBSET Tasks]
  BY DEF LocksInv, Locks!LocksTypeOK
<1>2. /\ inside' = [inside EXCEPT ![l] = inside[l] \cup {t}]
      /\ ahead' = [ahead EXCEPT ![l] = [ahead[l] EXCEPT ![t] = inside[l]]]
  BY DEF Locks!Join
<1>3. /\ inside' \in [Locks!Locks -> SUBSET Tasks] /\ ahead' \in [Locks!Locks -> [Tasks -> SUBSET Tasks]]
      /\ inside'[l] = inside[l] \cup {t} /\ ahead'[l] = [ahead[l] EXCEPT ![t] = inside[l]]
      /\ \A k \in Locks!Locks \ {l} : inside'[k] = inside[k] /\ ahead'[k] = ahead[k]
  BY ONLY <1>1, <1>2, t \in Tasks, l \in Locks!Locks, SMT
<1>4. ahead'[l][t] = inside[l] /\ \A u \in Tasks \ {t} : ahead'[l][u] = ahead[l][u]
  BY ONLY <1>1, <1>3, t \in Tasks, SMT
<1>5. Queue(inside[l], ahead[l]) /\ \A k \in Locks!Locks : Queue(inside[k], ahead[k])
  BY DEF LocksInv, QueueInv
<1>6. Queue(inside'[l], ahead'[l])
  <2>1. Queue(inside[l] \cup {t}, [ahead[l] EXCEPT ![t] = inside[l]])
    BY <1>1, <1>5, JoinQueue
  <2>2. QED
    BY ONLY <1>3, <2>1
<1>7. QueueInv'
  <2>1. ASSUME NEW k \in Locks!Locks PROVE Queue(inside'[k], ahead'[k])
    <3>1. CASE k = l
      BY <1>6, <3>1
    <3>2. CASE k # l
      BY <1>3, <1>5, <3>2
    <3>3. QED
      BY <3>1, <3>2
  <2>2. QED
    BY <2>1 DEF QueueInv
<1>8. QED
  BY <1>3, <1>4, <1>7 DEF Joined

\* What leaving some locks changes.
Left(t, S) ==
  /\ inside' \in [Locks!Locks -> SUBSET Tasks] /\ ahead' \in [Locks!Locks -> [Tasks -> SUBSET Tasks]]
  /\ QueueInv'
  /\ \A k \in S : inside'[k] = inside[k] \ {t} /\ ahead'[k][t] = {}
  /\ \A k \in S : \A u \in Tasks \ {t} : ahead'[k][u] = ahead[k][u] \ {t}
  /\ \A k \in Locks!Locks \ S : inside'[k] = inside[k] /\ ahead'[k] = ahead[k]

LEMMA LeaveFacts ==
  ASSUME LocksInv, NEW t \in Tasks, NEW S \in SUBSET Locks!Locks, Locks!Leave(t, S)
  PROVE  Left(t, S)
<1>1. /\ inside \in [Locks!Locks -> SUBSET Tasks] /\ ahead \in [Locks!Locks -> [Tasks -> SUBSET Tasks]]
  BY DEF LocksInv, Locks!LocksTypeOK
<1>2. /\ inside' = [l \in Locks!Locks |-> IF l \in S THEN inside[l] \ {t} ELSE inside[l]]
      /\ ahead' = [l \in Locks!Locks |-> IF l \in S
            THEN [u \in Tasks |-> IF u = t THEN {} ELSE ahead[l][u] \ {t}] ELSE ahead[l]]
  BY DEF Locks!Leave
<1>3. ASSUME NEW k \in S
      PROVE  /\ k \in Locks!Locks /\ inside'[k] = inside[k] \ {t}
             /\ ahead'[k] = [u \in Tasks |-> IF u = t THEN {} ELSE ahead[k][u] \ {t}]
  BY ONLY <1>2, S \in SUBSET Locks!Locks, k \in S
<1>4. ASSUME NEW k \in Locks!Locks \ S PROVE inside'[k] = inside[k] /\ ahead'[k] = ahead[k]
  BY ONLY <1>2, k \in Locks!Locks \ S
<1>5. ASSUME NEW k \in S
      PROVE  ahead'[k][t] = {} /\ \A u \in Tasks \ {t} : ahead'[k][u] = ahead[k][u] \ {t}
  BY ONLY <1>3, k \in S, t \in Tasks
<1>6. ASSUME NEW k \in Locks!Locks
      PROVE  /\ inside'[k] \in SUBSET Tasks /\ ahead'[k] \in [Tasks -> SUBSET Tasks]
             /\ Queue(inside'[k], ahead'[k])
  <2>1. /\ inside[k] \in SUBSET Tasks /\ ahead[k] \in [Tasks -> SUBSET Tasks]
        /\ Queue(inside[k], ahead[k])
    BY <1>1 DEF LocksInv, QueueInv
  <2>2. CASE k \in S
    <3>1. Queue(inside'[k], ahead'[k])
      <4>1. Queue(inside[k] \ {t}, [u \in Tasks |-> IF u = t THEN {} ELSE ahead[k][u] \ {t}])
        BY <2>1, LeaveQueue
      <4>2. QED
        BY ONLY <1>3, <2>2, <4>1
    <3>2. inside'[k] \in SUBSET Tasks /\ ahead'[k] \in [Tasks -> SUBSET Tasks]
      <4>1. inside'[k] \in SUBSET Tasks
        BY <1>3, <2>1, <2>2
      <4>2. \A u \in Tasks : (IF u = t THEN {} ELSE ahead[k][u] \ {t}) \in SUBSET Tasks
        BY <2>1
      <4>3. [u \in Tasks |-> IF u = t THEN {} ELSE ahead[k][u] \ {t}] \in [Tasks -> SUBSET Tasks]
        BY ONLY <4>2
      <4>4. QED
        BY ONLY <1>3, <2>2, <4>1, <4>3
    <3>3. QED
      BY <3>1, <3>2
  <2>3. CASE k \notin S
    BY <1>4, <2>1, <2>3
  <2>4. QED
    BY <2>2, <2>3
<1>7. inside' \in [Locks!Locks -> SUBSET Tasks] /\ ahead' \in [Locks!Locks -> [Tasks -> SUBSET Tasks]]
  <2>1. /\ inside' = [k \in Locks!Locks |-> inside'[k]]
        /\ ahead' = [k \in Locks!Locks |-> ahead'[k]]
    BY ONLY <1>2, SMT
  <2>2. QED
    BY ONLY <2>1, <1>6, SMT
<1>8. QED
  BY <1>3, <1>4, <1>5, <1>6, <1>7 DEF Left, QueueInv

\* A step of task t leaves the other tasks where they are.
Alone(t) ==
  /\ place' \in [Tasks -> Locks!Places] /\ stage' \in [Tasks -> Locks!Stages]
  /\ kind' \in [Tasks -> Locks!Kinds \cup {"none", "repair", "resume"}]
  /\ \A x \in Tasks \ {t} : place'[x] = place[x] /\ stage'[x] = stage[x] /\ kind'[x] = kind[x]

\* Nor does it move them in a queue, but for its own absence.
Untouched(t) ==
  /\ \A x \in Tasks \ {t} : \A l \in Locks!Locks :
       (x \in inside'[l] <=> x \in inside[l]) /\ ahead'[l][x] \subseteq ahead[l][x]
  /\ \A x \in Tasks \ {t} : place[x] \in Locks!InSession => OwnSession(x)' = OwnSession(x)
  /\ \A x \in Tasks \ {t} : stage[x] \in {"gate", "record"} => OwnCommand(x)' = OwnCommand(x)
  /\ t \in inside[Locks!Maintenance] /\ t \in inside'[Locks!Maintenance]
     => (Locks!Shared(t) => kind'[t] # "repair")

LEMMA OthersKeep ==
  ASSUME LocksInv, NEW t \in Tasks, Alone(t), Untouched(t), QueueInv'
  PROVE  \A x \in Tasks \ {t} : PlaceOf(x)' /\ GrantOf(x)'
<1> SUFFICES ASSUME NEW x \in Tasks \ {t} PROVE PlaceOf(x)' /\ GrantOf(x)'
  OBVIOUS
<1>1. PlaceOf(x) /\ GrantOf(x)
  BY DEF LocksInv
<1>2. /\ place'[x] = place[x] /\ stage'[x] = stage[x] /\ kind'[x] = kind[x]
      /\ \A l \in Locks!Locks :
           (x \in inside'[l] <=> x \in inside[l]) /\ ahead'[l][x] \subseteq ahead[l][x]
      /\ place[x] \in Locks!InSession => OwnSession(x)' = OwnSession(x)
      /\ stage[x] \in {"gate", "record"} => OwnCommand(x)' = OwnCommand(x)
  BY DEF Alone, Untouched
<1>3. /\ Locks!Maintenance \in Locks!Locks /\ Locks!CatalogLock \in Locks!Locks
      /\ Locks!SessionLocks \subseteq Locks!Locks /\ Locks!RunLocks \subseteq Locks!Locks
  BY LocksDiffer
<1>4. PlaceOf(x)'
  <2>1. /\ x \in inside'[Locks!Maintenance] <=> place'[x] \notin Locks!Outside
        /\ x \in inside'[Locks!CatalogLock] <=> place'[x] \in Locks!InCatalog
        /\ place'[x] = "idle" => stage'[x] = "none"
    BY <1>1, <1>2, <1>3 DEF PlaceOf
  <2>2. ASSUME NEW l \in Locks!SessionLocks
        PROVE  x \in inside'[l] <=> place'[x] \in Locks!InSession /\ l = OwnSession(x)'
    BY <1>1, <1>2, <1>3 DEF PlaceOf
  <2>3. ASSUME NEW l \in Locks!RunLocks
        PROVE  x \in inside'[l] <=> stage'[x] \in {"gate", "record"} /\ l = OwnCommand(x)'
    BY <1>1, <1>2, <1>3 DEF PlaceOf
  <2>4. QED
    BY <2>1, <2>2, <2>3 DEF PlaceOf
<1>5. ASSUME place[x] # "begin", NEW u \in ahead'[Locks!Maintenance][x]
      PROVE  kind'[x] # "repair" /\ kind'[u] # "repair"
  <2>1. u \in ahead[Locks!Maintenance][x] /\ kind[x] # "repair" /\ kind[u] # "repair"
    BY <1>1, <1>2, <1>3, <1>5 DEF GrantOf, Locks!Shared
  <2>2. u \in inside[Locks!Maintenance] /\ u \in inside'[Locks!Maintenance]
    BY <1>3, <1>5, <2>1 DEF LocksInv, QueueInv, Queue
  <2>3. CASE u = t
    BY <1>2, <2>1, <2>2, <2>3 DEF Untouched, Locks!Shared
  <2>4. CASE u # t
    <3>1. u \in Tasks
      BY <1>3, <2>2 DEF LocksInv, Locks!LocksTypeOK
    <3>2. QED
      BY <1>2, <2>1, <2>4, <3>1 DEF Alone
  <2>5. QED
    BY <2>3, <2>4
<1>6. /\ place[x] # "session" => \A l \in Locks!SessionLocks : ahead'[l][x] = {}
      /\ place[x] # "paused" => \A l \in Locks!RunLocks : ahead'[l][x] = {}
  BY <1>1, <1>2, <1>3 DEF GrantOf
<1>7. GrantOf(x)'
  BY <1>2, <1>5, <1>6 DEF GrantOf, Locks!Shared
<1>8. QED
  BY <1>4, <1>7

\* A step is sound when it is for the task that takes it.
LEMMA Steps ==
  ASSUME LocksInv, NEW t \in Tasks, Alone(t), Untouched(t), QueueInv',
         current' \in [Locks!Names -> Copies],
         inside' \in [Locks!Locks -> SUBSET Tasks],
         ahead' \in [Locks!Locks -> [Tasks -> SUBSET Tasks]],
         PlaceOf(t)', GrantOf(t)'
  PROVE  LocksInv'
<1>1. \A x \in Tasks : PlaceOf(x)' /\ GrantOf(x)'
  BY OthersKeep
<1>2. Locks!LocksTypeOK'
  BY DEF Alone, Locks!LocksTypeOK
<1>3. QED
  BY <1>1, <1>2 DEF LocksInv

\* A task that waits for nobody owns the locks it has asked for, as long as it asks for no other.
LEMMA Owning ==
  ASSUME LocksInv, NEW t \in Tasks, ~Locks!Blocked(t),
         NEW l \in Locks!SessionLocks \cup Locks!RunLocks
  PROVE  ahead[l][t] = {}
<1>1. l \in Locks!Locks /\ l # Locks!Maintenance
  BY LocksDiffer
<1>2. QED
  BY <1>1, Unblocked

\* A task that is alone in a step changes its own locks only.
LEMMA JoinUntouched ==
  ASSUME LocksInv, NEW t \in Tasks, NEW l \in Locks!Locks, Joined(t, l), UNCHANGED current,
         t \in inside[Locks!Maintenance] => (Locks!Shared(t) => kind'[t] # "repair")
  PROVE  Untouched(t)
<1>1. ASSUME NEW x \in Tasks \ {t}, NEW k \in Locks!Locks
      PROVE  (x \in inside'[k] <=> x \in inside[k]) /\ ahead'[k][x] \subseteq ahead[k][x]
  <2>1. CASE k = l
    BY <2>1 DEF Joined
  <2>2. CASE k # l
    BY <2>2 DEF Joined
  <2>3. QED
    BY <2>1, <2>2
<1>2. ASSUME NEW x \in Tasks PROVE OwnSession(x)' = OwnSession(x) /\ OwnCommand(x)' = OwnCommand(x)
  BY DEF OwnSession, OwnCommand, SessionName, CommandName
<1>3. QED
  BY <1>1, <1>2 DEF Untouched

LEMMA LeaveUntouched ==
  ASSUME LocksInv, NEW t \in Tasks, NEW S \in SUBSET Locks!Locks, Left(t, S), UNCHANGED current,
         Locks!Maintenance \notin S => (Locks!Shared(t) => kind'[t] # "repair")
  PROVE  Untouched(t)
<1>1. ASSUME NEW x \in Tasks \ {t}, NEW k \in Locks!Locks
      PROVE  (x \in inside'[k] <=> x \in inside[k]) /\ ahead'[k][x] \subseteq ahead[k][x]
  <2>1. CASE k \in S
    BY <2>1 DEF Left
  <2>2. CASE k \notin S
    BY <2>2 DEF Left
  <2>3. QED
    BY <2>1, <2>2
<1>2. ASSUME NEW x \in Tasks PROVE OwnSession(x)' = OwnSession(x) /\ OwnCommand(x)' = OwnCommand(x)
  BY DEF OwnSession, OwnCommand, SessionName, CommandName
<1>3. Locks!Maintenance \in S => t \notin inside'[Locks!Maintenance]
  BY DEF Left
<1>4. QED
  BY <1>1, <1>2, <1>3 DEF Untouched

\* A step that leaves the locks S.
LEMMA LeavingStep ==
  ASSUME LocksInv, NEW t \in Tasks, NEW S \in SUBSET Locks!Locks, Locks!Leave(t, S),
         Alone(t), UNCHANGED current, GrantOf(t)',
         Locks!Maintenance \notin S => (Locks!Shared(t) => kind'[t] # "repair"),
         place'[t] \notin Locks!Outside <=> place[t] \notin Locks!Outside /\ Locks!Maintenance \notin S,
         place'[t] \in Locks!InCatalog <=> place[t] \in Locks!InCatalog /\ Locks!CatalogLock \notin S,
         \/ Locks!SessionLocks \subseteq S /\ place'[t] \notin Locks!InSession
         \/ /\ Locks!SessionLocks \cap S = {}
            /\ place'[t] \in Locks!InSession <=> place[t] \in Locks!InSession,
         \/ Locks!RunLocks \subseteq S /\ stage'[t] \notin {"gate", "record"}
         \/ Locks!RunLocks \cap S = {} /\ stage'[t] = stage[t],
         place'[t] = "idle" => stage'[t] = "none"
  PROVE  LocksInv'
<1>1. Left(t, S)
  BY LeaveFacts
<1>2. Untouched(t)
  BY <1>1, LeaveUntouched
<1>3. PlaceOf(t) /\ OwnSession(t)' = OwnSession(t) /\ OwnCommand(t)' = OwnCommand(t)
  BY DEF LocksInv, OwnSession, OwnCommand, SessionName, CommandName
<1>4. ASSUME NEW k \in Locks!Locks PROVE t \in inside'[k] <=> t \in inside[k] /\ k \notin S
  <2>1. CASE k \in S
    BY <1>1, <2>1 DEF Left
  <2>2. CASE k \notin S
    BY <1>1, <2>2 DEF Left
  <2>3. QED
    BY <2>1, <2>2
<1>5. /\ Locks!Maintenance \in Locks!Locks /\ Locks!CatalogLock \in Locks!Locks
      /\ Locks!SessionLocks \subseteq Locks!Locks /\ Locks!RunLocks \subseteq Locks!Locks
  BY LocksDiffer
<1>6. PlaceOf(t)'
  <2>1. /\ t \in inside'[Locks!Maintenance] <=> place'[t] \notin Locks!Outside
        /\ t \in inside'[Locks!CatalogLock] <=> place'[t] \in Locks!InCatalog
    BY <1>3, <1>4, <1>5 DEF PlaceOf
  <2>2. ASSUME NEW l \in Locks!SessionLocks
        PROVE  t \in inside'[l] <=> place'[t] \in Locks!InSession /\ l = OwnSession(t)'
    BY <1>3, <1>4, <1>5 DEF PlaceOf
  <2>3. ASSUME NEW l \in Locks!RunLocks
        PROVE  t \in inside'[l] <=> stage'[t] \in {"gate", "record"} /\ l = OwnCommand(t)'
    BY <1>3, <1>4, <1>5 DEF PlaceOf
  <2>4. QED
    BY <2>1, <2>2, <2>3 DEF PlaceOf
<1>7. current' \in [Locks!Names -> Copies]
  BY DEF LocksInv, Locks!LocksTypeOK
<1>8. QED
  BY <1>1, <1>2, <1>6, <1>7, Steps DEF Left

\* A task that moves keeps what it owns when it leaves other locks.
LEMMA LeaveGrants ==
  ASSUME LocksInv, NEW t \in Tasks, NEW S \in SUBSET Locks!Locks, Left(t, S), Alone(t),
         ~Locks!Blocked(t), Locks!Maintenance \notin S => (Locks!Shared(t) => kind'[t] # "repair")
  PROVE  GrantOf(t)'
<1>1. ASSUME NEW l \in Locks!SessionLocks \cup Locks!RunLocks PROVE ahead'[l][t] = {}
  <2>1. l \in Locks!Locks /\ ahead[l][t] = {}
    BY LocksDiffer, Owning
  <2>2. CASE l \in S
    BY <2>2 DEF Left
  <2>3. CASE l \notin S
    BY <2>1, <2>3 DEF Left
  <2>4. QED
    BY <2>2, <2>3
<1>2. ASSUME NEW u \in ahead'[Locks!Maintenance][t] PROVE kind'[t] # "repair" /\ kind'[u] # "repair"
  <2>1. Locks!Maintenance \in Locks!Locks
    BY LocksDiffer
  <2>2. Locks!Maintenance \notin S /\ u \in ahead[Locks!Maintenance][t]
    BY <1>2, <2>1 DEF Left
  <2>3. Locks!Shared(t) /\ Locks!Shared(u)
    BY <2>1, <2>2, Unblocked
  <2>4. u \in Tasks
    <3>1. ahead[Locks!Maintenance] \in [Tasks -> SUBSET Tasks]
      BY <2>1 DEF LocksInv, Locks!LocksTypeOK
    <3>2. QED
      BY <2>2, <3>1
  <2>5. CASE u = t
    BY <2>2, <2>3, <2>5
  <2>6. CASE u # t
    BY <2>2, <2>3, <2>4, <2>6 DEF Alone, Locks!Shared
  <2>7. QED
    BY <2>5, <2>6
<1>3. QED
  BY <1>1, <1>2 DEF GrantOf, Locks!Shared

\* A task asks for the catalog.
LEMMA CatalogStep ==
  ASSUME LocksInv, NEW t \in Tasks, ~Locks!Blocked(t), Locks!Join(t, Locks!CatalogLock),
         Alone(t), UNCHANGED current, stage'[t] = stage[t], Locks!Shared(t) => kind'[t] # "repair",
         place[t] \notin Locks!InCatalog, place'[t] \in Locks!InCatalog,
         place[t] \notin Locks!Outside, place'[t] \notin Locks!Outside,
         place'[t] \in Locks!InSession <=> place[t] \in Locks!InSession
  PROVE  LocksInv'
<1>1. /\ Locks!Maintenance \in Locks!Locks /\ Locks!CatalogLock \in Locks!Locks
      /\ Locks!SessionLocks \subseteq Locks!Locks \ {Locks!CatalogLock}
      /\ Locks!RunLocks \subseteq Locks!Locks \ {Locks!CatalogLock}
      /\ Locks!Maintenance # Locks!CatalogLock
  BY LocksDiffer
<1>2. PlaceOf(t) /\ OwnSession(t)' = OwnSession(t) /\ OwnCommand(t)' = OwnCommand(t)
  BY DEF LocksInv, OwnSession, OwnCommand, SessionName, CommandName
<1>3. Joined(t, Locks!CatalogLock)
  BY <1>1, <1>2, JoinFacts DEF PlaceOf
<1>4. Untouched(t)
  BY <1>1, <1>3, JoinUntouched
<1>5. ASSUME NEW k \in Locks!Locks \ {Locks!CatalogLock}
      PROVE  inside'[k] = inside[k] /\ ahead'[k] = ahead[k]
  BY <1>3 DEF Joined
<1>6. PlaceOf(t)'
  <2>1. /\ t \in inside'[Locks!Maintenance] <=> place'[t] \notin Locks!Outside
        /\ t \in inside'[Locks!CatalogLock] <=> place'[t] \in Locks!InCatalog
    BY <1>1, <1>2, <1>3, <1>5 DEF PlaceOf, Joined
  <2>2. ASSUME NEW l \in Locks!SessionLocks
        PROVE  t \in inside'[l] <=> place'[t] \in Locks!InSession /\ l = OwnSession(t)'
    BY <1>1, <1>2, <1>5 DEF PlaceOf
  <2>3. ASSUME NEW l \in Locks!RunLocks
        PROVE  t \in inside'[l] <=> stage'[t] \in {"gate", "record"} /\ l = OwnCommand(t)'
    BY <1>1, <1>2, <1>5 DEF PlaceOf
  <2>4. place'[t] # "idle"
    BY DEF Locks!Outside
  <2>5. QED
    BY <2>1, <2>2, <2>3, <2>4 DEF PlaceOf
<1>7. GrantOf(t)'
  <2>1. ASSUME NEW l \in Locks!SessionLocks \cup Locks!RunLocks PROVE ahead'[l][t] = {}
    BY <1>1, <1>5, Owning
  <2>2. ASSUME NEW u \in ahead'[Locks!Maintenance][t] PROVE kind'[t] # "repair" /\ kind'[u] # "repair"
    <3>1. u \in ahead[Locks!Maintenance][t]
      BY <1>1, <1>5, <2>2
    <3>2. Locks!Shared(t) /\ Locks!Shared(u)
      BY <1>1, <3>1, Unblocked
    <3>3. ahead[Locks!Maintenance] \in [Tasks -> SUBSET Tasks]
      BY <1>1 DEF LocksInv, Locks!LocksTypeOK
    <3>4. QED
      BY <3>1, <3>2, <3>3 DEF Alone, Locks!Shared
  <2>3. QED
    BY <2>1, <2>2 DEF GrantOf, Locks!Shared
<1>8. current' \in [Locks!Names -> Copies]
  BY DEF LocksInv, Locks!LocksTypeOK
<1>9. QED
  BY <1>3, <1>4, <1>6, <1>7, <1>8, Steps DEF Joined

\* A task begins an operation.
LEMMA OperationStep ==
  ASSUME LocksInv, NEW t \in Tasks, ~Locks!Blocked(t), Locks!Join(t, Locks!Maintenance),
         Alone(t), UNCHANGED current, place[t] \in Locks!Outside, place'[t] = "begin",
         stage'[t] \in {"gate", "record"} <=> stage[t] \in {"gate", "record"}
  PROVE  LocksInv'
<1>1. /\ Locks!Maintenance \in Locks!Locks
      /\ Locks!CatalogLock \in Locks!Locks \ {Locks!Maintenance}
      /\ Locks!SessionLocks \subseteq Locks!Locks \ {Locks!Maintenance}
      /\ Locks!RunLocks \subseteq Locks!Locks \ {Locks!Maintenance}
  BY LocksDiffer
<1>2. PlaceOf(t) /\ OwnSession(t)' = OwnSession(t) /\ OwnCommand(t)' = OwnCommand(t)
  BY DEF LocksInv, OwnSession, OwnCommand, SessionName, CommandName
<1>3. t \notin inside[Locks!Maintenance]
  BY <1>2 DEF PlaceOf
<1>4. Joined(t, Locks!Maintenance) /\ Untouched(t)
  BY <1>1, <1>3, JoinFacts, JoinUntouched
<1>5. ASSUME NEW k \in Locks!Locks \ {Locks!Maintenance}
      PROVE  inside'[k] = inside[k] /\ ahead'[k] = ahead[k]
  BY <1>4 DEF Joined
<1>6. /\ place[t] \notin Locks!InCatalog \cup Locks!InSession
      /\ "begin" \notin Locks!InCatalog \cup Locks!InSession \cup Locks!Outside
  BY DEF Locks!InCatalog, Locks!InSession, Locks!Outside
<1>7. PlaceOf(t)'
  <2>1. /\ t \in inside'[Locks!Maintenance] <=> place'[t] \notin Locks!Outside
        /\ t \in inside'[Locks!CatalogLock] <=> place'[t] \in Locks!InCatalog
    BY <1>1, <1>2, <1>4, <1>5, <1>6 DEF PlaceOf, Joined
  <2>2. ASSUME NEW l \in Locks!SessionLocks
        PROVE  t \in inside'[l] <=> place'[t] \in Locks!InSession /\ l = OwnSession(t)'
    BY <1>1, <1>2, <1>5, <1>6 DEF PlaceOf
  <2>3. ASSUME NEW l \in Locks!RunLocks
        PROVE  t \in inside'[l] <=> stage'[t] \in {"gate", "record"} /\ l = OwnCommand(t)'
    BY <1>1, <1>2, <1>5 DEF PlaceOf
  <2>4. QED
    BY <2>1, <2>2, <2>3 DEF PlaceOf
<1>8. GrantOf(t)'
  <2>1. ASSUME NEW l \in Locks!SessionLocks \cup Locks!RunLocks PROVE ahead'[l][t] = {}
    BY <1>1, <1>5, Owning
  <2>2. QED
    BY <2>1 DEF GrantOf
<1>9. current' \in [Locks!Names -> Copies]
  BY DEF LocksInv, Locks!LocksTypeOK
<1>10. QED
  BY <1>4, <1>7, <1>8, <1>9, Steps DEF Joined

\* The lock of a session is looked up: it changes only when nobody refers to it.
LEMMA SessionLookup ==
  ASSUME LocksInv, Clients, NEW t \in Tasks, NEW i \in Copies, Locks!lookup("session", SessionOf[t], i)
  PROVE  /\ current' \in [Locks!Names -> Copies]
         /\ OwnSession(t)' = <<"session", SessionOf[t], i>> /\ OwnSession(t)' \in Locks!SessionLocks
         /\ \A x \in Tasks : place[x] \in Locks!InSession => OwnSession(x)' = OwnSession(x)
         /\ \A x \in Tasks : OwnCommand(x)' = OwnCommand(x)
<1>1. /\ current \in [Locks!Names -> Copies] /\ SessionName(t) \in Locks!Names
      /\ current' = [current EXCEPT ![SessionName(t)] = i]
      /\ <<"session", SessionOf[t], i>> \in Locks!SessionLocks
  BY SMT DEF LocksInv, Locks!LocksTypeOK, Clients, SessionName, Locks!Names, Locks!SessionLocks, Locks!lookup
<1>2. current' \in [Locks!Names -> Copies] /\ current'[SessionName(t)] = i
  BY <1>1
<1>3. ASSUME NEW x \in Tasks, place[x] \in Locks!InSession PROVE OwnSession(x)' = OwnSession(x)
  <2>1. SessionName(x) \in Locks!Names /\ OwnSession(x) \in Locks!SessionLocks
    BY <1>1, SMT DEF Clients, SessionName, OwnSession, Locks!Names, Locks!SessionLocks
  <2>2. CASE SessionOf[x] = SessionOf[t]
    <3>1. SessionName(x) = SessionName(t) /\ OwnSession(x) = <<"session", SessionOf[t], current[SessionName(t)]>>
      BY ONLY <2>2 DEF SessionName, OwnSession
    <3>2. x \in inside[OwnSession(x)]
      BY <1>3, <2>1 DEF LocksInv, PlaceOf
    <3>3. i = current[SessionName(t)]
      <4>1. inside[<<"session", SessionOf[t], current[SessionName(t)]>>] # {}
        BY <3>1, <3>2
      <4>2. QED
        BY <4>1 DEF Locks!lookup, Locks!Referred, SessionName
    <3>4. current'[SessionName(x)] = current[SessionName(x)]
      BY <1>2, <3>1, <3>3
    <3>5. QED
      BY ONLY <3>4 DEF OwnSession, SessionName
  <2>3. CASE SessionOf[x] # SessionOf[t]
    <3>1. SessionName(x) # SessionName(t)
      BY <2>3, SMT DEF SessionName
    <3>2. current'[SessionName(x)] = current[SessionName(x)]
      BY <1>1, <2>1, <3>1
    <3>3. QED
      BY ONLY <3>2 DEF OwnSession, SessionName
  <2>4. QED
    BY <2>2, <2>3
<1>4. ASSUME NEW x \in Tasks PROVE OwnCommand(x)' = OwnCommand(x)
  <2>1. CommandName(x) \in Locks!Names /\ CommandName(x) # SessionName(t)
    BY SMT DEF Clients, CommandName, SessionName, Locks!Names
  <2>2. current'[CommandName(x)] = current[CommandName(x)]
    BY <1>1, <2>1
  <2>3. QED
    BY ONLY <2>2 DEF OwnCommand, CommandName
<1>5. OwnSession(t)' = <<"session", SessionOf[t], i>>
  BY <1>2 DEF OwnSession, SessionName
<1>6. QED
  BY <1>1, <1>2, <1>3, <1>4, <1>5

\* And the lock of a command.
LEMMA CommandLookup ==
  ASSUME LocksInv, Clients, NEW t \in Tasks, NEW i \in Copies, Locks!lookup("run", CommandOf[t], i)
  PROVE  /\ current' \in [Locks!Names -> Copies]
         /\ OwnCommand(t)' = <<"run", CommandOf[t], i>> /\ OwnCommand(t)' \in Locks!RunLocks
         /\ \A x \in Tasks : stage[x] \in {"gate", "record"} => OwnCommand(x)' = OwnCommand(x)
         /\ \A x \in Tasks : OwnSession(x)' = OwnSession(x)
<1>1. /\ current \in [Locks!Names -> Copies] /\ CommandName(t) \in Locks!Names
      /\ current' = [current EXCEPT ![CommandName(t)] = i]
      /\ <<"run", CommandOf[t], i>> \in Locks!RunLocks
  BY SMT DEF LocksInv, Locks!LocksTypeOK, Clients, CommandName, Locks!Names, Locks!RunLocks, Locks!lookup
<1>2. current' \in [Locks!Names -> Copies] /\ current'[CommandName(t)] = i
  BY <1>1
<1>3. ASSUME NEW x \in Tasks, stage[x] \in {"gate", "record"} PROVE OwnCommand(x)' = OwnCommand(x)
  <2>1. CommandName(x) \in Locks!Names /\ OwnCommand(x) \in Locks!RunLocks
    BY <1>1, SMT DEF Clients, CommandName, OwnCommand, Locks!Names, Locks!RunLocks
  <2>2. CASE CommandOf[x] = CommandOf[t]
    <3>1. CommandName(x) = CommandName(t) /\ OwnCommand(x) = <<"run", CommandOf[t], current[CommandName(t)]>>
      BY ONLY <2>2 DEF CommandName, OwnCommand
    <3>2. x \in inside[OwnCommand(x)]
      BY <1>3, <2>1 DEF LocksInv, PlaceOf
    <3>3. i = current[CommandName(t)]
      <4>1. inside[<<"run", CommandOf[t], current[CommandName(t)]>>] # {}
        BY <3>1, <3>2
      <4>2. QED
        BY <4>1 DEF Locks!lookup, Locks!Referred, CommandName
    <3>4. current'[CommandName(x)] = current[CommandName(x)]
      BY <1>2, <3>1, <3>3
    <3>5. QED
      BY ONLY <3>4 DEF OwnCommand, CommandName
  <2>3. CASE CommandOf[x] # CommandOf[t]
    <3>1. CommandName(x) # CommandName(t)
      BY <2>3, SMT DEF CommandName
    <3>2. current'[CommandName(x)] = current[CommandName(x)]
      BY <1>1, <2>1, <3>1
    <3>3. QED
      BY ONLY <3>2 DEF OwnCommand, CommandName
  <2>4. QED
    BY <2>2, <2>3
<1>4. ASSUME NEW x \in Tasks PROVE OwnSession(x)' = OwnSession(x)
  <2>1. SessionName(x) \in Locks!Names /\ SessionName(x) # CommandName(t)
    BY SMT DEF Clients, SessionName, CommandName, Locks!Names
  <2>2. current'[SessionName(x)] = current[SessionName(x)]
    BY <1>1, <2>1
  <2>3. QED
    BY ONLY <2>2 DEF OwnSession, SessionName
<1>5. OwnCommand(t)' = <<"run", CommandOf[t], i>>
  BY <1>2 DEF OwnCommand, CommandName
<1>6. QED
  BY <1>1, <1>2, <1>3, <1>4, <1>5

\* A task asks for the lock of its session, in an operation that has none.
LEMMA SessionStep ==
  ASSUME LocksInv, Clients, NEW t \in Tasks, ~Locks!Blocked(t), NEW i \in Copies,
         Locks!lookup("session", SessionOf[t], i), Locks!Join(t, <<"session", SessionOf[t], i>>),
         Alone(t), stage'[t] = stage[t], Locks!Shared(t) => kind'[t] # "repair",
         place[t] \in {"begin", "between"}, place'[t] = "session"
  PROVE  LocksInv'
<1> DEFINE l == <<"session", SessionOf[t], i>>
<1>1. /\ current' \in [Locks!Names -> Copies]
      /\ OwnSession(t)' = l /\ l \in Locks!SessionLocks
      /\ \A x \in Tasks : place[x] \in Locks!InSession => OwnSession(x)' = OwnSession(x)
      /\ \A x \in Tasks : OwnCommand(x)' = OwnCommand(x)
  BY SessionLookup
<1>a. Locks!Join(t, l)
  OBVIOUS
<1> HIDE DEF l
<1>2. /\ Locks!Maintenance \in Locks!Locks \ {l} /\ Locks!CatalogLock \in Locks!Locks \ {l}
      /\ Locks!SessionLocks \subseteq Locks!Locks /\ Locks!RunLocks \subseteq Locks!Locks \ {l}
  BY <1>1, LocksDiffer
<1>3. /\ place[t] \notin Locks!InCatalog \cup Locks!InSession \cup Locks!Outside
      /\ "session" \in Locks!InSession /\ "session" \notin Locks!InCatalog \cup Locks!Outside
  BY DEF Locks!InCatalog, Locks!InSession, Locks!Outside
<1>4. PlaceOf(t)
  BY DEF LocksInv
<1>5. \A k \in Locks!SessionLocks : t \notin inside[k]
  BY <1>3, <1>4 DEF PlaceOf
<1>6. Joined(t, l)
  BY <1>1, <1>2, <1>5, <1>a, JoinFacts
<1>7. ASSUME NEW k \in Locks!Locks \ {l} PROVE inside'[k] = inside[k] /\ ahead'[k] = ahead[k]
  BY <1>6 DEF Joined
<1>8. Untouched(t)
  <2>1. ASSUME NEW x \in Tasks \ {t}, NEW k \in Locks!Locks
        PROVE  (x \in inside'[k] <=> x \in inside[k]) /\ ahead'[k][x] \subseteq ahead[k][x]
    <3>1. CASE k = l
      BY <1>6, <3>1 DEF Joined
    <3>2. CASE k # l
      BY <1>7, <3>2
    <3>3. QED
      BY <3>1, <3>2
  <2>2. QED
    BY <1>1, <2>1 DEF Untouched
<1>9. PlaceOf(t)'
  <2>1. /\ t \in inside'[Locks!Maintenance] <=> place'[t] \notin Locks!Outside
        /\ t \in inside'[Locks!CatalogLock] <=> place'[t] \in Locks!InCatalog
    BY <1>2, <1>3, <1>4, <1>7 DEF PlaceOf
  <2>2. ASSUME NEW k \in Locks!SessionLocks
        PROVE  t \in inside'[k] <=> place'[t] \in Locks!InSession /\ k = OwnSession(t)'
    <3>1. CASE k = l
      BY <1>1, <1>3, <1>6, <3>1 DEF Joined
    <3>2. CASE k # l
      BY <1>1, <1>2, <1>5, <1>7, <3>2
    <3>3. QED
      BY <3>1, <3>2
  <2>3. ASSUME NEW k \in Locks!RunLocks
        PROVE  t \in inside'[k] <=> stage'[t] \in {"gate", "record"} /\ k = OwnCommand(t)'
    BY <1>1, <1>2, <1>4, <1>7 DEF PlaceOf
  <2>4. QED
    BY <2>1, <2>2, <2>3 DEF PlaceOf
<1>10. GrantOf(t)'
  <2>1. ASSUME NEW k \in Locks!RunLocks PROVE ahead'[k][t] = {}
    BY <1>2, <1>7, Owning
  <2>2. ASSUME NEW u \in ahead'[Locks!Maintenance][t] PROVE kind'[t] # "repair" /\ kind'[u] # "repair"
    <3>1. u \in ahead[Locks!Maintenance][t]
      BY <1>2, <1>7, <2>2
    <3>2. Locks!Shared(t) /\ Locks!Shared(u)
      BY <1>2, <3>1, Unblocked
    <3>3. ahead[Locks!Maintenance] \in [Tasks -> SUBSET Tasks]
      BY <1>2 DEF LocksInv, Locks!LocksTypeOK
    <3>4. QED
      BY <3>1, <3>2, <3>3 DEF Alone, Locks!Shared
  <2>3. QED
    BY <2>1, <2>2 DEF GrantOf, Locks!Shared
<1>11. QED
  BY <1>1, <1>6, <1>8, <1>9, <1>10, Steps DEF Joined

\* A task between its operations asks for the lock of its command.
LEMMA CommandStep ==
  ASSUME LocksInv, Clients, NEW t \in Tasks, ~Locks!Blocked(t), NEW i \in Copies,
         Locks!lookup("run", CommandOf[t], i), Locks!Join(t, <<"run", CommandOf[t], i>>),
         Alone(t), stage[t] \notin {"gate", "record"}, stage'[t] = "gate", kind'[t] = kind[t],
         place[t] \in Locks!Outside, place'[t] = "paused"
  PROVE  LocksInv'
<1> DEFINE l == <<"run", CommandOf[t], i>>
<1>1. /\ current' \in [Locks!Names -> Copies]
      /\ OwnCommand(t)' = l /\ l \in Locks!RunLocks
      /\ \A x \in Tasks : stage[x] \in {"gate", "record"} => OwnCommand(x)' = OwnCommand(x)
      /\ \A x \in Tasks : OwnSession(x)' = OwnSession(x)
  BY CommandLookup
<1>a. Locks!Join(t, l)
  OBVIOUS
<1> HIDE DEF l
<1>2. /\ Locks!Maintenance \in Locks!Locks \ {l} /\ Locks!CatalogLock \in Locks!Locks \ {l}
      /\ Locks!RunLocks \subseteq Locks!Locks /\ Locks!SessionLocks \subseteq Locks!Locks \ {l}
  BY <1>1, LocksDiffer
<1>3. /\ "paused" \in Locks!Outside
      /\ place[t] \notin Locks!InCatalog \cup Locks!InSession
      /\ "paused" \notin Locks!InCatalog \cup Locks!InSession
  BY DEF Locks!Outside, Locks!InCatalog, Locks!InSession
<1>4. PlaceOf(t)
  BY DEF LocksInv
<1>5. \A k \in Locks!RunLocks : t \notin inside[k]
  BY <1>4 DEF PlaceOf
<1>6. Joined(t, l)
  BY <1>1, <1>2, <1>5, <1>a, JoinFacts
<1>7. ASSUME NEW k \in Locks!Locks \ {l} PROVE inside'[k] = inside[k] /\ ahead'[k] = ahead[k]
  BY <1>6 DEF Joined
<1>8. Untouched(t)
  <2>1. ASSUME NEW x \in Tasks \ {t}, NEW k \in Locks!Locks
        PROVE  (x \in inside'[k] <=> x \in inside[k]) /\ ahead'[k][x] \subseteq ahead[k][x]
    <3>1. CASE k = l
      BY <1>6, <3>1 DEF Joined
    <3>2. CASE k # l
      BY <1>7, <3>2
    <3>3. QED
      BY <3>1, <3>2
  <2>2. QED
    BY <1>1, <2>1 DEF Untouched, Locks!Shared
<1>9. PlaceOf(t)'
  <2>1. /\ t \in inside'[Locks!Maintenance] <=> place'[t] \notin Locks!Outside
        /\ t \in inside'[Locks!CatalogLock] <=> place'[t] \in Locks!InCatalog
    BY <1>2, <1>3, <1>4, <1>7 DEF PlaceOf
  <2>2. ASSUME NEW k \in Locks!SessionLocks
        PROVE  t \in inside'[k] <=> place'[t] \in Locks!InSession /\ k = OwnSession(t)'
    BY <1>1, <1>2, <1>3, <1>4, <1>7 DEF PlaceOf
  <2>3. ASSUME NEW k \in Locks!RunLocks
        PROVE  t \in inside'[k] <=> stage'[t] \in {"gate", "record"} /\ k = OwnCommand(t)'
    <3>1. CASE k = l
      BY <1>1, <1>6, <3>1 DEF Joined
    <3>2. CASE k # l
      BY <1>1, <1>2, <1>5, <1>7, <3>2
    <3>3. QED
      BY <3>1, <3>2
  <2>4. QED
    BY <2>1, <2>2, <2>3 DEF PlaceOf
<1>10. GrantOf(t)'
  <2>1. ASSUME NEW k \in Locks!SessionLocks PROVE ahead'[k][t] = {}
    BY <1>2, <1>7, Owning
  <2>2. ahead'[Locks!Maintenance][t] = {}
    <3>1. t \notin inside[Locks!Maintenance]
      BY <1>4 DEF PlaceOf
    <3>2. QED
      BY <1>2, <1>7, <3>1 DEF LocksInv, QueueInv, Queue
  <2>3. QED
    BY <2>1, <2>2 DEF GrantOf
<1>11. QED
  BY <1>1, <1>6, <1>8, <1>9, <1>10, Steps DEF Joined

\* What a step changes of its task.
LEMMA AloneFacts ==
  ASSUME LocksInv, NEW t \in Tasks, NEW p \in Locks!Places, place' = [place EXCEPT ![t] = p],
         NEW k \in Locks!Kinds \cup {"none", "repair", "resume"},
         kind' = [kind EXCEPT ![t] = k] \/ (UNCHANGED kind /\ k = kind[t]),
         NEW s \in Locks!Stages, stage' = [stage EXCEPT ![t] = s] \/ (UNCHANGED stage /\ s = stage[t])
  PROVE  Alone(t) /\ place'[t] = p /\ kind'[t] = k /\ stage'[t] = s
<1>1. /\ place \in [Tasks -> Locks!Places] /\ stage \in [Tasks -> Locks!Stages]
      /\ kind \in [Tasks -> Locks!Kinds \cup {"none", "repair", "resume"}]
  BY DEF LocksInv, Locks!LocksTypeOK
<1>2. /\ place' \in [Tasks -> Locks!Places] /\ place'[t] = p
      /\ \A x \in Tasks \ {t} : place'[x] = place[x]
  BY ONLY <1>1, t \in Tasks, p \in Locks!Places, place' = [place EXCEPT ![t] = p]
<1>3. /\ kind' \in [Tasks -> Locks!Kinds \cup {"none", "repair", "resume"}] /\ kind'[t] = k
      /\ \A x \in Tasks \ {t} : kind'[x] = kind[x]
  BY ONLY <1>1, t \in Tasks, k \in Locks!Kinds \cup {"none", "repair", "resume"},
     kind' = [kind EXCEPT ![t] = k] \/ (UNCHANGED kind /\ k = kind[t])
<1>4. /\ stage' \in [Tasks -> Locks!Stages] /\ stage'[t] = s
      /\ \A x \in Tasks \ {t} : stage'[x] = stage[x]
  BY ONLY <1>1, t \in Tasks, s \in Locks!Stages,
     stage' = [stage EXCEPT ![t] = s] \/ (UNCHANGED stage /\ s = stage[t])
<1>5. QED
  BY <1>2, <1>3, <1>4 DEF Alone

LEMMA TaskTypes ==
  ASSUME LocksInv, NEW t \in Tasks
  PROVE  /\ place[t] \in Locks!Places /\ stage[t] \in Locks!Stages
         /\ kind[t] \in Locks!Kinds \cup {"none", "repair", "resume"}
BY DEF LocksInv, Locks!LocksTypeOK

\* The steps that begin an operation.
LEMMA BeginStep ==
  ASSUME LocksInv, NEW t \in Tasks, NEW from \in Locks!Outside,
         NEW k \in Locks!Kinds \cup {"repair"}, Locks!Operation(t, from, k),
         NEW s \in Locks!Stages, stage' = [stage EXCEPT ![t] = s] \/ (UNCHANGED stage /\ s = stage[t]),
         s \in {"gate", "record"} <=> stage[t] \in {"gate", "record"}
  PROVE  LocksInv'
<1>1. /\ place[t] = from /\ ~Locks!Blocked(t) /\ place' = [place EXCEPT ![t] = "begin"]
      /\ kind' = [kind EXCEPT ![t] = k] /\ Locks!Join(t, Locks!Maintenance) /\ UNCHANGED current
  BY DEF Locks!Operation, Locks!Moves
<1>2. "begin" \in Locks!Places
  BY DEF Locks!Places
<1>3. Alone(t) /\ place'[t] = "begin" /\ stage'[t] = s
  <2>1. k \in Locks!Kinds \cup {"none", "repair", "resume"}
    OBVIOUS
  <2>2. QED
    BY <1>1, <1>2, <2>1, AloneFacts
<1>4. QED
  BY <1>1, <1>3, OperationStep

\* The steps to the catalog.
LEMMA ToCatalog ==
  ASSUME LocksInv, NEW t \in Tasks, NEW from, NEW to, Locks!Moves(t, from, to),
         <<from, to>> \in {<<"begin", "first">>, <<"between", "first">>, <<"session", "entry">>,
                           <<"work", "last">>, <<"left", "publish">>},
         Locks!Join(t, Locks!CatalogLock), UNCHANGED <<stage, current>>,
         UNCHANGED kind \/ (kind[t] = "open" /\ kind' = [kind EXCEPT ![t] = "resume"])
  PROVE  LocksInv'
<1>1. place[t] = from /\ ~Locks!Blocked(t) /\ place' = [place EXCEPT ![t] = to]
  BY DEF Locks!Moves
<1>2. /\ to \in Locks!Places /\ from \notin Locks!InCatalog /\ to \in Locks!InCatalog
      /\ from \notin Locks!Outside /\ to \notin Locks!Outside
      /\ to \in Locks!InSession <=> from \in Locks!InSession
  BY SMT DEF Locks!Places, Locks!InCatalog, Locks!InSession, Locks!Outside
<1>3. PICK k \in {kind[t], "resume"} :
        /\ kind' = [kind EXCEPT ![t] = k] \/ (UNCHANGED kind /\ k = kind[t])
        /\ k = "repair" => kind[t] = "repair"
  <2>1. CASE UNCHANGED kind
    <3> WITNESS kind[t] \in {kind[t], "resume"}
    <3>1. QED
      BY <2>1
  <2>2. CASE kind[t] = "open" /\ kind' = [kind EXCEPT ![t] = "resume"]
    <3> WITNESS "resume" \in {kind[t], "resume"}
    <3>1. QED
      BY <2>2
  <2>3. QED
    BY <2>1, <2>2
<1>4. Alone(t) /\ place'[t] = to /\ stage'[t] = stage[t] /\ kind'[t] = k
  <2>1. k \in Locks!Kinds \cup {"none", "repair", "resume"} /\ stage[t] \in Locks!Stages
    BY <1>3, TaskTypes
  <2>2. UNCHANGED stage
    OBVIOUS
  <2>3. QED
    BY ONLY LocksInv, t \in Tasks, <1>1, <1>2, <1>3, <2>1, <2>2, AloneFacts
<1>5. QED
  BY <1>1, <1>2, <1>3, <1>4, CatalogStep DEF Locks!Shared

\* The steps of an operation on its session.
LEMMA SessionLockStep ==
  ASSUME LocksInv, Clients, NEW t \in Tasks, Locks!session_lock(t)
  PROVE  LocksInv'
<1>1. PICK i \in Copies :
        /\ Locks!lookup("session", SessionOf[t], i)
        /\ Locks!Join(t, <<"session", SessionOf[t], i>>)
  BY DEF Locks!session_lock
<1>2. /\ place[t] \in {"begin", "between"} /\ ~Locks!Blocked(t)
      /\ place' = [place EXCEPT ![t] = "session"] /\ UNCHANGED stage
  BY DEF Locks!session_lock, Locks!Moves
<1>3. UNCHANGED kind \/ (kind[t] = "resume" /\ kind' = [kind EXCEPT ![t] = "open"])
  BY DEF Locks!session_lock
<1>4. PICK k \in Locks!Kinds \cup {"none", "repair", "resume"} :
        /\ kind' = [kind EXCEPT ![t] = k] \/ (UNCHANGED kind /\ k = kind[t])
        /\ k = "repair" => kind[t] = "repair"
  BY <1>3, TaskTypes DEF Locks!Kinds
<1>5. "session" \in Locks!Places /\ stage[t] \in Locks!Stages
  BY TaskTypes DEF Locks!Places, Locks!InSession
<1>6. Alone(t) /\ place'[t] = "session" /\ stage'[t] = stage[t] /\ kind'[t] = k
  BY ONLY LocksInv, t \in Tasks, <1>2, <1>4, <1>5, AloneFacts
<1>7. QED
  BY <1>1, <1>2, <1>4, <1>6, SessionStep DEF Locks!Shared

LEMMA CatalogDoneStep ==
  ASSUME LocksInv, NEW t \in Tasks, Locks!CatalogDone(t)
  PROVE  LocksInv'
<1>1. /\ ~Locks!Blocked(t) /\ Locks!Leave(t, {Locks!CatalogLock}) /\ UNCHANGED <<kind, stage, current>>
      /\ \/ place[t] = "first" /\ place' = [place EXCEPT ![t] = "between"]
         \/ place[t] = "entry" /\ place' = [place EXCEPT ![t] = "work"]
  BY DEF Locks!CatalogDone, Locks!Moves
<1>2. PICK p \in {"between", "work"} :
        /\ place' = [place EXCEPT ![t] = p]
        /\ (place[t] = "first" /\ p = "between") \/ (place[t] = "entry" /\ p = "work")
  BY <1>1
<1>3. /\ p \in Locks!Places /\ place[t] \notin Locks!Outside /\ p \notin Locks!Outside \cup Locks!InCatalog
      /\ p \in Locks!InSession <=> place[t] \in Locks!InSession
      /\ p # "idle"
  BY <1>2, SMT DEF Locks!Places, Locks!InCatalog, Locks!InSession, Locks!Outside
<1>4. Alone(t) /\ place'[t] = p /\ stage'[t] = stage[t] /\ kind'[t] = kind[t]
  <2>1. UNCHANGED stage /\ UNCHANGED kind
    BY <1>1
  <2>2. QED
    BY ONLY LocksInv, t \in Tasks, <1>2, <1>3, <2>1, TaskTypes, AloneFacts
<1>5. /\ {Locks!CatalogLock} \in SUBSET Locks!Locks /\ Locks!Maintenance \notin {Locks!CatalogLock}
      /\ Locks!SessionLocks \cap {Locks!CatalogLock} = {} /\ Locks!RunLocks \cap {Locks!CatalogLock} = {}
  BY LocksDiffer
<1>6. Locks!Shared(t) => kind'[t] # "repair"
  BY <1>4 DEF Locks!Shared
<1>7. GrantOf(t)'
  BY <1>1, <1>4, <1>5, <1>6, LeaveFacts, LeaveGrants
<1>8. QED
  BY <1>1, <1>3, <1>4, <1>5, <1>6, <1>7, LeavingStep

LEMMA ReleaseStep ==
  ASSUME LocksInv, NEW t \in Tasks, Locks!Release(t)
  PROVE  LocksInv'
<1> DEFINE S == Locks!SessionLocks \cup {Locks!CatalogLock}
<1>1. /\ ~Locks!Blocked(t) /\ Locks!Leave(t, S) /\ UNCHANGED stage /\ UNCHANGED current
      /\ place[t] \in {"work", "last"}
  BY DEF Locks!Release, Locks!Moves
<1>2. \/ /\ kind[t] = "refresh" /\ place' = [place EXCEPT ![t] = "left"] /\ UNCHANGED kind
      \/ /\ kind[t] = "resume" /\ place' = [place EXCEPT ![t] = "between"]
         /\ kind' = [kind EXCEPT ![t] = "open"]
  BY DEF Locks!Release, Locks!Moves
<1>3. PICK p \in {"left", "between"}, k \in {"refresh", "open"} :
        /\ place' = [place EXCEPT ![t] = p]
        /\ kind' = [kind EXCEPT ![t] = k] \/ (UNCHANGED kind /\ k = kind[t])
  BY <1>2
<1>4. /\ p \in Locks!Places /\ place[t] \notin Locks!Outside
      /\ p \notin Locks!Outside \cup Locks!InCatalog \cup Locks!InSession
      /\ k \in Locks!Kinds \cup {"none", "repair", "resume"}
      /\ p # "idle" /\ k # "repair"
  BY <1>1, <1>3, SMT
     DEF Locks!Places, Locks!InCatalog, Locks!InSession, Locks!Outside, Locks!Kinds
<1>5. Alone(t) /\ place'[t] = p /\ stage'[t] = stage[t] /\ kind'[t] = k
  BY ONLY LocksInv, t \in Tasks, <1>1, <1>3, <1>4, TaskTypes, AloneFacts
<1>6. /\ S \in SUBSET Locks!Locks /\ Locks!Maintenance \notin S
      /\ Locks!SessionLocks \subseteq S /\ Locks!RunLocks \cap S = {} /\ Locks!CatalogLock \in S
  BY LocksDiffer
<1> HIDE DEF S
<1>7. GrantOf(t)'
  BY <1>1, <1>4, <1>5, <1>6, LeaveFacts, LeaveGrants
<1>8. QED
  BY <1>1, <1>4, <1>5, <1>6, <1>7, LeavingStep

LEMMA RunAcceptanceStep ==
  ASSUME LocksInv, Clients, NEW t \in Tasks, Locks!run_acceptance(t)
  PROVE  LocksInv'
<1>1. PICK i \in Copies :
        Locks!lookup("run", CommandOf[t], i) /\ Locks!Join(t, <<"run", CommandOf[t], i>>)
  BY DEF Locks!run_acceptance
<1>2. /\ ~Locks!Blocked(t) /\ place' = [place EXCEPT ![t] = "paused"]
      /\ stage' = [stage EXCEPT ![t] = "gate"] /\ UNCHANGED kind
  BY DEF Locks!run_acceptance, Locks!Moves
<1>a. place[t] \in Locks!Outside /\ stage[t] \notin {"gate", "record"}
  <2>1. (place[t] = "paused" /\ stage[t] = "lookup") \/ place[t] = "idle"
    BY DEF Locks!run_acceptance, Locks!Moves
  <2>2. place[t] = "idle" => stage[t] = "none"
    BY DEF LocksInv, PlaceOf
  <2>3. QED
    BY <2>1, <2>2 DEF Locks!Outside
<1>3. "paused" \in Locks!Places /\ "gate" \in Locks!Stages
  BY DEF Locks!Places, Locks!Outside, Locks!Stages
<1>4. Alone(t) /\ place'[t] = "paused" /\ stage'[t] = "gate" /\ kind'[t] = kind[t]
  BY ONLY LocksInv, t \in Tasks, <1>2, <1>3, TaskTypes, AloneFacts
<1>5. QED
  BY <1>1, <1>2, <1>a, <1>4, CommandStep

LEMMA EndStep ==
  ASSUME LocksInv, NEW t \in Tasks, Locks!End(t)
  PROVE  LocksInv'
<1>1. /\ place[t] \notin Locks!Outside /\ ~Locks!Blocked(t) /\ UNCHANGED current
      /\ kind' = [kind EXCEPT ![t] = "none"] /\ "none" \in Locks!Kinds \cup {"none", "repair", "resume"}
  BY DEF Locks!End, Locks!Moves
<1>2. /\ "paused" \in Locks!Places /\ "idle" \in Locks!Places /\ "none" \in Locks!Stages
      /\ {"paused", "idle"} \subseteq Locks!Outside
      /\ {"paused", "idle"} \cap (Locks!InCatalog \cup Locks!InSession) = {}
  BY DEF Locks!Places, Locks!Outside, Locks!Stages, Locks!InCatalog, Locks!InSession
<1>3. CASE /\ place' = [place EXCEPT ![t] = "paused"] /\ UNCHANGED stage
           /\ Locks!Leave(t, Locks!Locks \ Locks!RunLocks)
  <2> DEFINE S == Locks!Locks \ Locks!RunLocks
  <2>1. Alone(t) /\ place'[t] = "paused" /\ stage'[t] = stage[t] /\ kind'[t] = "none"
    BY ONLY LocksInv, t \in Tasks, <1>1, <1>2, <1>3, TaskTypes, AloneFacts
  <2>2. /\ S \in SUBSET Locks!Locks /\ Locks!Maintenance \in S /\ Locks!CatalogLock \in S
        /\ Locks!SessionLocks \subseteq S /\ Locks!RunLocks \cap S = {}
    BY LocksDiffer
  <2>3. Locks!Leave(t, S)
    BY <1>3
  <2> HIDE DEF S
  <2>4. GrantOf(t)'
    BY <1>1, <2>1, <2>2, <2>3, LeaveFacts, LeaveGrants
  <2>5. QED
    BY <1>1, <1>2, <2>1, <2>2, <2>3, <2>4, LeavingStep
<1>4. CASE /\ place' = [place EXCEPT ![t] = "idle"] /\ stage' = [stage EXCEPT ![t] = "none"]
           /\ Locks!Leave(t, Locks!Locks)
  <2>1. Alone(t) /\ place'[t] = "idle" /\ stage'[t] = "none" /\ kind'[t] = "none"
    BY ONLY LocksInv, t \in Tasks, <1>1, <1>2, <1>4, AloneFacts
  <2>2. /\ Locks!Locks \in SUBSET Locks!Locks
        /\ Locks!Maintenance \in Locks!Locks /\ Locks!CatalogLock \in Locks!Locks
        /\ Locks!SessionLocks \subseteq Locks!Locks /\ Locks!RunLocks \subseteq Locks!Locks
    BY LocksDiffer
  <2>4. GrantOf(t)'
    BY <1>1, <1>4, <2>1, <2>2, LeaveFacts, LeaveGrants
  <2>5. QED
    BY <1>1, <1>2, <1>4, <2>1, <2>2, <2>4, LeavingStep
<1>5. QED
  BY <1>3, <1>4 DEF Locks!End, Locks!Moves

LEMMA AbandonStep ==
  ASSUME LocksInv, NEW t \in Tasks, Locks!Abandon(t)
  PROVE  LocksInv'
<1> DEFINE p == IF place[t] = "paused" THEN "idle" ELSE place[t]
<1>1. /\ stage[t] \in {"lookup", "gate"} /\ stage' = [stage EXCEPT ![t] = "none"]
      /\ place' = [place EXCEPT ![t] = p] /\ Locks!Leave(t, Locks!RunLocks)
      /\ UNCHANGED kind /\ UNCHANGED current
  BY DEF Locks!Abandon
<1>2. "idle" \in Locks!Places /\ "none" \in Locks!Stages
  BY DEF Locks!Places, Locks!Outside, Locks!Stages
<1>3. p \in Locks!Places
  BY <1>2, TaskTypes
<1>4. /\ p \in Locks!Outside <=> place[t] \in Locks!Outside
      /\ p \in Locks!InCatalog <=> place[t] \in Locks!InCatalog
      /\ p \in Locks!InSession <=> place[t] \in Locks!InSession
      /\ p = "begin" => place[t] = "begin"
      /\ p = "session" => place[t] = "session"
      /\ p # "paused"
  BY SMT DEF Locks!InCatalog, Locks!InSession, Locks!Outside
<1> HIDE DEF p
<1>5. Alone(t) /\ place'[t] = p /\ stage'[t] = "none" /\ kind'[t] = kind[t]
  BY ONLY LocksInv, t \in Tasks, <1>1, <1>2, <1>3, TaskTypes, AloneFacts
<1>6. /\ Locks!RunLocks \in SUBSET Locks!Locks /\ Locks!Maintenance \in Locks!Locks \ Locks!RunLocks
      /\ Locks!CatalogLock \notin Locks!RunLocks
      /\ Locks!SessionLocks \cap Locks!RunLocks = {} /\ Locks!SessionLocks \subseteq Locks!Locks \ Locks!RunLocks
  BY LocksDiffer
<1>7. Left(t, Locks!RunLocks) /\ GrantOf(t)
  BY <1>1, <1>6, LeaveFacts DEF LocksInv
<1>8. GrantOf(t)'
  <2>1. \A l \in Locks!RunLocks : ahead'[l][t] = {}
    BY <1>7 DEF Left
  <2>2. p # "session" => \A l \in Locks!SessionLocks : ahead'[l][t] = {}
    <3>1. ASSUME place[t] # "session", NEW l \in Locks!SessionLocks PROVE ahead'[l][t] = {}
      BY <1>6, <1>7, <3>1 DEF Left, GrantOf
    <3>2. QED
      BY <1>4, <1>3, <3>1, SMT DEF p
  <2>3. ASSUME p # "begin", NEW u \in ahead'[Locks!Maintenance][t]
        PROVE  kind'[t] # "repair" /\ kind'[u] # "repair"
    <3>1. place[t] # "begin"
      BY <2>3 DEF p
    <3>2. u \in ahead[Locks!Maintenance][t] /\ kind[t] # "repair" /\ kind[u] # "repair"
      BY <1>6, <1>7, <2>3, <3>1 DEF Left, GrantOf, Locks!Shared
    <3>3. QED
      BY <1>1, <3>2
  <2>4. QED
    BY <1>5, <2>1, <2>2, <2>3 DEF GrantOf, Locks!Shared
<1>9. Locks!Shared(t) => kind'[t] # "repair"
  BY <1>5 DEF Locks!Shared
<1>10. QED
  BY <1>1, <1>4, <1>5, <1>6, <1>8, <1>9, LeavingStep

\* Nobody is at any lock at first.
LEMMA LocksStart ==
  ASSUME Clients, Locks!LocksInit
  PROVE  LocksInv
<1>1. Locks!LocksTypeOK
  BY DEF Locks!LocksInit, Locks!LocksTypeOK, Locks!Places, Locks!Outside, Locks!Stages
<1>2. \A l \in Locks!Locks : inside[l] = {} /\ \A t \in Tasks : ahead[l][t] = {}
  BY DEF Locks!LocksInit
<1>3. QueueInv
  BY <1>2 DEF QueueInv, Queue
<1>4. ASSUME NEW t \in Tasks PROVE PlaceOf(t) /\ GrantOf(t)
  <2>1. place[t] = "idle" /\ stage[t] = "none"
    BY DEF Locks!LocksInit
  <2>2. /\ "idle" \in Locks!Outside /\ "idle" \notin Locks!InCatalog \cup Locks!InSession
    BY DEF Locks!Outside, Locks!InCatalog, Locks!InSession
  <2>3. /\ Locks!Maintenance \in Locks!Locks /\ Locks!CatalogLock \in Locks!Locks
        /\ Locks!SessionLocks \subseteq Locks!Locks /\ Locks!RunLocks \subseteq Locks!Locks
    BY LocksDiffer
  <2>4. PlaceOf(t)
    BY <1>2, <2>1, <2>2, <2>3 DEF PlaceOf
  <2>5. GrantOf(t)
    BY <1>2, <2>3 DEF GrantOf
  <2>6. QED
    BY <2>4, <2>5
<1>5. QED
  BY <1>1, <1>3, <1>4 DEF LocksInv

\* One step per action.
LEMMA LocksStep ==
  ASSUME LocksInv, Clients, Locks!LocksNext
  PROVE  LocksInv'
<1>1. PICK t \in Tasks :
        \/ \E k \in Locks!Kinds : Locks!Start(t, k)
        \/ Locks!repair_catalog(t) \/ Locks!First(t) \/ Locks!Again(t) \/ Locks!CatalogDone(t)
        \/ Locks!session_lock(t) \/ Locks!entry(t) \/ Locks!Finish(t) \/ Locks!Release(t)
        \/ Locks!publish(t) \/ Locks!run_held(t) \/ Locks!run_acceptance(t) \/ Locks!Accept(t)
        \/ Locks!End(t) \/ Locks!Abandon(t)
  BY DEF Locks!LocksNext
<1>2. "idle" \in Locks!Outside /\ "paused" \in Locks!Outside
  BY DEF Locks!Outside
<1>3. ASSUME NEW k \in Locks!Kinds, Locks!Start(t, k) PROVE LocksInv'
  BY <1>2, <1>3, TaskTypes, BeginStep DEF Locks!Start
<1>4. CASE Locks!repair_catalog(t)
  BY <1>2, <1>4, TaskTypes, BeginStep DEF Locks!repair_catalog
<1>5. CASE Locks!First(t)
  BY <1>5, ToCatalog DEF Locks!First
<1>6. CASE Locks!Again(t)
  <2>1. UNCHANGED kind \/ (kind[t] = "open" /\ kind' = [kind EXCEPT ![t] = "resume"])
    <3>1. kind' = [kind EXCEPT ![t] = IF kind[t] = "open" THEN "resume" ELSE kind[t]]
      BY <1>6 DEF Locks!Again
    <3>2. kind \in [Tasks -> Locks!Kinds \cup {"none", "repair", "resume"}]
      BY DEF LocksInv, Locks!LocksTypeOK
    <3>3. CASE kind[t] = "open"
      BY <3>1, <3>3
    <3>4. CASE kind[t] # "open"
      <4>1. kind' = [kind EXCEPT ![t] = kind[t]]
        BY <3>1, <3>4
      <4>2. QED
        BY ONLY <3>2, <4>1, SMT
    <3>5. QED
      BY <3>3, <3>4
  <2>2. QED
    BY <1>6, <2>1, ToCatalog DEF Locks!Again
<1>7. CASE Locks!CatalogDone(t)
  BY <1>7, CatalogDoneStep
<1>8. CASE Locks!session_lock(t)
  BY <1>8, SessionLockStep
<1>9. CASE Locks!entry(t)
  BY <1>9, ToCatalog DEF Locks!entry
<1>10. CASE Locks!Finish(t)
  BY <1>10, ToCatalog DEF Locks!Finish
<1>11. CASE Locks!Release(t)
  BY <1>11, ReleaseStep
<1>12. CASE Locks!publish(t)
  BY <1>12, ToCatalog DEF Locks!publish
<1>13. CASE Locks!run_held(t)
  <2>1. stage[t] = "none" /\ "lookup" \in Locks!Stages
    BY <1>13 DEF LocksInv, PlaceOf, Locks!run_held, Locks!Operation, Locks!Moves, Locks!Stages
  <2>2. "handle" \in Locks!Kinds
    BY DEF Locks!Kinds
  <2>3. QED
    BY <1>2, <1>13, <2>1, <2>2, BeginStep DEF Locks!run_held
<1>14. CASE Locks!run_acceptance(t)
  BY <1>14, RunAcceptanceStep
<1>15. CASE Locks!Accept(t)
  <2>1. PICK s \in {"gate", "record"} : stage' = [stage EXCEPT ![t] = s]
    BY <1>15 DEF Locks!Accept
  <2>2. "handle" \in Locks!Kinds /\ s \in Locks!Stages /\ stage[t] = "gate"
    BY <1>15 DEF Locks!Kinds, Locks!Stages, Locks!Accept
  <2>3. QED
    BY <1>2, <1>15, <2>1, <2>2, BeginStep DEF Locks!Accept
<1>16. CASE Locks!End(t)
  BY <1>16, EndStep
<1>17. CASE Locks!Abandon(t)
  BY <1>17, AbandonStep
<1>18. QED
  BY <1>1, <1>3, <1>4, <1>5, <1>6, <1>7, <1>8, <1>9, <1>10, <1>11, <1>12, <1>13, <1>14, <1>15,
     <1>16, <1>17

\* One task at a time owns a session, and one a command.
LEMMA OneOwner ==
  ASSUME LocksInv, Clients
  PROVE  /\ \A s \in Ids : \A t, u \in Locks!Working(s) : t = u
         /\ \A r \in Commands : \A t, u \in Locks!Accepting(r) : t = u
<1>1. current \in [Locks!Names -> Copies]
  BY DEF LocksInv, Locks!LocksTypeOK
<1>2. ASSUME NEW s \in Ids, NEW t \in Locks!Working(s), NEW u \in Locks!Working(s) PROVE t = u
  <2>1. /\ t \in Tasks /\ u \in Tasks /\ SessionOf[t] = SessionOf[u]
        /\ place[t] \in Locks!InSession /\ place[t] # "session"
        /\ place[u] \in Locks!InSession /\ place[u] # "session"
    BY SMT DEF Locks!Working, Locks!InSession
  <2>2. OwnSession(t) = OwnSession(u) /\ OwnSession(t) \in Locks!SessionLocks
    BY <1>1, <2>1, SMT DEF OwnSession, SessionName, Locks!SessionLocks, Locks!Names, Clients
  <2>3. /\ t \in inside[OwnSession(t)] /\ u \in inside[OwnSession(t)]
        /\ ahead[OwnSession(t)][t] = {} /\ ahead[OwnSession(t)][u] = {}
    BY <2>1, <2>2 DEF LocksInv, PlaceOf, GrantOf
  <2>4. Queue(inside[OwnSession(t)], ahead[OwnSession(t)])
    BY <2>2, LocksDiffer DEF LocksInv, QueueInv
  <2>5. QED
    BY <2>3, <2>4 DEF Queue
<1>3. ASSUME NEW r \in Commands, NEW t \in Locks!Accepting(r), NEW u \in Locks!Accepting(r) PROVE t = u
  <2>1. /\ t \in Tasks /\ u \in Tasks /\ CommandOf[t] = CommandOf[u]
        /\ stage[t] \in {"gate", "record"} /\ place[t] # "paused"
        /\ stage[u] \in {"gate", "record"} /\ place[u] # "paused"
    BY DEF Locks!Accepting
  <2>2. OwnCommand(t) = OwnCommand(u) /\ OwnCommand(t) \in Locks!RunLocks
    BY <1>1, <2>1, SMT DEF OwnCommand, CommandName, Locks!RunLocks, Locks!Names, Clients
  <2>3. /\ t \in inside[OwnCommand(t)] /\ u \in inside[OwnCommand(t)]
        /\ ahead[OwnCommand(t)][t] = {} /\ ahead[OwnCommand(t)][u] = {}
    BY <2>1, <2>2 DEF LocksInv, PlaceOf, GrantOf
  <2>4. Queue(inside[OwnCommand(t)], ahead[OwnCommand(t)])
    BY <2>2, LocksDiffer DEF LocksInv, QueueInv
  <2>5. QED
    BY <2>3, <2>4 DEF Queue
<1>4. QED
  BY <1>2, <1>3

\* The locks are taken in one order, the command's before the maintenance lock, that before
\* the session's, and the catalog last: of any tasks, the first in line for the last lock that
\* any of them asks for waits for none of the others.
LEMMA NoCircle ==
  ASSUME LocksInv, NEW D \in SUBSET Tasks, D # {}
  PROVE  \E t \in D : \A u \in D : ~Locks!WaitsFor(t, u)
<1>1. \A t \in Tasks : PlaceOf(t) /\ GrantOf(t)
  BY DEF LocksInv
<1>2. ASSUME NEW l \in Locks!Locks, D \cap inside[l] # {}
      PROVE  \E t \in D \cap inside[l] : \A u \in D : ~Locks!WaitsAt(l, t, u)
  <2>1. Queue(inside[l], ahead[l])
    BY DEF LocksInv, QueueInv
  <2>2. PICK t \in D \cap inside[l] : ahead[l][t] \cap (D \cap inside[l]) = {}
    BY <1>2, <2>1 DEF Queue
  <2>3. ahead[l][t] \subseteq inside[l]
    BY <2>1, <2>2 DEF Queue
  <2>4. QED
    BY <2>2, <2>3 DEF Locks!WaitsAt
<1>3. /\ Locks!Maintenance \in Locks!Locks /\ Locks!CatalogLock \in Locks!Locks
      /\ Locks!SessionLocks \subseteq Locks!Locks /\ Locks!RunLocks \subseteq Locks!Locks
      /\ \A l \in Locks!Locks : \/ l = Locks!Maintenance \/ l = Locks!CatalogLock
                                \/ l \in Locks!SessionLocks \/ l \in Locks!RunLocks
  BY LocksDiffer
<1>4. ASSUME NEW t \in Tasks, place[t] \notin {"idle", "paused"}, NEW u, NEW l \in Locks!RunLocks
      PROVE  ~Locks!WaitsAt(l, t, u)
  BY <1>1, <1>4 DEF GrantOf, Locks!WaitsAt
<1>5. ASSUME NEW t \in Tasks, place[t] # "begin", NEW u PROVE ~Locks!WaitsAt(Locks!Maintenance, t, u)
  BY <1>1, <1>5 DEF GrantOf, Locks!WaitsAt
<1>6. ASSUME NEW t \in Tasks, place[t] # "session", NEW u, NEW l \in Locks!SessionLocks
      PROVE  ~Locks!WaitsAt(l, t, u)
  BY <1>1, <1>6 DEF GrantOf, Locks!WaitsAt
<1>7. CASE D \cap inside[Locks!CatalogLock] # {}
  <2>1. PICK t \in D \cap inside[Locks!CatalogLock] : \A u \in D : ~Locks!WaitsAt(Locks!CatalogLock, t, u)
    BY <1>2, <1>3, <1>7
  <2>2. t \in Tasks /\ place[t] \notin {"idle", "paused", "begin", "session"}
    <3>1. place[t] \in Locks!InCatalog
      BY <1>1, <2>1 DEF PlaceOf
    <3>2. QED
      BY <3>1 DEF Locks!InCatalog
  <2>3. QED
    BY <1>3, <1>4, <1>5, <1>6, <2>1, <2>2 DEF Locks!WaitsFor
<1>8. CASE /\ D \cap inside[Locks!CatalogLock] = {}
           /\ \E l \in Locks!SessionLocks : D \cap inside[l] # {}
  <2>1. PICK l \in Locks!SessionLocks : D \cap inside[l] # {}
    BY <1>8
  <2>2. PICK t \in D \cap inside[l] : \A u \in D : ~Locks!WaitsAt(l, t, u)
    BY <1>2, <1>3, <2>1
  <2>3. t \in Tasks /\ place[t] \notin {"idle", "paused", "begin"}
    <3>1. place[t] \in Locks!InSession
      BY <1>1, <2>2 DEF PlaceOf
    <3>2. QED
      BY <3>1 DEF Locks!InSession
  <2>4. \A k \in Locks!SessionLocks : t \in inside[k] => k = l
    BY <1>1, <2>2 DEF PlaceOf
  <2>5. ASSUME NEW u \in D, NEW k \in Locks!SessionLocks PROVE ~Locks!WaitsAt(k, t, u)
    BY <2>2, <2>4 DEF Locks!WaitsAt
  <2>6. \A u \in D : ~Locks!WaitsAt(Locks!CatalogLock, t, u)
    BY <1>8, <2>2 DEF Locks!WaitsAt
  <2>7. QED
    BY <1>3, <1>4, <1>5, <2>2, <2>3, <2>5, <2>6 DEF Locks!WaitsFor
<1>9. CASE /\ D \cap inside[Locks!CatalogLock] = {}
           /\ \A l \in Locks!SessionLocks : D \cap inside[l] = {}
           /\ D \cap inside[Locks!Maintenance] # {}
  <2>1. PICK t \in D \cap inside[Locks!Maintenance] : \A u \in D : ~Locks!WaitsAt(Locks!Maintenance, t, u)
    BY <1>2, <1>3, <1>9
  <2>2. t \in Tasks /\ place[t] \notin {"idle", "paused"}
    BY <1>1, <2>1 DEF PlaceOf, Locks!Outside
  <2>3. \A u \in D : /\ ~Locks!WaitsAt(Locks!CatalogLock, t, u)
                     /\ \A l \in Locks!SessionLocks : ~Locks!WaitsAt(l, t, u)
    BY <1>9, <2>1 DEF Locks!WaitsAt
  <2>4. QED
    BY <1>3, <1>4, <2>1, <2>2, <2>3 DEF Locks!WaitsFor
<1>10. CASE /\ D \cap inside[Locks!CatalogLock] = {}
            /\ \A l \in Locks!SessionLocks : D \cap inside[l] = {}
            /\ D \cap inside[Locks!Maintenance] = {}
            /\ \E l \in Locks!RunLocks : D \cap inside[l] # {}
  <2>1. PICK l \in Locks!RunLocks : D \cap inside[l] # {}
    BY <1>10
  <2>2. PICK t \in D \cap inside[l] : \A u \in D : ~Locks!WaitsAt(l, t, u)
    BY <1>2, <1>3, <2>1
  <2>3. \A k \in Locks!RunLocks : t \in inside[k] => k = l
    BY <1>1, <2>2 DEF PlaceOf
  <2>4. ASSUME NEW u \in D, NEW k \in Locks!RunLocks PROVE ~Locks!WaitsAt(k, t, u)
    BY <2>2, <2>3 DEF Locks!WaitsAt
  <2>5. \A u \in D : /\ ~Locks!WaitsAt(Locks!CatalogLock, t, u) /\ ~Locks!WaitsAt(Locks!Maintenance, t, u)
                     /\ \A k \in Locks!SessionLocks : ~Locks!WaitsAt(k, t, u)
    BY <1>10, <2>2 DEF Locks!WaitsAt
  <2>6. QED
    BY <1>3, <2>2, <2>4, <2>5 DEF Locks!WaitsFor
<1>11. CASE \A l \in Locks!Locks : D \cap inside[l] = {}
  BY <1>11 DEF Locks!WaitsFor, Locks!WaitsAt
<1>12. QED
  BY <1>3, <1>7, <1>8, <1>9, <1>10, <1>11

\* For any clients of the store, however their operations and acceptances interleave and
\* callers go away, a session and a command have one task at work at a time and no tasks wait
\* for each other in a circle (session_lock, run_acceptance, operation, repair_catalog).
THEOREM LocksServed ==
  ASSUME Clients
  PROVE  Locks!LocksSpec => []Locks!LocksAreServed
<1>1. Locks!LocksInit => LocksInv
  BY LocksStart
<1>2. LocksInv /\ [Locks!LocksNext]_(Locks!lockVars) => LocksInv'
  <2> SUFFICES ASSUME LocksInv, [Locks!LocksNext]_(Locks!lockVars) PROVE LocksInv'
    OBVIOUS
  <2>1. CASE Locks!LocksNext
    BY <2>1, LocksStep
  <2>2. CASE UNCHANGED Locks!lockVars
    BY <2>2 DEF Locks!lockVars, LocksInv, Locks!LocksTypeOK, QueueInv, PlaceOf, GrantOf,
       OwnSession, OwnCommand, SessionName, CommandName, Locks!Shared
  <2>3. QED
    BY <2>1, <2>2
<1>3. LocksInv => Locks!LocksAreServed
  BY OneOwner, NoCircle DEF Locks!LocksAreServed
<1>4. QED
  BY <1>1, <1>2, <1>3, PTL DEF Locks!LocksSpec
=============================================================================
