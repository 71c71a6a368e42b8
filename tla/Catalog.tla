------------------------------ MODULE Catalog ------------------------------
(***************************************************************************)
(* The catalog of sessions: creation, opening (with migration), appending, *)
(* catalog refresh and catalog repair, over one session database per       *)
(* session and one catalog database.                                       *)
(*                                                                         *)
(* Callers are admitted operations of SessionStore and SessionHandle.      *)
(* They share the maintenance lock as readers; a repair is its writer.     *)
(* Every transaction on the catalog runs under catalog_lock from its first *)
(* read to its close, so it is one action here.  A transaction that is     *)
(* answered with an error after its commit, and a crash between two        *)
(* transactions, are both possible.  Files can be damaged, moved away and  *)
(* brought back by hands other than the store's.                           *)
(***************************************************************************)
EXTENDS Naturals, FiniteSets

CONSTANTS
  Callers,      \* concurrent operations
  Operations,   \* identities of creation commands
  Payloads,     \* contents of a creation request
  Buckets,      \* first two characters of the session ids
  Prefix,       \* the bucket of each session
  Legacy,       \* versions of the session that may exist at the start
  MaxSessions,  \* bound: sessions ever allocated
  MaxHead,      \* bound: events of a session
  MaxRepairs,   \* bound: repair attempts
  MaxFaults,    \* bound: foreign changes of files
  MaxCrashes    \* bound: losses of the process

ASSUME CatalogAssumption ==
  /\ MaxSessions \in Nat /\ MaxHead \in Nat /\ MaxRepairs \in Nat
  /\ MaxFaults \in Nat /\ MaxCrashes \in Nat
  /\ Legacy \subseteq 1..3
  /\ Prefix \in [1..MaxSessions -> Buckets]

VARIABLES
  up,        \* a process owns the root
  catalog,   \* the catalog database: absent, an empty file, or ready
  required,  \* catalog_meta.repair_required
  rows,      \* table sessions
  commands,  \* table creation_commands
  files,     \* what is on disk for each session
  away,      \* what was moved away from each session
  unsafe,    \* buckets replaced by something that is not a private directory
  allocated, \* number of session ids given out
  call,      \* what each caller is doing
  owner,     \* session locks: the caller that holds each
  handles,   \* sessions opened by this process
  repair,    \* the running repair
  repairs, faults, crashes,
  acks,      \* answers to creation requests: <<session, payload>>
  alarms,    \* sessions reported as broken by an operation that was not overtaken
  touched,   \* sessions whose files other hands changed
  forgotten  \* the catalog was lost at least once

store == <<up, catalog, required, rows, commands, files, away, unsafe, allocated>>
actors == <<call, owner, handles, repair>>
ghosts == <<repairs, faults, crashes, acks, alarms, touched, forgotten>>
vars == <<store, actors, ghosts>>

Sessions == 1..MaxSessions
Free == "free"

(***************************************************************************)
(* Data.  A session file is absent (no directory, or a directory without a *)
(* database), empty, damaged, or a valid database: the provenance of its   *)
(* creation, its head and its schema version.                              *)
(***************************************************************************)
NoFile == [kind |-> "none"]
OnlyDirectory == [kind |-> "directory"]
EmptyFile == [kind |-> "empty"]
DamagedFile == [kind |-> "damaged"]
Database(o, p, head, version) ==
  [kind |-> "valid", operation |-> o, payload |-> p, head |-> head, version |-> version]
Databases == {Database(o, p, h, v) : o \in Operations, p \in Payloads,
                                     h \in 1..MaxHead, v \in 1..3}
Files == {NoFile, OnlyDirectory, EmptyFile, DamagedFile} \cup Databases

NoCommand == [state |-> "none"]
Commands == {NoCommand} \cup
  [state : {"creating", "accepted", "failed"}, session : Sessions, payload : Payloads]

NoRow == [availability |-> "absent", head |-> 0, version |-> 1, fault |-> "none", seen |-> 0]
CreatingRow == [NoRow EXCEPT !.availability = "creating"]
Faults == {"none", "not_found", "integrity", "unavailable", "command_conflict"}
Rows == [availability : {"absent", "creating", "ready", "missing", "unavailable"},
         head : 0..MaxHead, version : 1..3, fault : Faults, seen : 0..MaxRepairs]

Safe(s) == Prefix[s] \notin unsafe
Readable(s) == Safe(s) /\ files[s].kind = "valid"

\* What summary() accepts when it decodes a row of the catalog.
summary(row) ==
  /\ row.availability = "ready" => row.head > 0
  /\ row.availability \in {"ready", "creating"} => row.fault = "none"

Idle == [pc |-> "idle"]
Creation(o, p, opening) == [pc |-> "reserve", operation |-> o, payload |-> p, opening |-> opening,
                           head |-> 0, version |-> 1]
NoRepair == [pc |-> "idle"]

TypeOK ==
  /\ up \in BOOLEAN /\ catalog \in {"absent", "empty", "ready"} /\ required \in BOOLEAN
  /\ rows \in [Sessions -> Rows] /\ \A s \in Sessions : summary(rows[s])
  /\ commands \in [Operations -> Commands]
  /\ files \in [Sessions -> Files] /\ away \in [Sessions -> Files]
  /\ unsafe \subseteq Buckets
  /\ allocated \in 0..MaxSessions
  /\ owner \in [Sessions -> Callers \cup {Free}]
  /\ handles \subseteq Sessions
  /\ \A c \in Callers : call[c].pc \in {"idle", "reserve", "enter", "place", "initialize",
       "complete", "fail", "open", "migrate", "project", "reconcile", "publish"}
  /\ repair.pc \in {"idle", "scan"}
  /\ acks \in [Operations -> SUBSET (Sessions \X Payloads)]
  /\ alarms \subseteq Sessions /\ touched \subseteq Sessions

-----------------------------------------------------------------------------
(***************************************************************************)
(* Reading an entry of the catalog.                                        *)
(***************************************************************************)
Claims(s) == {o \in Operations : commands[o].state # "none" /\ commands[o].session = s}
Listed(s) == rows[s].availability \notin {"absent", "missing"}
Paired(s) ==
  \A o \in Claims(s) :
    /\ rows[s].availability = "ready" => commands[o].state = "accepted"
    /\ rows[s].availability = "creating" => commands[o].state = "creating"

\* entry_rows succeeds.
entry_rows(s) == Listed(s) /\ Claims(s) # {} /\ Paired(s)
\* entry_rows fails with an integrity error.
BadEntry(s) ==
  /\ Listed(s)
  /\ \/ Claims(s) = {} /\ rows[s].availability # "unavailable"
     \/ Claims(s) # {} /\ ~Paired(s)

\* The catalog's observation of a session is not ahead of the session.
Agrees(row, file) == row.head <= file.head /\ row.version <= file.version

\* session::connection succeeds.
connection(s) ==
  /\ ~required
  /\ entry_rows(s) /\ rows[s].availability = "ready"
  /\ Readable(s)
  /\ files[s].operation \in Claims(s)
  /\ commands[files[s].operation].payload = files[s].payload
  /\ Agrees(rows[s], files[s])

\* session::connection reports the session as broken.
Alarm(s) ==
  /\ ~required
  /\ \/ BadEntry(s)
     \/ /\ entry_rows(s) /\ rows[s].availability = "ready" /\ Safe(s)
        /\ \/ files[s].kind \in {"empty", "damaged"}
           \/ files[s].kind = "valid" /\ ~connection(s)

-----------------------------------------------------------------------------
(***************************************************************************)
(* Frames.  A caller's step changes its own record, perhaps a session lock *)
(* and some tables; End leaves the operation and every lock it holds.      *)
(***************************************************************************)
Active(c) == up /\ call[c].pc # "idle"
At(c, pc) == up /\ call[c].pc = pc
Become(c, r) == call' = [call EXCEPT ![c] = r]
Released(c) == [s \in Sessions |-> IF owner[s] = c THEN Free ELSE owner[s]]
End(c) == Become(c, Idle) /\ owner' = Released(c)
Lock(c, s) == owner[s] = Free /\ owner' = [owner EXCEPT ![s] = c]
Session(c) == call[c].session

Tables == <<required, rows, commands>>
Outside == <<up, catalog, away, unsafe, handles, repair, repairs, faults, crashes, touched, forgotten>>
Raised(s) == alarms' = alarms \cup {t \in {s} : Alarm(t)}

\* The maintenance lock is shared by operations and exclusive for a repair.
Admitted(c) == up /\ call[c].pc = "idle" /\ repair.pc = "idle"

Acknowledge(c) ==
  acks' = [acks EXCEPT ![call[c].operation] = @ \cup {<<commands[call[c].operation].session, call[c].payload>>}]

\* An operational failure (busy, I/O, lost worker), and a catalog that requires repair,
\* end an operation anywhere.
Fails(c) ==
  /\ Active(c)
  /\ End(c)
  /\ UNCHANGED <<Tables, files, allocated, acks, alarms, Outside>>

-----------------------------------------------------------------------------
(***************************************************************************)
(* create_session.                                                         *)
(***************************************************************************)
create_session(c, o, p) ==
  /\ Admitted(c)
  /\ Become(c, Creation(o, p, FALSE))
  /\ UNCHANGED <<Tables, files, allocated, owner, acks, alarms, Outside>>

Unreserved(o) == commands[o].state = "none"

\* A new command allocates the identity of its session.
Reserve(c) ==
  LET o == call[c].operation  s == allocated + 1 IN
  /\ At(c, "reserve") /\ ~required
  /\ Unreserved(o) /\ s \in Sessions
  /\ allocated' = s
  /\ commands' = [commands EXCEPT ![o] = [state |-> "creating", session |-> s, payload |-> call[c].payload]]
  /\ rows' = [rows EXCEPT ![s] = CreatingRow]
  /\ \/ Become(c, [call[c] EXCEPT !.pc = "enter"]) /\ UNCHANGED owner
     \/ End(c)   \* committed, and answered as unknown
  /\ UNCHANGED <<required, files, acks, alarms, Outside>>

\* A command seen before: its receipt, its reservation, or a refusal.
ReserveAgain(c) ==
  LET o == call[c].operation  s == commands[o].session
      Matches == commands[o].payload = call[c].payload
      Resumes == commands[o].state = "creating" /\ entry_rows(s) /\ rows[s].availability = "creating" IN
  /\ At(c, "reserve") /\ ~required
  /\ ~Unreserved(o)
  /\ \/ /\ Matches /\ commands[o].state = "accepted"
        /\ Acknowledge(c)
        /\ IF call[c].opening
           THEN Become(c, [pc |-> "open", session |-> s]) /\ UNCHANGED owner
           ELSE End(c)
     \/ /\ Matches /\ Resumes
        /\ Become(c, [call[c] EXCEPT !.pc = "enter"])
        /\ UNCHANGED <<owner, acks>>
     \/ /\ ~(Matches /\ (commands[o].state = "accepted" \/ Resumes))
        /\ End(c) /\ UNCHANGED acks
  /\ UNCHANGED <<Tables, files, allocated, alarms, Outside>>

Created(c) ==
  IF call[c].opening
  THEN /\ Become(c, [pc |-> "open", session |-> commands[call[c].operation].session])
       /\ owner' = Released(c)
  ELSE End(c)

\* The session lock is taken and the entry read again: an identical command may have finished.
\* Only a holder of this lock changes the entry of a session that is being created.
EnterCreation(c) ==
  LET o == call[c].operation  s == commands[o].session IN
  /\ At(c, "enter") /\ ~required
  /\ owner[s] = Free
  /\ \/ /\ commands[o].state = "accepted" /\ entry_rows(s)
        /\ Created(c) /\ Acknowledge(c)
     \/ /\ commands[o].state = "creating" /\ entry_rows(s)
        /\ Lock(c, s)
        /\ Become(c, [call[c] EXCEPT !.pc = "place"])
        /\ UNCHANGED acks
     \/ /\ commands[o].state = "failed" \/ ~entry_rows(s)
        /\ End(c) /\ UNCHANGED acks
  /\ UNCHANGED <<Tables, files, allocated, alarms, Outside>>

\* materialize creates the database, or finds one that was never initialized.
Initializable(file) == file.kind \in {"none", "directory", "empty"}

\* session_schema::validate with the expected provenance.
Ours(c, s) ==
  /\ files[s].kind = "valid"
  /\ files[s].operation = call[c].operation /\ files[s].payload = call[c].payload

Place(c) ==
  LET s == commands[call[c].operation].session IN
  /\ At(c, "place")
  /\ \/ /\ Safe(s) /\ Initializable(files[s])
        /\ files' = [files EXCEPT ![s] = EmptyFile]
        /\ Become(c, [call[c] EXCEPT !.pc = "initialize"]) /\ UNCHANGED owner
     \/ /\ Safe(s) /\ files[s] = NoFile   \* the directory, and then a failure
        /\ files' = [files EXCEPT ![s] = OnlyDirectory]
        /\ End(c)
     \/ /\ Safe(s) /\ Ours(c, s)
        /\ Become(c, [call[c] EXCEPT !.pc = "complete", !.head = files[s].head, !.version = files[s].version]) /\ UNCHANGED <<files, owner>>
     \/ /\ ~Safe(s) \/ ~(Initializable(files[s]) \/ Ours(c, s))
        /\ Become(c, [call[c] EXCEPT !.pc = "fail"]) /\ UNCHANGED <<files, owner>>
  /\ UNCHANGED <<Tables, allocated, acks, alarms, Outside>>

\* session_schema::initialize checks emptiness again under the write lock.
Initialize(c) ==
  LET s == commands[call[c].operation].session IN
  /\ At(c, "initialize")
  /\ \/ /\ Safe(s) /\ files[s] = EmptyFile
        /\ files' = [files EXCEPT ![s] = Database(call[c].operation, call[c].payload, 1, 3)]
        /\ \/ Become(c, [call[c] EXCEPT !.pc = "complete", !.head = 1, !.version = 3]) /\ UNCHANGED owner
           \/ End(c)
     \/ /\ files[s].kind \in {"valid", "damaged"} \/ ~Safe(s)
        /\ Become(c, [call[c] EXCEPT !.pc = "fail"]) /\ UNCHANGED <<files, owner>>
     \/ /\ Safe(s) /\ files[s].kind \in {"none", "directory"}   \* not found: operational
        /\ End(c) /\ UNCHANGED files
  /\ UNCHANGED <<Tables, allocated, acks, alarms, Outside>>

ReadyRow(row, head, version) ==
  [row EXCEPT !.availability = "ready", !.head = head, !.version = version]

Complete(c) ==
  LET o == call[c].operation  s == commands[o].session IN
  /\ At(c, "complete") /\ ~required
  /\ \/ /\ entry_rows(s) /\ commands[o].state = "creating" /\ rows[s].availability = "creating"
        /\ rows' = [rows EXCEPT ![s] = ReadyRow(@, call[c].head, call[c].version)]
        /\ commands' = [commands EXCEPT ![o].state = "accepted"]
        /\ \/ Created(c) /\ acks' = [acks EXCEPT ![o] = @ \cup {<<s, call[c].payload>>}]
           \/ End(c) /\ UNCHANGED acks
     \/ /\ ~(entry_rows(s) /\ commands[o].state = "creating" /\ rows[s].availability = "creating")
        /\ End(c) /\ UNCHANGED <<rows, commands, acks>>
  /\ UNCHANGED <<required, files, allocated, alarms, Outside>>

\* The file is not this reservation's and never will be.
Fail(c) ==
  LET o == call[c].operation  s == commands[o].session IN
  /\ At(c, "fail") /\ ~required
  /\ IF entry_rows(s) /\ commands[o].state = "creating"
     THEN /\ commands' = [commands EXCEPT ![o].state = "failed"]
          /\ rows' = [rows EXCEPT ![s] = [@ EXCEPT !.availability = "unavailable", !.fault = "integrity"]]
     ELSE UNCHANGED <<rows, commands>>
  /\ End(c)
  /\ UNCHANGED <<required, files, allocated, acks, alarms, Outside>>

-----------------------------------------------------------------------------
(***************************************************************************)
(* open_session and the operations of a handle.                            *)
(***************************************************************************)
open_session(c, s) ==
  /\ Admitted(c) /\ ~required
  /\ entry_rows(s)
  /\ IF rows[s].availability = "creating"
     THEN \E o \in Claims(s) : Become(c, Creation(o, commands[o].payload, TRUE))
     ELSE Become(c, [pc |-> "open", session |-> s])
  /\ UNCHANGED <<Tables, files, allocated, owner, acks, alarms, Outside>>

NextStage(version) == CASE version = 1 -> "migrate" [] version = 2 -> "project" [] OTHER -> "reconcile"

OpenLocked(c) ==
  LET s == Session(c) IN
  /\ At(c, "open") /\ owner[s] = Free
  /\ Raised(s)
  /\ IF connection(s)
     THEN Lock(c, s) /\ Become(c, [pc |-> NextStage(files[s].version), session |-> s])
     ELSE End(c)
  /\ UNCHANGED <<Tables, files, allocated, acks, Outside>>

\* migrate (1 to 2) and project (2 to 3): each rebuilds and marks the version in one transaction.
Upgrade(c) ==
  LET s == Session(c) IN
  /\ At(c, "migrate") \/ At(c, "project")
  /\ \/ /\ Readable(s)
        /\ files' = [files EXCEPT ![s].version = @ + 1]
        /\ \/ /\ Become(c, [pc |-> NextStage(files[s].version + 1), session |-> s])
              /\ UNCHANGED owner
           \/ End(c)
     \/ ~Readable(s) /\ End(c) /\ UNCHANGED files
  /\ UNCHANGED <<Tables, allocated, acks, alarms, Outside>>

\* interruption::reconcile appends when an earlier process left a run unfinished.
Reconcile(c) ==
  LET s == Session(c) IN
  /\ At(c, "reconcile")
  /\ \/ /\ Readable(s)
        /\ \E interruption \in {0, 1} :
             /\ files[s].head + interruption <= MaxHead
             /\ files' = [files EXCEPT ![s].head = @ + interruption]
        /\ handles' = handles \cup {s}
     \/ ~Readable(s) /\ UNCHANGED <<files, handles>>
  /\ End(c)
  /\ UNCHANGED <<Tables, allocated, acks, alarms, up, catalog, away, unsafe, repair, repairs,
                 faults, crashes, touched, forgotten>>

\* rename, an acceptance or an append: checks and commits under the session lock.
Append(c, s) ==
  /\ Admitted(c) /\ s \in handles
  /\ owner[s] = Free
  /\ Raised(s)
  /\ connection(s) => files[s].head < MaxHead
  /\ files' = IF connection(s) THEN [files EXCEPT ![s].head = @ + 1] ELSE files
  /\ UNCHANGED <<Tables, allocated, acks, call, owner, Outside>>

\* refresh_catalog reads the session under its lock, releases the lock and then publishes.
Observe(c, s) ==
  /\ Admitted(c) /\ s \in handles
  /\ owner[s] = Free
  /\ Raised(s)
  /\ IF connection(s)
     THEN Become(c, [pc |-> "publish", session |-> s, head |-> files[s].head, version |-> files[s].version])
     ELSE UNCHANGED call
  /\ UNCHANGED <<Tables, files, allocated, acks, owner, Outside>>

\* Fault: the newest publication wins, whatever it observed.
SupersedesAny(observed, row) == TRUE

\* Fault: an observation that the catalog has already is an older one.
SupersedesStrictly(observed, row) == observed.head > row.head /\ observed.version >= row.version

\* An observation replaces only an older one; the same one again changes nothing.
Supersedes(observed, row) == observed.head >= row.head /\ observed.version >= row.version

\* The session has grown since it was observed.
Overtaken(observed, file) == file.kind = "valid" /\ ~Agrees(file, observed)

\* An observation that is older than the row is answered like a broken session.
publish(c) ==
  LET s == Session(c) IN
  /\ At(c, "publish") /\ ~required
  /\ IF rows[s].availability = "ready" /\ ~Supersedes(call[c], rows[s])
     THEN /\ alarms' = alarms \cup {t \in {s} : ~Overtaken(call[c], files[t])}
          /\ UNCHANGED rows
     ELSE /\ rows' = IF rows[s].availability = "ready"
                     THEN [rows EXCEPT ![s] = [@ EXCEPT !.head = call[c].head, !.version = call[c].version]]
                     ELSE rows
          /\ UNCHANGED alarms
  /\ End(c)
  /\ UNCHANGED <<required, commands, files, allocated, acks, Outside>>

-----------------------------------------------------------------------------
(***************************************************************************)
(* repair_catalog.  The durable intent is set first and cleared last; each *)
(* attempt has an identity of its own and marks the rows it has seen.      *)
(***************************************************************************)
Repairing == up /\ repair.pc = "scan"
Id == repairs
BesidesRepair == <<up, catalog, files, away, unsafe, allocated, call, owner, handles,
                   faults, crashes, acks, alarms, touched, forgotten>>

set_intent ==
  /\ up /\ repair.pc = "idle" /\ \A c \in Callers : call[c].pc = "idle"
  /\ repairs < MaxRepairs
  /\ repairs' = repairs + 1
  /\ required' = TRUE
  /\ repair' = [pc |-> "scan", buckets |-> Buckets, todo |-> {}, disturbed |-> FALSE]
  /\ UNCHANGED <<rows, commands, BesidesRepair>>

\* The scan enters a bucket, or rejects every session it knows in a bucket it must not enter.
ScanBucket(b) ==
  LET Within == {s \in Sessions : Prefix[s] = b} IN
  /\ Repairing /\ repair.todo = {} /\ b \in repair.buckets
  /\ IF b \in unsafe
     THEN /\ rows' = [s \in Sessions |->
                 IF s \in Within /\ rows[s] # NoRow
                 THEN [rows[s] EXCEPT !.availability = "unavailable", !.fault = "unavailable", !.seen = Id]
                 ELSE rows[s]]
          /\ repair' = [repair EXCEPT !.buckets = @ \ {b}]
     ELSE /\ repair' = [repair EXCEPT !.buckets = @ \ {b}, !.todo = {s \in Within : files[s] # NoFile}]
          /\ UNCHANGED rows
  /\ UNCHANGED <<required, commands, repairs, BesidesRepair>>

\* Fault: a claim from an earlier scan counts.
ConflictsEver(o, s) ==
  /\ commands[o].state # "none" /\ commands[o].session # s
  /\ \/ rows[commands[o].session].availability = "ready"
     \/ rows[commands[o].session].fault = "command_conflict"

\* This scan has already validated another session that claims the command.
Conflicts(o, s) ==
  /\ commands[o].state # "none" /\ commands[o].session # s
  /\ rows[commands[o].session].seen = Id
  /\ \/ rows[commands[o].session].availability = "ready"
     \/ rows[commands[o].session].fault = "command_conflict"

RegisteredRow(s) ==
  [availability |-> "ready", head |-> files[s].head, version |-> files[s].version,
   fault |-> "none", seen |-> Id]

\* A valid session is registered under the command in its own provenance.
register(s) ==
  LET o == files[s].operation
      Conflicting(row) == [row EXCEPT !.availability = "unavailable", !.fault = "command_conflict"] IN
  /\ Readable(s)
  /\ IF Conflicts(o, s)
     THEN /\ rows' = [rows EXCEPT ![s] = Conflicting(RegisteredRow(s)), ![commands[o].session] = Conflicting(@)]
          /\ commands' = [commands EXCEPT ![o].state = "failed"]
     ELSE /\ rows' = [rows EXCEPT ![s] = RegisteredRow(s)]
          /\ commands' = [q \in Operations |->
               IF q = o THEN [state |-> "accepted", session |-> s, payload |-> files[s].payload]
               ELSE IF q \in Claims(s) THEN NoCommand ELSE commands[q]]

\* A session that cannot be read keeps what is known of it; one without a database is left alone.
record_fault(s) ==
  /\ ~Readable(s)
  /\ rows' = IF Safe(s) /\ files[s].kind \in {"none", "directory"}
             THEN IF rows[s] = NoRow
                  THEN [rows EXCEPT ![s] = [@ EXCEPT !.availability = "missing", !.fault = "not_found"]]
                  ELSE rows
             ELSE [rows EXCEPT ![s] = [@ EXCEPT !.availability = "unavailable", !.seen = Id,
                     !.fault = IF Safe(s) THEN "integrity" ELSE "unavailable"]]
  /\ UNCHANGED commands

ScanSession(s) ==
  /\ Repairing /\ s \in repair.todo
  /\ register(s) \/ record_fault(s)
  /\ repair' = [repair EXCEPT !.todo = @ \ {s}]
  /\ UNCHANGED <<required, repairs, BesidesRepair>>

\* Fault: every row that the scan has not seen is missing.
ExemptNone(s) == FALSE

\* A reservation that can still materialize its session.
Exempt(s) ==
  rows[s].availability = "creating" /\ \E o \in Claims(s) : commands[o].state = "creating"

\* Only a complete scan infers absence; it clears the intent in the same transaction.
FinishRepair ==
  /\ Repairing /\ repair.buckets = {} /\ repair.todo = {}
  /\ \A s \in Sessions : Exempt(s) => entry_rows(s)
  /\ rows' = [s \in Sessions |->
       IF rows[s] # NoRow /\ rows[s].seen # Id /\ ~Exempt(s)
       THEN [rows[s] EXCEPT !.availability = "missing", !.fault = "not_found"]
       ELSE rows[s]]
  /\ required' = FALSE
  /\ repair' = NoRepair
  /\ UNCHANGED <<commands, repairs, BesidesRepair>>

\* Busy, I/O and uncertain cleanup end an attempt and leave the intent.
RepairFails ==
  /\ Repairing
  /\ repair' = NoRepair
  /\ UNCHANGED <<Tables, repairs, BesidesRepair>>

-----------------------------------------------------------------------------
(***************************************************************************)
(* The process and its files.                                              *)
(***************************************************************************)
Crash ==
  /\ up /\ crashes < MaxCrashes
  /\ crashes' = crashes + 1
  /\ up' = FALSE
  /\ call' = [c \in Callers |-> Idle]
  /\ owner' = [s \in Sessions |-> Free]
  /\ handles' = {} /\ repair' = NoRepair
  /\ UNCHANGED <<catalog, Tables, files, away, unsafe, allocated, repairs, faults,
                 acks, alarms, touched, forgotten>>

surviving_sessions == unsafe # {} \/ \E s \in Sessions : files[s] # NoFile

\* catalog::open creates a lost catalog; one beside surviving sessions requires repair.
Open ==
  /\ ~up /\ catalog # "empty"
  /\ up' = TRUE /\ catalog' = "ready"
  /\ IF catalog = "ready"
     THEN UNCHANGED Tables
     ELSE /\ required' = surviving_sessions
          /\ rows' = [s \in Sessions |-> NoRow]
          /\ commands' = [o \in Operations |-> NoCommand]
  /\ UNCHANGED <<files, away, unsafe, allocated, actors, ghosts>>

\* The process is lost, or initialize fails, when the file has been made.
OpenCrash ==
  /\ ~up /\ catalog = "absent" /\ crashes < MaxCrashes
  /\ crashes' = crashes + 1
  /\ catalog' = "empty"
  /\ UNCHANGED <<up, Tables, files, away, unsafe, allocated, actors, repairs, faults, acks, alarms,
                 touched, forgotten>>

\* An empty catalog is refused by every later open, until other hands remove it.
OpenRefused == ~up /\ catalog = "empty" /\ UNCHANGED vars

Touch(S) ==
  /\ faults < MaxFaults /\ faults' = faults + 1
  /\ touched' = touched \cup S
  /\ repair' = IF repair.pc = "scan" THEN [repair EXCEPT !.disturbed = TRUE] ELSE repair
  /\ UNCHANGED <<up, Tables, allocated, call, owner, handles, repairs, crashes, acks, alarms>>

Damage(s) ==
  /\ files[s].kind \in {"empty", "valid"}
  /\ files' = [files EXCEPT ![s] = DamagedFile]
  /\ Touch({s}) /\ UNCHANGED <<catalog, away, unsafe, forgotten>>

MoveAway(s) ==
  /\ files[s].kind = "valid" /\ away[s] = NoFile
  /\ away' = [away EXCEPT ![s] = files[s]]
  /\ files' = [files EXCEPT ![s] = NoFile]
  /\ Touch({s}) /\ UNCHANGED <<catalog, unsafe, forgotten>>

BringBack(s) ==
  /\ away[s] # NoFile /\ files[s] = NoFile
  /\ files' = [files EXCEPT ![s] = away[s]]
  /\ away' = [away EXCEPT ![s] = NoFile]
  /\ Touch({s}) /\ UNCHANGED <<catalog, unsafe, forgotten>>

Substitute(b) ==
  /\ unsafe' = IF b \in unsafe THEN unsafe \ {b} ELSE unsafe \cup {b}
  /\ Touch({s \in Sessions : Prefix[s] = b}) /\ UNCHANGED <<catalog, files, away, forgotten>>

LoseCatalog ==
  /\ ~up /\ catalog # "absent"
  /\ catalog' = "absent" /\ forgotten' = TRUE
  /\ Touch({}) /\ UNCHANGED <<files, away, unsafe>>

-----------------------------------------------------------------------------
\* An empty root, or one with a ready session that an earlier version has written.
Init ==
  /\ up = FALSE /\ catalog = "ready" /\ required = FALSE
  /\ \E v \in {0} \cup Legacy, o \in Operations, p \in Payloads :
       LET old == v # 0 /\ MaxSessions > 0 IN
       /\ allocated = IF old THEN 1 ELSE 0
       /\ files = [s \in Sessions |-> IF old /\ s = 1 THEN Database(o, p, 1, v) ELSE NoFile]
       /\ rows = [s \in Sessions |-> IF old /\ s = 1 THEN
            [NoRow EXCEPT !.availability = "ready", !.head = 1, !.version = v] ELSE NoRow]
       /\ commands = [q \in Operations |-> IF old /\ q = o THEN
            [state |-> "accepted", session |-> 1, payload |-> p] ELSE NoCommand]
  /\ away = [s \in Sessions |-> NoFile] /\ unsafe = {}
  /\ call = [c \in Callers |-> Idle]
  /\ owner = [s \in Sessions |-> Free]
  /\ handles = {} /\ repair = NoRepair
  /\ repairs = 0 /\ faults = 0 /\ crashes = 0
  /\ acks = [o \in Operations |-> {}]
  /\ alarms = {} /\ touched = {} /\ forgotten = FALSE

\* A catalog that requires repair refuses the operation (and so does the bound on sessions).
Refused(c) ==
  /\ Active(c)
  /\ required \/ (call[c].pc = "reserve" /\ Unreserved(call[c].operation) /\ allocated = MaxSessions)
  /\ End(c)
  /\ UNCHANGED <<Tables, files, allocated, acks, alarms, Outside>>

Step(c) ==
  \/ Reserve(c) \/ ReserveAgain(c) \/ EnterCreation(c) \/ Place(c) \/ Initialize(c)
  \/ Complete(c) \/ Fail(c) \/ OpenLocked(c) \/ Upgrade(c) \/ Reconcile(c) \/ publish(c)
  \/ Refused(c)

Begin(c) ==
  \/ \E o \in Operations, p \in Payloads : create_session(c, o, p)
  \/ \E s \in Sessions : open_session(c, s) \/ Append(c, s) \/ Observe(c, s)

Repair ==
  \/ set_intent \/ FinishRepair \/ RepairFails
  \/ \E b \in Buckets : ScanBucket(b)
  \/ \E s \in Sessions : ScanSession(s)

Environment ==
  \/ Crash \/ Open \/ OpenCrash \/ OpenRefused \/ LoseCatalog
  \/ \E s \in Sessions : Damage(s) \/ MoveAway(s) \/ BringBack(s)
  \/ \E b \in Buckets : Substitute(b)

Next ==
  \/ \E c \in Callers : Begin(c) \/ Step(c) \/ Fails(c)
  \/ Repair
  \/ Environment

Spec == Init /\ [][Next]_vars

-----------------------------------------------------------------------------
(***************************************************************************)
(* Properties.                                                             *)
(***************************************************************************)

\* All answers to one creation command name one session and one request (reserve, create),
\* through retries, concurrent duplicates, crashes and repairs, and that session's database
\* is on disk with the command in its provenance.  A creation that did not finish can be
\* resumed (reserve, finish): its row stays as it was reserved, unless a repair has met the
\* database file before it was initialized.
CreationsAreKept ==
  \A o \in Operations :
    /\ \A a, b \in acks[o] :
         /\ ~forgotten => a = b
         /\ a[1] \notin touched =>
              /\ files[a[1]].kind = "valid"
              /\ files[a[1]].operation = o /\ files[a[1]].payload = a[2]
    /\ commands[o].state = "creating" /\ commands[o].session \notin touched =>
         \/ rows[commands[o].session].availability = "creating"
         \/ files[commands[o].session] = EmptyFile

\* Neither a session nor what the catalog says of it goes back: no creation, migration or
\* append replaces or shortens a history (materialize, initialize, migrate), and publications
\* and repairs keep the newest observation (publish), however they interleave.  So the checks
\* between catalog and session (session::connection) never report a session that nobody but
\* the store has written, and a refresh is refused like that only when the session has grown
\* since the refresh observed it.
NeverGoesBack ==
  [][/\ alarms' \subseteq touched'
     /\ \A s \in Sessions \ touched' :
          /\ files[s].kind = "valid" =>
               /\ files'[s].kind = "valid"
               /\ files'[s].operation = files[s].operation
               /\ files'[s].head >= files[s].head /\ files'[s].version >= files[s].version
          /\ rows[s].availability = "ready" /\ rows'[s].availability = "ready" =>
               rows'[s].head >= rows[s].head /\ rows'[s].version >= rows[s].version]_vars

\* The same without the exception: what the recovery tests expect of a reservation.
ReservationsSurvive ==
  \A o \in Operations :
    commands[o].state = "creating" /\ commands[o].session \notin touched =>
      rows[commands[o].session].availability = "creating"

Rivals(s) == {t \in Sessions : Readable(t) /\ files[t].operation = files[s].operation}

\* What a complete scan makes of a session, whatever the catalog held before.
Rebuilt(s) ==
  LET row == rows'[s] IN
  IF Readable(s)
  THEN IF Rivals(s) = {s}
       THEN /\ row.availability = "ready" /\ row.head = files[s].head /\ row.version = files[s].version
            /\ commands'[files[s].operation] =
                 [state |-> "accepted", session |-> s, payload |-> files[s].payload]
       ELSE /\ row.availability = "unavailable" /\ row.fault = "command_conflict"
            /\ commands'[files[s].operation].state = "failed"
  ELSE IF Safe(s) /\ files[s].kind \in {"none", "directory"}
  THEN row.availability \in {"absent", "missing"} \/ (row.availability = "creating" /\ row = rows[s])
  ELSE row.availability \in {"absent", "unavailable"}

\* A repair that finishes leaves the catalog that the files alone determine (register,
\* record_fault, reject_bucket, finish), in whatever order it met them and whatever earlier
\* attempts left behind.
RepairRebuilds ==
  [][repair.pc = "scan" /\ ~repair.disturbed /\ required /\ ~required' =>
       \A s \in Sessions : Rebuilt(s)]_vars
=============================================================================
