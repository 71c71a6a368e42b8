--------------------------- MODULE CatalogProofs ---------------------------
(***************************************************************************)
(* The properties of Catalog, for any callers, commands, sessions and      *)
(* bounds: creations are kept, nothing goes back, and a repair that        *)
(* finishes leaves what the files determine.                               *)
(***************************************************************************)
EXTENDS Catalog, TLAPS

\* Most steps are first-order; the ones with arithmetic or records cite SMT.
USE ZenonT(60)

-----------------------------------------------------------------------------
(***************************************************************************)
(* The invariant.                                                          *)
(***************************************************************************)

\* The stages of a creation, those of them after the reservation, the stages of an
\* operation on a session, and those at which an operation holds the lock of one.
Creating == {"reserve", "enter", "place", "initialize", "complete", "fail"}
Reserved == Creating \ {"reserve"}
Opening == {"open", "migrate", "project", "reconcile", "publish"}
Holding == {"place", "initialize", "complete", "fail", "migrate", "project", "reconcile"}

CreationFields == {"pc", "operation", "payload", "opening", "head", "version"}
DatabaseFields == {"kind", "operation", "payload", "head", "version"}
CommandFields == {"state", "session", "payload"}
RowFields == {"availability", "head", "version", "fault", "seen"}
RepairFields == {"pc", "buckets", "todo", "disturbed"}

\* Records are typed field by field, as far as the proofs need it.
IsFile(f) ==
  IF f.kind = "valid"
  THEN /\ DOMAIN f = DatabaseFields /\ f.operation \in Operations
       /\ f.payload \in Payloads /\ f.head \in Nat /\ f.version \in Nat
  ELSE f \in {NoFile, OnlyDirectory, EmptyFile, DamagedFile}

IsCommand(k) ==
  k.state # "none" => DOMAIN k = CommandFields /\ k.session \in Sessions /\ k.payload \in Payloads

IsRow(r) ==
  /\ DOMAIN r = RowFields
  /\ r.availability \in {"absent", "creating", "ready", "missing", "unavailable"}
  /\ r.head \in Nat /\ r.version \in Nat /\ r.seen \in Nat
  /\ r.availability = "absent" => r = NoRow
  /\ r.availability = "creating" => r.seen = 0

IsCall(r) ==
  /\ r.pc \in {"idle"} \cup Creating \cup Opening
  /\ r.pc \in Creating => /\ DOMAIN r = CreationFields /\ r.operation \in Operations
                          /\ r.payload \in Payloads /\ r.head \in Nat /\ r.version \in Nat
  /\ r.pc \in Opening => r.session \in Sessions
  /\ r.pc = "publish" => r.head \in Nat /\ r.version \in Nat

StoreTyped ==
  /\ DOMAIN files = Sessions /\ \A s \in Sessions : IsFile(files[s])
  /\ DOMAIN away = Sessions /\ \A s \in Sessions : IsFile(away[s])
  /\ DOMAIN commands = Operations /\ \A o \in Operations : IsCommand(commands[o])
  /\ DOMAIN rows = Sessions /\ \A s \in Sessions : IsRow(rows[s])
  /\ acks \in [Operations -> SUBSET (Sessions \X Payloads)]
  /\ allocated \in Nat /\ repairs \in Nat
  /\ alarms \subseteq Sessions

ActorsTyped ==
  /\ DOMAIN call = Callers /\ \A c \in Callers : IsCall(call[c])
  /\ DOMAIN owner = Sessions

Typed == StoreTyped /\ ActorsTyped

\* No operation is under way in a process that is gone, or during a repair.
QuietInv ==
  /\ ~up => repair.pc = "idle"
  /\ ~up \/ repair.pc # "idle" => \A c \in Callers : call[c].pc = "idle"
  /\ repair.pc # "idle" => repair.pc = "scan" /\ DOMAIN repair = RepairFields /\ required /\ repairs > 0

LockInv == \A s \in Sessions : owner[s] # Free => owner[s] \in Callers /\ call[owner[s]].pc \in Holding

\* What is known somewhere of the creation of a session: by its database, by a database
\* that was moved away, by the catalog or by a caller who was answered.
Evidence(s, o, p) ==
  \/ files[s].kind = "valid" /\ files[s].operation = o /\ files[s].payload = p
  \/ away[s].kind = "valid" /\ away[s].operation = o /\ away[s].payload = p
  \/ commands[o].state # "none" /\ commands[o].session = s /\ commands[o].payload = p
  \/ <<s, p>> \in acks[o]

\* A session is created by one command, once, and the catalog knows the command unless it was lost.
EvidenceInv ==
  \A s \in Sessions, o \in Operations, p \in Payloads : Evidence(s, o, p) =>
    /\ s <= allocated
    /\ \A q \in Operations, r \in Payloads : Evidence(s, q, r) => q = o /\ r = p
    /\ ~forgotten => commands[o].state # "none" /\ commands[o].session = s

\* An observation of a session is not ahead of its database.
NotAhead(r, f) == f.kind = "valid" /\ Agrees(r, f)

\* A creation past its reservation has a command in the catalog, and its row is there as long
\* as the command is open; what a caller is going to publish was observed.  A session that
\* other hands have touched is excepted, here and below.
CallOK(c) ==
  /\ call[c].pc \in Reserved =>
       LET k == commands[call[c].operation] IN
       /\ k.state # "none" /\ k.payload = call[c].payload
       /\ k.state = "creating" => rows[k.session].availability = "creating"
       /\ call[c].pc = "complete" /\ k.session \notin touched => NotAhead(call[c], files[k.session])
  /\ call[c].pc = "publish" /\ call[c].session \notin touched =>
       NotAhead(call[c], files[call[c].session])

CallInv == \A c \in Callers : CallOK(c)

\* Rows are not ahead of the sessions, and no session is damaged or reported as broken.
SessionInv ==
  \A s \in Sessions :
    /\ rows[s].availability = "ready" /\ s \notin touched => NotAhead(rows[s], files[s])
    /\ ~Safe(s) \/ files[s] = DamagedFile => s \in touched
    /\ s \in alarms => s \in touched

\* Accepted commands have a database; open ones have a row or, after a repair has met it, an
\* empty file; and what was acknowledged is there.
CommandInv ==
  \A o \in Operations :
    /\ commands[o].state = "accepted" /\ commands[o].session \notin touched =>
         files[commands[o].session].kind = "valid"
    /\ commands[o].state = "creating" /\ commands[o].session \notin touched =>
         \/ rows[commands[o].session].availability = "creating"
         \/ files[commands[o].session] = EmptyFile
    /\ \A a \in acks[o] : a[1] \notin touched => files[a[1]].kind = "valid"

\* Outside of repairs no entry of the catalog contradicts itself.
EntryInv == ~required => \A s \in Sessions : ~BadEntry(s)

\* The row was written by the current attempt.
Current(s) == rows[s].seen = Id

\* A session that the scan has registered keeps its command.
ScanInv ==
  repair.pc = "scan" =>
    \A s \in Sessions : Current(s) /\ rows[s].availability = "ready" =>
      \E o \in Operations : commands[o].state = "accepted" /\ commands[o].session = s

\* Attempts are numbered.
SeenInv == \A s \in Sessions : rows[s].seen <= repairs

\* The scan is done with the session; t is one that it has registered under the same command.
Done(s) == Prefix[s] \notin repair.buckets /\ s \notin repair.todo
Rival(s, t) == Done(t) /\ Readable(t) /\ files[t].operation = files[s].operation

\* What the scan makes of a session: its row is written when its turn has come,
Marked(s) ==
  /\ s \in repair.todo => Prefix[s] \notin repair.buckets
  /\ Current(s) =>
       /\ Done(s)
       /\ rows[s].availability = "ready" \/ rows[s].fault = "command_conflict" => Readable(s)

\* it is registered, or in conflict with those that claim the same command,
Registered(s) ==
  /\ \A t \in Sessions : Rival(s, t) => t = s
  /\ rows[s].availability = "ready"
  /\ rows[s].head = files[s].head /\ rows[s].version = files[s].version
  /\ commands[files[s].operation] = [state |-> "accepted", session |-> s, payload |-> files[s].payload]

InConflict(s) ==
  /\ \E t \in Sessions : Rival(s, t) /\ t # s
  /\ rows[s].availability = "unavailable" /\ rows[s].fault = "command_conflict"
  /\ commands[files[s].operation].state = "failed"
  /\ \E t \in Sessions : Rival(s, t) /\ commands[files[s].operation].session = t

Validated(s) == Done(s) /\ Readable(s) => Current(s) /\ (Registered(s) \/ InConflict(s))

\* or it cannot be read.
Unread(s) ==
  Done(s) /\ ~Readable(s) =>
    IF Safe(s) /\ files[s].kind \in {"none", "directory"}
    THEN ~Current(s)
    ELSE rows[s] = NoRow \/ (rows[s].availability = "unavailable" /\ Current(s))

\* As long as nobody disturbs it, the scan makes of a session what the sessions that it has
\* met so far determine.
RebuildInv ==
  repair.pc = "scan" /\ ~repair.disturbed =>
    \A s \in Sessions : Marked(s) /\ Validated(s) /\ Unread(s)

\* A catalog that is gone is one that was lost.
LostInv == catalog # "ready" => forgotten

ActorInv == QuietInv /\ LockInv /\ CallInv
StoreInv == EvidenceInv /\ SessionInv /\ CommandInv /\ EntryInv /\ SeenInv /\ LostInv
RepairInv == ScanInv /\ RebuildInv
IInv == ActorInv /\ StoreInv /\ RepairInv

-----------------------------------------------------------------------------
(***************************************************************************)
(* The records of operations and files.                                    *)
(***************************************************************************)

\* The records of operations are typed at every stage.
LEMMA IdleCall == IsCall(Idle) /\ Idle.pc = "idle"
  BY DEF IsCall, Idle, Creating, Opening

LEMMA CreationCall ==
  ASSUME NEW o \in Operations, NEW p \in Payloads, NEW opening
  PROVE  IsCall(Creation(o, p, opening)) /\ Creation(o, p, opening).pc = "reserve"
  <1> DEFINE r == Creation(o, p, opening)
  <1>1. DOMAIN r = CreationFields
    BY SMT DEF Creation, CreationFields
  <1>2. r.pc = "reserve" /\ r.operation = o /\ r.payload = p /\ r.head = 0 /\ r.version = 1
    BY DEF Creation
  <1>3. r.head \in Nat /\ r.version \in Nat
    BY <1>2, SMT
  <1> HIDE DEF r
  <1>4. IsCall(r)
    BY <1>1, <1>2, <1>3 DEF IsCall, Creating, Opening
  <1> QED
    BY <1>2, <1>4 DEF r

LEMMA OpeningCall ==
  ASSUME NEW s \in Sessions, NEW pc \in {"open", "migrate", "project", "reconcile"}
  PROVE  /\ IsCall([pc |-> pc, session |-> s])
         /\ [pc |-> pc, session |-> s].pc = pc /\ [pc |-> pc, session |-> s].session = s
  BY DEF IsCall, Creating, Opening

LEMMA PublishCall ==
  ASSUME NEW s \in Sessions, NEW h \in Nat, NEW v \in Nat
  PROVE  LET r == [pc |-> "publish", session |-> s, head |-> h, version |-> v] IN
         IsCall(r) /\ r.pc = "publish" /\ r.session = s /\ r.head = h /\ r.version = v
  BY DEF IsCall, Creating, Opening

LEMMA CreationMoves ==
  ASSUME NEW r, IsCall(r), r.pc \in Creating, NEW pc \in Creating
  PROVE  LET n == [r EXCEPT !.pc = pc] IN
         IsCall(n) /\ n.pc = pc /\ n.operation = r.operation /\ n.payload = r.payload
  <1> DEFINE n == [r EXCEPT !.pc = pc]
  <1>1. DOMAIN r = CreationFields /\ r.operation \in Operations
        /\ r.payload \in Payloads /\ r.head \in Nat /\ r.version \in Nat
    BY DEF IsCall
  <1>2. /\ DOMAIN n = CreationFields /\ n.pc = pc /\ n.operation = r.operation
        /\ n.payload = r.payload /\ n.head = r.head /\ n.version = r.version
    BY <1>1, SMT DEF CreationFields
  <1> HIDE DEF n
  <1>3. pc \notin Opening
    BY DEF Creating, Opening
  <1>4. IsCall(n)
    BY <1>1, <1>2, <1>3 DEF IsCall, Opening
  <1> QED
    BY <1>2, <1>4 DEF n

Found(r, h, v) == [r EXCEPT !.pc = "complete", !.head = h, !.version = v]

LEMMA CreationFound ==
  ASSUME NEW r, IsCall(r), r.pc \in Creating, NEW h \in Nat, NEW v \in Nat
  PROVE  /\ IsCall(Found(r, h, v)) /\ Found(r, h, v).pc = "complete"
         /\ Found(r, h, v).operation = r.operation /\ Found(r, h, v).payload = r.payload
         /\ Found(r, h, v).head = h /\ Found(r, h, v).version = v
  <1> DEFINE n == Found(r, h, v)
  <1>1. DOMAIN r = CreationFields /\ r.operation \in Operations /\ r.payload \in Payloads
    BY DEF IsCall
  <1>2. /\ DOMAIN n = CreationFields /\ n.pc = "complete" /\ n.operation = r.operation
        /\ n.payload = r.payload /\ n.head = h /\ n.version = v
    BY <1>1, SMT DEF CreationFields, Found
  <1>3. IsCall(n)
    BY <1>1, <1>2 DEF IsCall, Creating, Opening
  <1> QED
    BY <1>2, <1>3

\* What a file is without a database, and with one.
LEMMA FileFacts ==
  /\ NoFile.kind = "none" /\ OnlyDirectory.kind = "directory" /\ EmptyFile.kind = "empty"
  /\ DamagedFile.kind = "damaged"
  /\ \A f \in {NoFile, OnlyDirectory, EmptyFile, DamagedFile} : f.kind # "valid" /\ IsFile(f)
  <1>1. /\ NoFile.kind = "none" /\ OnlyDirectory.kind = "directory" /\ EmptyFile.kind = "empty"
        /\ DamagedFile.kind = "damaged"
    BY DEF NoFile, OnlyDirectory, EmptyFile, DamagedFile
  <1>2. \A f \in {NoFile, OnlyDirectory, EmptyFile, DamagedFile} : f.kind # "valid"
    BY <1>1
  <1> QED
    BY <1>1, <1>2 DEF IsFile

LEMMA DatabaseFacts ==
  ASSUME NEW o \in Operations, NEW p \in Payloads, NEW h, NEW v, h \in Nat, v \in Nat
  PROVE  LET f == Database(o, p, h, v) IN
         /\ IsFile(f) /\ f.kind = "valid" /\ f.operation = o /\ f.payload = p
         /\ f.head = h /\ f.version = v
  <1> DEFINE f == Database(o, p, h, v)
  <1>1. DOMAIN f = DatabaseFields
    BY SMT DEF Database, DatabaseFields
  <1>2. f.kind = "valid" /\ f.operation = o /\ f.payload = p /\ f.head = h /\ f.version = v
    BY DEF Database
  <1> HIDE DEF f
  <1>3. IsFile(f)
    BY <1>1, <1>2 DEF IsFile
  <1> QED
    BY <1>2, <1>3 DEF f

\* A database grows: an append or an interruption, or a migration.
Longer(f, d) == [f EXCEPT !.head = @ + d]
Newer(f) == [f EXCEPT !.version = @ + 1]

\* A database that grows keeps its provenance.
LEMMA DatabaseGrows ==
  ASSUME NEW f, IsFile(f), f.kind = "valid", NEW d \in Nat, NEW g \in {Longer(f, d), Newer(f)}
  PROVE  /\ IsFile(g) /\ g.kind = "valid" /\ g.operation = f.operation /\ g.payload = f.payload
         /\ g.head >= f.head /\ g.version >= f.version
  <1>1. /\ DOMAIN f = DatabaseFields /\ f.operation \in Operations /\ f.payload \in Payloads
        /\ f.head \in Nat /\ f.version \in Nat
    BY DEF IsFile
  <1>2. CASE g = Longer(f, d)
    <2>1. /\ DOMAIN g = DatabaseFields /\ g.kind = "valid" /\ g.operation = f.operation
          /\ g.payload = f.payload /\ g.head = f.head + d /\ g.version = f.version
      BY <1>1, <1>2, SMT DEF DatabaseFields, Longer
    <2>2. g.head \in Nat /\ g.version \in Nat /\ g.head >= f.head /\ g.version >= f.version
      BY <1>1, <2>1, SMT
    <2> QED
      BY <1>1, <2>1, <2>2 DEF IsFile
  <1>3. CASE g = Newer(f)
    <2>1. /\ DOMAIN g = DatabaseFields /\ g.kind = "valid" /\ g.operation = f.operation
          /\ g.payload = f.payload /\ g.head = f.head /\ g.version = f.version + 1
      BY <1>1, <1>3, SMT DEF DatabaseFields, Newer
    <2>2. g.head \in Nat /\ g.version \in Nat /\ g.head >= f.head /\ g.version >= f.version
      BY <1>1, <2>1, SMT
    <2> QED
      BY <1>1, <2>1, <2>2 DEF IsFile
  <1> QED
    BY <1>2, <1>3

\* An observation stays true of a database that grows.
LEMMA StillNotAhead ==
  ASSUME NEW r, r.head \in Nat, r.version \in Nat, NEW f, IsFile(f), NotAhead(r, f),
         NEW g, IsFile(g), g.kind = "valid", g.head >= f.head, g.version >= f.version
  PROVE  NotAhead(r, g)
  <1>1. f.kind = "valid" /\ f.head \in Nat /\ f.version \in Nat /\ g.head \in Nat /\ g.version \in Nat
    BY DEF IsFile, NotAhead
  <1>2. r.head <= f.head /\ r.version <= f.version
    BY DEF NotAhead, Agrees
  <1>3. r.head <= g.head /\ r.version <= g.version
    BY <1>1, <1>2, SMT
  <1> QED
    BY <1>3 DEF NotAhead, Agrees

-----------------------------------------------------------------------------
(***************************************************************************)
(* What steps leave alone.                                                 *)
(***************************************************************************)

\* The databases that nobody else touches only grow.
FilesGrow ==
  /\ touched \subseteq touched'
  /\ \A s \in Sessions : s \notin touched' /\ files[s].kind = "valid" =>
       /\ files'[s].kind = "valid" /\ files'[s].operation = files[s].operation
       /\ files'[s].payload = files[s].payload
       /\ files'[s].head >= files[s].head /\ files'[s].version >= files[s].version
  /\ \A s \in Sessions : s \notin touched' /\ files'[s] = DamagedFile => files[s] = DamagedFile

\* So do the observations in the catalog.
RowsGrow ==
  \A s \in Sessions : s \notin touched' /\ rows[s].availability = "ready" /\ rows'[s].availability = "ready" =>
    rows'[s].head >= rows[s].head /\ rows'[s].version >= rows[s].version

\* What is shown of every step.
Kept == Typed' /\ IInv' /\ FilesGrow /\ RowsGrow

\* Commands stay with their session and request; an open one keeps its row.
CommandsKept ==
  \A o \in Operations : commands[o].state # "none" =>
    /\ commands'[o].state # "none" /\ commands'[o].session = commands[o].session
    /\ commands'[o].payload = commands[o].payload
    /\ commands'[o].state = "creating" =>
         /\ commands[o].state = "creating"
         /\ rows[commands[o].session].availability = "creating" =>
              rows'[commands[o].session].availability = "creating"

FilesTyped == DOMAIN files' = Sessions /\ \A s \in Sessions : IsFile(files'[s])

LEMMA FilesSame ==
  ASSUME Typed, UNCHANGED files, touched \subseteq touched'
  PROVE  FilesGrow /\ FilesTyped
  <1>1. \A s \in Sessions : files[s].kind = "valid" =>
          files[s].head >= files[s].head /\ files[s].version >= files[s].version
    <2>1. \A n \in Nat : n >= n
      BY SMT
    <2> QED
      BY <2>1 DEF Typed, StoreTyped, ActorsTyped, IsFile
  <1> QED
    BY <1>1 DEF FilesGrow, FilesTyped, Typed, StoreTyped, ActorsTyped

\* Rows that are not written do not go back.
LEMMA RowsSame ==
  ASSUME StoreTyped, \A s \in Sessions : rows'[s].availability = "ready" => rows'[s] = rows[s]
  PROVE  RowsGrow
  <1>1. \A n \in Nat : n >= n
    BY SMT
  <1>2. \A s \in Sessions : rows[s].head \in Nat /\ rows[s].version \in Nat
    BY DEF StoreTyped, IsRow
  <1> QED
    BY <1>1, <1>2 DEF RowsGrow

LEMMA TablesSame ==
  ASSUME UNCHANGED <<rows, commands>>
  PROVE  CommandsKept
  BY DEF CommandsKept

\* An operation that waits keeps what it relies on: its command, its row and what it observed.
LEMMA OtherCalls ==
  ASSUME Typed, CallInv, FilesGrow, FilesTyped, CommandsKept,
         NEW d \in Callers, call'[d] = call[d]
  PROVE  CallOK(d)'
  <1> DEFINE o == call[d].operation
             s == call[d].session
  <1>1. ASSUME call[d].pc \in Reserved
        PROVE  /\ commands'[o].state # "none" /\ commands'[o].payload = call[d].payload
               /\ commands'[o].state = "creating" =>
                    rows'[commands'[o].session].availability = "creating"
               /\ call[d].pc = "complete" /\ commands'[o].session \notin touched' =>
                    NotAhead(call[d], files'[commands'[o].session])
    <2>1. /\ o \in Operations /\ call[d].head \in Nat /\ call[d].version \in Nat
      BY <1>1 DEF Typed, StoreTyped, ActorsTyped, IsCall, Reserved
    <2>2. /\ commands[o].state # "none" /\ commands[o].payload = call[d].payload
          /\ commands[o].state = "creating" => rows[commands[o].session].availability = "creating"
          /\ call[d].pc = "complete" /\ commands[o].session \notin touched =>
               NotAhead(call[d], files[commands[o].session])
      BY <1>1 DEF CallInv, CallOK
    <2>3. commands[o].session \in Sessions
      BY <2>1, <2>2 DEF Typed, StoreTyped, ActorsTyped, IsCommand
    <2>4. /\ commands'[o].state # "none" /\ commands'[o].session = commands[o].session
          /\ commands'[o].payload = call[d].payload
          /\ commands'[o].state = "creating" =>
               rows'[commands[o].session].availability = "creating"
      BY <2>1, <2>2 DEF CommandsKept
    <2>5. ASSUME call[d].pc = "complete", commands[o].session \notin touched'
          PROVE  NotAhead(call[d], files'[commands[o].session])
      <3>1. commands[o].session \notin touched
        BY <2>5 DEF FilesGrow
      <3>2. NotAhead(call[d], files[commands[o].session]) /\ files[commands[o].session].kind = "valid"
        BY <2>2, <2>5, <3>1 DEF NotAhead
      <3> QED
        BY <2>1, <2>3, <2>5, <3>2, StillNotAhead DEF FilesGrow, FilesTyped, Typed, StoreTyped, ActorsTyped
    <2> QED
      BY <2>4, <2>5
  <1>2. ASSUME call[d].pc = "publish", s \notin touched'
        PROVE  NotAhead(call[d], files'[s])
    <2>1. s \in Sessions /\ call[d].head \in Nat /\ call[d].version \in Nat
      BY <1>2 DEF Typed, StoreTyped, ActorsTyped, IsCall, Opening
    <2>2. s \notin touched
      BY <1>2 DEF FilesGrow
    <2>3. NotAhead(call[d], files[s]) /\ files[s].kind = "valid"
      BY <1>2, <2>2 DEF CallInv, CallOK, NotAhead
    <2> QED
      BY <1>2, <2>1, <2>3, StillNotAhead DEF FilesGrow, FilesTyped, Typed, StoreTyped, ActorsTyped
  <1> QED
    BY <1>1, <1>2 DEF CallOK

CallsTyped == DOMAIN call' = Callers /\ \A d \in Callers : IsCall(call'[d])

\* One operation goes on and the others stay where they are.
LEMMA CallStep ==
  ASSUME Typed, CallInv, FilesGrow, FilesTyped, CommandsKept, NEW c \in Callers, NEW r, Become(c, r),
         IsCall(r), r.pc \in Reserved \cup {"publish"} => CallOK(c)'
  PROVE  CallsTyped /\ CallInv' /\ call'[c] = r /\ \A d \in Callers : d # c => call'[d] = call[d]
  <1>1. DOMAIN call' = Callers /\ call'[c] = r /\ \A d \in Callers : d # c => call'[d] = call[d]
    BY DEF Become, Typed, StoreTyped, ActorsTyped
  <1>2. CallsTyped
    BY <1>1 DEF CallsTyped, Typed, StoreTyped, ActorsTyped
  <1>3. CallOK(c)'
    <2>1. CASE r.pc \in Reserved \cup {"publish"}
      BY <2>1
    <2>2. CASE r.pc \notin Reserved \cup {"publish"}
      BY <1>1, <2>2 DEF CallOK
    <2> QED
      BY <2>1, <2>2
  <1>4. CallInv'
    BY <1>1, <1>3, OtherCalls DEF CallInv
  <1> QED
    BY <1>1, <1>2, <1>4

LEMMA CallsStay ==
  ASSUME Typed, CallInv, FilesGrow, FilesTyped, CommandsKept, UNCHANGED call
  PROVE  CallsTyped /\ CallInv'
  BY OtherCalls DEF CallInv, CallsTyped, Typed, StoreTyped, ActorsTyped

\* Where no operation is under way there is nothing to keep.
LEMMA CallsQuiet ==
  ASSUME Typed, \A d \in Callers : call[d].pc = "idle", UNCHANGED call
  PROVE  CallsTyped /\ CallInv'
  BY DEF CallInv, CallOK, CallsTyped, Typed, StoreTyped, ActorsTyped, Reserved, Creating

\* A lock is held by an operation at one of the stages inside of it.
LEMMA LockStep ==
  ASSUME Typed, LockInv, NEW c \in Callers, NEW r, Become(c, r), DOMAIN owner' = Sessions,
         \A s \in Sessions : owner'[s] # Free =>
           \/ owner'[s] = owner[s] /\ owner[s] # c
           \/ owner'[s] = c /\ r.pc \in Holding
  PROVE  LockInv'
  BY DEF LockInv, Become, Typed, StoreTyped, ActorsTyped

LEMMA Releases ==
  ASSUME Typed, LockInv, NEW c \in Callers, NEW r, Become(c, r), owner' = Released(c)
  PROVE  LockInv' /\ DOMAIN owner' = Sessions
  <1>1. DOMAIN owner' = Sessions
    BY DEF Released
  <1>2. \A s \in Sessions : owner'[s] # Free => owner'[s] = owner[s] /\ owner[s] # c
    BY DEF Released
  <1> QED
    BY <1>1, <1>2, LockStep

LEMMA Retains ==
  ASSUME Typed, LockInv, NEW c \in Callers, NEW r, Become(c, r), UNCHANGED owner,
         r.pc \in Holding \/ call[c].pc \notin Holding
  PROVE  LockInv' /\ DOMAIN owner' = Sessions
  <1>1. DOMAIN owner' = Sessions
    BY DEF Typed, StoreTyped, ActorsTyped
  <1>2. \A s \in Sessions : owner[s] # Free => owner[s] # c \/ r.pc \in Holding
    BY DEF LockInv
  <1> QED
    BY <1>1, <1>2, LockStep

LEMMA Takes ==
  ASSUME Typed, LockInv, NEW c \in Callers, NEW s \in Sessions, NEW r, Become(c, r), Lock(c, s),
         r.pc \in Holding
  PROVE  LockInv' /\ DOMAIN owner' = Sessions
  <1>1. DOMAIN owner' = Sessions /\ owner'[s] = c /\ \A t \in Sessions : t # s => owner'[t] = owner[t]
    BY DEF Lock, Typed, StoreTyped, ActorsTyped
  <1>2. \A t \in Sessions : owner'[t] # Free =>
           \/ owner'[t] = owner[t] /\ owner[t] # c
           \/ owner'[t] = c /\ r.pc \in Holding
    BY <1>1
  <1> QED
    BY <1>1, <1>2, LockStep

\* Where no repair runs, before or after the step.
LEMMA NoScan ==
  ASSUME up', repair'.pc = "idle"
  PROVE  QuietInv' /\ ScanInv' /\ RebuildInv'
  BY DEF QuietInv, ScanInv, RebuildInv

LEMMA NoScanning ==
  ASSUME QuietInv, NEW c \in Callers, Active(c)
  PROVE  up /\ repair.pc = "idle"
  BY DEF QuietInv, Active

\* Nothing new is known of any creation.
NothingNew ==
  /\ \A s \in Sessions : files'[s].kind = "valid" => Evidence(s, files'[s].operation, files'[s].payload)
  /\ \A s \in Sessions : away'[s].kind = "valid" => Evidence(s, away'[s].operation, away'[s].payload)
  /\ \A o \in Operations : commands'[o].state # "none" =>
       Evidence(commands'[o].session, o, commands'[o].payload)
  /\ \A o \in Operations, s \in Sessions, p \in Payloads : <<s, p>> \in acks'[o] => Evidence(s, o, p)

\* The catalog keeps what it knows of creations, or is lost.
Remembers ==
  ~forgotten' => /\ ~forgotten
                 /\ \A o \in Operations : commands[o].state # "none" =>
                      commands'[o].state # "none" /\ commands'[o].session = commands[o].session

\* No step turns up a creation that was not known before, or loses one from the catalog.
LEMMA EvidenceKept ==
  ASSUME EvidenceInv, NothingNew, Remembers, allocated' = allocated
  PROVE  EvidenceInv'
  <1>1. ASSUME NEW s \in Sessions, NEW o \in Operations, NEW p \in Payloads, Evidence(s, o, p)'
        PROVE  Evidence(s, o, p)
    BY <1>1 DEF NothingNew, Evidence
  <1>2. ASSUME NEW s \in Sessions, NEW o \in Operations, NEW p \in Payloads, Evidence(s, o, p)'
        PROVE  /\ s <= allocated'
               /\ \A q \in Operations, r \in Payloads : Evidence(s, q, r)' => q = o /\ r = p
               /\ ~forgotten' => commands'[o].state # "none" /\ commands'[o].session = s
    <2>1. Evidence(s, o, p)
      BY <1>1, <1>2
    <2>2. s <= allocated'
      BY <2>1 DEF EvidenceInv
    <2>3. ASSUME NEW q \in Operations, NEW r \in Payloads, Evidence(s, q, r)'
          PROVE  q = o /\ r = p
      <3>1. Evidence(s, q, r)
        BY <1>1, <2>3
      <3> QED
        BY <2>1, <3>1 DEF EvidenceInv
    <2>4. ~forgotten' => commands'[o].state # "none" /\ commands'[o].session = s
      BY <2>1 DEF EvidenceInv, Remembers
    <2> QED
      BY <2>2, <2>3, <2>4
  <1> QED
    BY <1>2 DEF EvidenceInv

\* A session was created by one command with one payload.
LEMMA OneCreation ==
  ASSUME EvidenceInv, NEW s \in Sessions, NEW o \in Operations, NEW p \in Payloads, Evidence(s, o, p),
         NEW q \in Operations, NEW r \in Payloads, Evidence(s, q, r)
  PROVE  q = o /\ r = p
  BY DEF EvidenceInv

\* Only creations that were accepted are answered with their session.
AcksFrom ==
  /\ acks' \in [Operations -> SUBSET (Sessions \X Payloads)]
  /\ \A o \in Operations, s \in Sessions, p \in Payloads : <<s, p>> \in acks'[o] =>
       \/ <<s, p>> \in acks[o]
       \/ commands'[o].state = "accepted" /\ commands'[o].session = s /\ commands'[o].payload = p

LEMMA AcksSame ==
  ASSUME StoreTyped, UNCHANGED acks
  PROVE  AcksFrom
  BY DEF AcksFrom, StoreTyped

\* What was answered is on disk.
LEMMA AcksStep ==
  ASSUME StoreTyped, CommandInv, FilesGrow, AcksFrom,
         \A o \in Operations : commands'[o].state = "accepted" /\ commands'[o].session \notin touched' =>
           files'[commands'[o].session].kind = "valid",
         NEW o \in Operations, NEW a \in acks'[o], a[1] \notin touched'
  PROVE  files'[a[1]].kind = "valid"
  <1>1. a \in Sessions \X Payloads
    BY DEF AcksFrom
  <1>2. a[1] \in Sessions /\ a[2] \in Payloads /\ a = <<a[1], a[2]>>
    BY <1>1, SMT
  <1>3. a \in acks[o] \/ (commands'[o].state = "accepted" /\ commands'[o].session = a[1])
    BY <1>2, SMT DEF AcksFrom
  <1>4. CASE a \in acks[o]
    BY <1>2, <1>4 DEF CommandInv, FilesGrow
  <1>5. CASE commands'[o].state = "accepted" /\ commands'[o].session = a[1]
    BY <1>5
  <1> QED
    BY <1>3, <1>4, <1>5

\* Entries whose rows and commands are not written stay as they are.
LEMMA SameEntries ==
  ASSUME UNCHANGED <<rows, commands>>, NEW s
  PROVE  /\ BadEntry(s)' <=> BadEntry(s)
         /\ entry_rows(s)' <=> entry_rows(s)
         /\ Claims(s)' = Claims(s)
  BY DEF BadEntry, entry_rows, Claims, Listed, Paired

LEMMA SameBuckets ==
  ASSUME UNCHANGED unsafe
  PROVE  \A s \in Sessions : ~Safe(s)' => ~Safe(s) \/ s \in touched'
  BY DEF Safe

\* Rows stay ahead of nothing as long as they are the same or newly observed.
LEMMA SessionsStep ==
  ASSUME Typed, SessionInv, FilesGrow, FilesTyped,
         \A s \in Sessions : ~Safe(s)' => ~Safe(s) \/ s \in touched',
         \A s \in Sessions : rows'[s].availability = "ready" /\ s \notin touched' =>
           rows'[s] = rows[s] \/ NotAhead(rows'[s], files'[s]),
         \A s \in Sessions : s \in alarms' => s \in alarms \/ s \in touched'
  PROVE  SessionInv'
  <1>1. ASSUME NEW s \in Sessions, rows'[s].availability = "ready", s \notin touched', rows'[s] = rows[s]
        PROVE  NotAhead(rows'[s], files'[s])
    <2>1. NotAhead(rows[s], files[s]) /\ files[s].kind = "valid"
      BY <1>1 DEF SessionInv, FilesGrow, NotAhead
    <2>2. IsFile(files[s]) /\ IsFile(files'[s]) /\ rows[s].head \in Nat /\ rows[s].version \in Nat
      BY DEF Typed, StoreTyped, FilesTyped, IsRow
    <2>3. files'[s].kind = "valid" /\ files'[s].head >= files[s].head /\ files'[s].version >= files[s].version
      BY <1>1, <2>1 DEF FilesGrow
    <2>4. NotAhead(rows[s], files'[s])
      BY <2>1, <2>2, <2>3, StillNotAhead
    <2> QED
      BY <1>1, <2>4
  <1>2. ASSUME NEW s \in Sessions
        PROVE  /\ ~Safe(s)' \/ files'[s] = DamagedFile => s \in touched'
               /\ s \in alarms' => s \in touched'
    BY DEF SessionInv, FilesGrow
  <1> QED
    BY <1>1, <1>2 DEF SessionInv

(***************************************************************************)
(* Steps of callers that leave the tables alone.                           *)
(***************************************************************************)
CallerFrame == UNCHANGED <<up, catalog, required, rows, commands, away, unsafe, allocated, repair, repairs,
                           touched, forgotten>>

\* What such a step may do to the databases: those that appear belong to the command of the
\* session, and an empty one is filled for a session that is still being created.
FilesFrom ==
  /\ \A s \in Sessions : files'[s].kind = "valid" => Evidence(s, files'[s].operation, files'[s].payload)
  /\ \A o \in Operations : commands[o].state = "creating" /\ files[commands[o].session] = EmptyFile =>
       \/ files'[commands[o].session] = EmptyFile
       \/ rows[commands[o].session].availability = "creating"

LEMMA SameFiles ==
  ASSUME StoreTyped, UNCHANGED files
  PROVE  FilesFrom
  <1>1. \A s \in Sessions : files'[s].kind = "valid" =>
          Evidence(s, files'[s].operation, files'[s].payload)
    BY DEF Evidence
  <1> QED
    BY <1>1 DEF FilesFrom

\* A step of a caller that leaves the tables alone.
LEMMA CallerStep ==
  ASSUME Typed, StoreInv, up, repair.pc = "idle", CallerFrame, FilesGrow, FilesTyped, FilesFrom, AcksFrom,
         alarms' \subseteq Sessions, \A s \in Sessions : s \in alarms' => s \in alarms \/ s \in touched
  PROVE  StoreTyped' /\ StoreInv' /\ RepairInv' /\ QuietInv'
  <1> USE DEF CallerFrame
  <1>1. StoreTyped'
    BY DEF Typed, StoreTyped, FilesTyped, AcksFrom
  <1>2. EvidenceInv'
    <2>1. \A o \in Operations : commands'[o].state # "none" =>
            Evidence(commands'[o].session, o, commands'[o].payload)
      BY DEF Evidence
    <2>2. \A s \in Sessions : away'[s].kind = "valid" =>
            Evidence(s, away'[s].operation, away'[s].payload)
      BY DEF Evidence
    <2>3. \A o \in Operations, s \in Sessions, p \in Payloads : <<s, p>> \in acks'[o] => Evidence(s, o, p)
      BY SMT DEF AcksFrom, Evidence
    <2>4. NothingNew
      BY <2>1, <2>2, <2>3 DEF NothingNew, FilesFrom
    <2>5. Remembers
      BY DEF Remembers
    <2> QED
      BY <2>4, <2>5, EvidenceKept DEF StoreInv
  <1>3. SessionInv'
    BY SameBuckets, SessionsStep DEF StoreInv
  <1>4. CommandInv'
    <2>1. \A o \in Operations : commands'[o].state = "accepted" /\ commands'[o].session \notin touched' =>
            files'[commands'[o].session].kind = "valid"
      BY DEF StoreInv, CommandInv, FilesGrow, Typed, StoreTyped, IsCommand
    <2>2. \A o \in Operations : commands'[o].state = "creating" /\ commands'[o].session \notin touched' =>
            \/ rows'[commands'[o].session].availability = "creating"
            \/ files'[commands'[o].session] = EmptyFile
      BY DEF StoreInv, CommandInv, FilesFrom
    <2>3. \A o \in Operations : \A a \in acks'[o] : a[1] \notin touched' => files'[a[1]].kind = "valid"
      BY <2>1, AcksStep DEF StoreInv, Typed
    <2> QED
      BY <2>1, <2>2, <2>3 DEF CommandInv
  <1>5. EntryInv'
    BY SameEntries DEF StoreInv, EntryInv
  <1>6. SeenInv'
    BY DEF StoreInv, SeenInv
  <1>7. LostInv'
    BY DEF StoreInv, LostInv
  <1>8. RepairInv' /\ QuietInv'
    BY NoScan DEF RepairInv
  <1> QED
    BY <1>1, <1>2, <1>3, <1>4, <1>5, <1>6, <1>7, <1>8 DEF StoreInv

\* The operation goes on with r, or ends.
LEMMA CallerMoves ==
  ASSUME Typed, IInv, up, repair.pc = "idle", CallerFrame, FilesGrow, FilesTyped, FilesFrom, AcksFrom,
         alarms' \subseteq Sessions, \A s \in Sessions : s \in alarms' => s \in alarms \/ s \in touched,
         NEW c \in Callers, NEW r, Become(c, r), IsCall(r),
         r.pc \in Reserved \cup {"publish"} => CallOK(c)',
         LockInv' /\ DOMAIN owner' = Sessions
  PROVE  Kept
  <1>1. StoreTyped' /\ StoreInv' /\ RepairInv' /\ QuietInv'
    BY CallerStep DEF IInv
  <1>2. CommandsKept
    BY TablesSame DEF CallerFrame
  <1>3. CallsTyped /\ CallInv'
    BY <1>2, CallStep DEF IInv, ActorInv
  <1>4. RowsGrow
    BY RowsSame DEF CallerFrame, Typed
  <1> QED
    BY <1>1, <1>3, <1>4 DEF Kept, Typed, ActorsTyped, CallsTyped, IInv, ActorInv

LEMMA CallerEnds ==
  ASSUME Typed, IInv, up, repair.pc = "idle", CallerFrame, FilesGrow, FilesTyped, FilesFrom, AcksFrom,
         alarms' \subseteq Sessions, \A s \in Sessions : s \in alarms' => s \in alarms \/ s \in touched,
         NEW c \in Callers, End(c)
  PROVE  Kept
  <1>1. Become(c, Idle) /\ owner' = Released(c)
    BY DEF End
  <1>2. LockInv' /\ DOMAIN owner' = Sessions
    BY <1>1, Releases DEF IInv, ActorInv
  <1>3. Idle.pc \notin Reserved \cup {"publish"}
    BY IdleCall DEF Reserved, Creating
  <1> QED
    BY <1>1, <1>2, <1>3, IdleCall, CallerMoves

\* A reservation goes on to its next stage.
LEMMA CreationGoesOn ==
  ASSUME Typed, CallInv, CallerFrame, NEW c \in Callers, call[c].pc \in Reserved,
         NEW pc \in Reserved \ {"complete"}, Become(c, [call[c] EXCEPT !.pc = pc])
  PROVE  IsCall([call[c] EXCEPT !.pc = pc]) /\ CallOK(c)'
  <1> DEFINE r == [call[c] EXCEPT !.pc = pc]
  <1>1. call[c].pc \in Creating /\ pc \in Creating /\ IsCall(call[c])
    BY DEF Reserved, Typed, ActorsTyped
  <1>2. IsCall(r) /\ r.pc = pc /\ r.operation = call[c].operation /\ r.payload = call[c].payload
    BY <1>1, CreationMoves
  <1>3. call'[c] = r
    BY DEF Become, Typed, ActorsTyped
  <1> HIDE DEF r
  <1>4. CallOK(c)'
    BY <1>2, <1>3 DEF CallOK, CallInv, CallerFrame, Reserved, Creating
  <1> QED
    BY <1>2, <1>4 DEF r

\* What was found of the database is going to be published.
LEMMA CreationFinds ==
  ASSUME Typed, CallInv, CallerFrame, NEW c \in Callers, call[c].pc \in Reserved,
         NEW r, Become(c, r), r.pc = "complete", r.operation = call[c].operation,
         r.payload = call[c].payload, NotAhead(r, files'[commands[call[c].operation].session])
  PROVE  CallOK(c)'
  <1>1. call'[c] = r
    BY DEF Become, Typed, ActorsTyped
  <1> QED
    BY <1>1 DEF CallOK, CallInv, CallerFrame

\* A session is reported as broken only after other hands touched it.
LEMMA NoAlarm ==
  ASSUME Typed, StoreInv, NEW s \in Sessions, Alarm(s)
  PROVE  s \in touched
  <1> SUFFICES ASSUME s \notin touched
               PROVE  FALSE
    OBVIOUS
  <1>1. ~required /\ ~BadEntry(s)
    BY DEF Alarm, StoreInv, EntryInv
  <1>2. entry_rows(s) /\ rows[s].availability = "ready" /\ Safe(s)
    BY <1>1 DEF Alarm
  <1>3. files[s].kind = "valid" /\ Agrees(rows[s], files[s])
    BY <1>2 DEF StoreInv, SessionInv, NotAhead
  <1>4. ~connection(s)
    BY <1>1, <1>3 DEF Alarm
  <1>5. PICK o \in Operations : commands[o].state # "none" /\ commands[o].session = s
    BY <1>2 DEF entry_rows, Claims
  <1>6. commands[o].payload \in Payloads
    BY <1>5 DEF Typed, StoreTyped, IsCommand
  <1>7. files[s].operation \in Operations /\ files[s].payload \in Payloads
    BY <1>3 DEF Typed, StoreTyped, IsFile
  <1>8. Evidence(s, o, commands[o].payload) /\ Evidence(s, files[s].operation, files[s].payload)
    BY <1>3, <1>5 DEF Evidence
  <1>9. files[s].operation = o /\ commands[o].payload = files[s].payload
    BY <1>6, <1>7, <1>8, OneCreation, ZenonT(30) DEF StoreInv
  <1> QED
    BY <1>1, <1>2, <1>3, <1>4, <1>5, <1>9 DEF connection, Claims, Readable

LEMMA AlarmsRaised ==
  ASSUME Typed, StoreInv, NEW s \in Sessions, Raised(s)
  PROVE  alarms' \subseteq Sessions /\ \A t \in Sessions : t \in alarms' => t \in alarms \/ t \in touched
  BY NoAlarm DEF Raised, Typed, StoreTyped

LEMMA AlarmsSame ==
  ASSUME Typed, UNCHANGED alarms
  PROVE  alarms' \subseteq Sessions /\ \A t \in Sessions : t \in alarms' => t \in alarms \/ t \in touched
  BY DEF Typed, StoreTyped

\* An answer names the session of an accepted command.
LEMMA Acknowledged ==
  ASSUME Typed, NEW c \in Callers, call[c].operation \in Operations, Acknowledge(c),
         UNCHANGED commands, commands[call[c].operation].state = "accepted",
         commands[call[c].operation].payload = call[c].payload
  PROVE  AcksFrom
  <1> DEFINE o == call[c].operation
             a == <<commands[o].session, call[c].payload>>
  <1>1. commands[o].session \in Sessions /\ commands[o].payload \in Payloads
    BY DEF Typed, StoreTyped, IsCommand
  <1>2. a \in Sessions \X Payloads
    BY <1>1, SMT
  <1>3. acks' = [acks EXCEPT ![o] = @ \cup {a}]
    BY DEF Acknowledge
  <1>4. acks' \in [Operations -> SUBSET (Sessions \X Payloads)]
    BY <1>2, <1>3, SMT DEF Typed, StoreTyped
  <1>5. \A q \in Operations : \A b : b \in acks'[q] => b \in acks[q] \/ (q = o /\ b = a)
    BY <1>3, SMT DEF Typed, StoreTyped
  <1>6. \A s, p : <<s, p>> = a => commands[o].session = s /\ commands[o].payload = p
    BY SMT
  <1> QED
    BY <1>4, <1>5, <1>6 DEF AcksFrom

-----------------------------------------------------------------------------
(***************************************************************************)
(* Creations.                                                              *)
(***************************************************************************)

\* create_session is admitted.
LEMMA CreateSessionStep ==
  ASSUME Typed, IInv, NEW c \in Callers, NEW o \in Operations, NEW p \in Payloads, create_session(c, o, p)
  PROVE  Kept
  <1> DEFINE r == Creation(o, p, FALSE)
  <1>1. /\ up /\ call[c].pc = "idle" /\ repair.pc = "idle" /\ Become(c, r)
        /\ UNCHANGED <<Tables, files, allocated, owner, acks, alarms, Outside>>
    BY DEF create_session, Admitted
  <1>2. IsCall(r) /\ r.pc = "reserve"
    BY CreationCall
  <1> HIDE DEF r
  <1>3. CallerFrame /\ UNCHANGED <<files, acks, alarms, owner>> /\ touched \subseteq touched'
    BY <1>1 DEF CallerFrame, Tables, Outside
  <1>4. /\ FilesGrow /\ FilesTyped /\ FilesFrom /\ AcksFrom
        /\ alarms' \subseteq Sessions /\ \A s \in Sessions : s \in alarms' => s \in alarms \/ s \in touched
    BY <1>3, FilesSame, SameFiles, AcksSame, AlarmsSame DEF Typed
  <1>5. LockInv' /\ DOMAIN owner' = Sessions
    BY <1>1, <1>3, Retains DEF IInv, ActorInv, Holding
  <1>6. r.pc \notin Reserved \cup {"publish"}
    BY <1>2 DEF Reserved
  <1> QED
    BY <1>1, <1>2, <1>3, <1>4, <1>5, <1>6, CallerMoves

\* What the steps of callers that write no file have in common.
LEMMA Reads ==
  ASSUME Typed, UNCHANGED <<Tables, files, allocated, Outside>>
  PROVE  CallerFrame /\ FilesGrow /\ FilesTyped /\ FilesFrom
  <1>1. CallerFrame /\ UNCHANGED files /\ touched \subseteq touched'
    BY DEF CallerFrame, Tables, Outside
  <1> QED
    BY <1>1, FilesSame, SameFiles DEF Typed

\* An operation fails or is refused, and leaves its lock.
LEMMA FailsStep ==
  ASSUME Typed, IInv, NEW c \in Callers, Fails(c) \/ Refused(c)
  PROVE  Kept
  <1>1. Active(c) /\ End(c) /\ UNCHANGED <<Tables, files, allocated, acks, alarms, Outside>>
    BY DEF Fails, Refused
  <1>2. up /\ repair.pc = "idle"
    BY <1>1, NoScanning DEF IInv, ActorInv
  <1> QED
    BY <1>1, <1>2, Reads, AcksSame, AlarmsSame, CallerEnds DEF Typed

\* A retry finds its command in the catalog.
LEMMA ReserveAgainStep ==
  ASSUME Typed, IInv, NEW c \in Callers, ReserveAgain(c)
  PROVE  Kept
  <1> DEFINE o == call[c].operation
             s == commands[o].session
  <1>1. up /\ repair.pc = "idle" /\ call[c].pc = "reserve" /\ commands[o].state # "none"
    BY NoScanning DEF IInv, ActorInv, ReserveAgain, At, Active, Unreserved
  <1>2. UNCHANGED <<Tables, files, allocated, alarms, Outside>>
    BY DEF ReserveAgain
  <1>3. /\ CallerFrame /\ FilesGrow /\ FilesTyped /\ FilesFrom
        /\ alarms' \subseteq Sessions /\ \A t \in Sessions : t \in alarms' => t \in alarms \/ t \in touched
    BY <1>2, Reads, AlarmsSame
  <1>4. o \in Operations /\ s \in Sessions /\ IsCall(call[c])
    BY <1>1 DEF Typed, ActorsTyped, StoreTyped, IsCall, IsCommand, Creating
  <1>5. ASSUME commands[o].payload = call[c].payload, commands[o].state = "accepted", Acknowledge(c),
               IF call[c].opening
               THEN Become(c, [pc |-> "open", session |-> s]) /\ UNCHANGED owner
               ELSE End(c)
        PROVE  Kept
    <2>1. AcksFrom
      BY <1>3, <1>4, <1>5, Acknowledged DEF CallerFrame
    <2>2. CASE End(c)
      BY <1>1, <1>3, <2>1, <2>2, CallerEnds
    <2>3. CASE Become(c, [pc |-> "open", session |-> s]) /\ UNCHANGED owner
      <3> DEFINE r == [pc |-> "open", session |-> s]
      <3>1. IsCall(r) /\ r.pc = "open"
        BY <1>4, OpeningCall
      <3>2. Become(c, r)
        BY <2>3
      <3> HIDE DEF r
      <3>3. LockInv' /\ DOMAIN owner' = Sessions
        BY <1>1, <2>3, <3>2, Retains DEF IInv, ActorInv, Holding
      <3>4. r.pc \notin Reserved \cup {"publish"}
        BY <3>1 DEF Reserved, Creating
      <3> QED
        BY <1>1, <1>3, <2>1, <3>1, <3>2, <3>3, <3>4, CallerMoves
    <2> QED
      BY <1>5, <2>2, <2>3
  <1>6. ASSUME commands[o].payload = call[c].payload, rows[s].availability = "creating",
               Become(c, [call[c] EXCEPT !.pc = "enter"]), UNCHANGED <<owner, acks>>
        PROVE  Kept
    <2> DEFINE r == [call[c] EXCEPT !.pc = "enter"]
    <2>1. IsCall(r) /\ r.pc = "enter" /\ r.operation = o /\ r.payload = call[c].payload
      BY <1>1, <1>4, CreationMoves DEF Creating
    <2>2. Become(c, r)
      BY <1>6
    <2> HIDE DEF r
    <2>3. LockInv' /\ DOMAIN owner' = Sessions
      BY <1>1, <1>6, <2>2, Retains DEF IInv, ActorInv, Holding
    <2>4. call'[c] = r
      BY <2>2 DEF Become, Typed, ActorsTyped
    <2>5. CallOK(c)'
      BY <1>1, <1>3, <1>6, <2>1, <2>4 DEF CallOK, CallerFrame
    <2>6. AcksFrom
      BY <1>6, AcksSame DEF Typed
    <2> QED
      BY <1>1, <1>3, <2>1, <2>2, <2>3, <2>5, <2>6, CallerMoves
  <1>7. ASSUME End(c), UNCHANGED acks
        PROVE  Kept
    <2>1. AcksFrom
      BY <1>7, AcksSame DEF Typed
    <2> QED
      BY <1>1, <1>3, <1>7, <2>1, CallerEnds
  <1> QED
    BY <1>5, <1>6, <1>7 DEF ReserveAgain

\* The operation goes on to open the session, or to the next stage of that.
LEMMA CallerOpens ==
  ASSUME Typed, IInv, up, repair.pc = "idle", CallerFrame, FilesGrow, FilesTyped, FilesFrom, AcksFrom,
         alarms' \subseteq Sessions, \A s \in Sessions : s \in alarms' => s \in alarms \/ s \in touched,
         NEW c \in Callers, NEW s \in Sessions, NEW pc \in {"open", "migrate", "project", "reconcile"},
         Become(c, [pc |-> pc, session |-> s]), LockInv' /\ DOMAIN owner' = Sessions
  PROVE  Kept
  <1> DEFINE r == [pc |-> pc, session |-> s]
  <1>1. IsCall(r) /\ r.pc = pc
    BY OpeningCall
  <1>2. Become(c, r)
    OBVIOUS
  <1> HIDE DEF r
  <1>3. r.pc \notin Reserved \cup {"publish"}
    BY <1>1 DEF Reserved, Creating
  <1> QED
    BY <1>1, <1>2, <1>3, CallerMoves

\* The creation takes the lock of its session, or finds the session settled.
LEMMA EnterCreationStep ==
  ASSUME Typed, IInv, NEW c \in Callers, EnterCreation(c)
  PROVE  Kept
  <1> DEFINE o == call[c].operation
             s == commands[o].session
  <1>1. up /\ repair.pc = "idle" /\ call[c].pc = "enter" /\ call[c].pc \in Reserved
    BY NoScanning DEF IInv, ActorInv, EnterCreation, At, Active, Reserved, Creating
  <1>2. UNCHANGED <<Tables, files, allocated, alarms, Outside>>
    BY DEF EnterCreation
  <1>3. /\ CallerFrame /\ FilesGrow /\ FilesTyped /\ FilesFrom
        /\ alarms' \subseteq Sessions /\ \A t \in Sessions : t \in alarms' => t \in alarms \/ t \in touched
    BY <1>2, Reads, AlarmsSame
  <1>4. commands[o].state # "none" /\ commands[o].payload = call[c].payload
    BY <1>1 DEF IInv, ActorInv, CallInv, CallOK
  <1>5. o \in Operations /\ s \in Sessions
    BY <1>1, <1>4 DEF Typed, ActorsTyped, StoreTyped, IsCall, IsCommand, Reserved
  <1>6. ASSUME commands[o].state = "accepted", Created(c), Acknowledge(c)
        PROVE  Kept
    <2>1. AcksFrom
      BY <1>3, <1>4, <1>5, <1>6, Acknowledged DEF CallerFrame
    <2>2. CASE End(c)
      BY <1>1, <1>3, <2>1, <2>2, CallerEnds
    <2>3. CASE Become(c, [pc |-> "open", session |-> s]) /\ owner' = Released(c)
      <3>1. LockInv' /\ DOMAIN owner' = Sessions
        BY <2>3, Releases DEF IInv, ActorInv
      <3> QED
        BY <1>1, <1>3, <1>5, <2>1, <2>3, <3>1, CallerOpens
    <2> QED
      BY <1>6, <2>2, <2>3 DEF Created
  <1>7. ASSUME Lock(c, s), Become(c, [call[c] EXCEPT !.pc = "place"]), UNCHANGED acks
        PROVE  Kept
    <2> DEFINE r == [call[c] EXCEPT !.pc = "place"]
    <2>1. "place" \in Reserved \ {"complete"} /\ call[c].pc \in Creating /\ IsCall(call[c])
      BY <1>1 DEF Reserved, Creating, Typed, ActorsTyped
    <2>2. IsCall(r) /\ CallOK(c)' /\ Become(c, r)
      BY <1>1, <1>3, <1>7, <2>1, CreationGoesOn DEF IInv, ActorInv
    <2>3. r.pc = "place"
      BY <2>1, CreationMoves DEF Creating
    <2> HIDE DEF r
    <2>4. LockInv' /\ DOMAIN owner' = Sessions
      BY <1>5, <1>7, <2>2, <2>3, Takes DEF IInv, ActorInv, Holding
    <2>5. AcksFrom
      BY <1>7, AcksSame DEF Typed
    <2> QED
      BY <1>1, <1>3, <2>2, <2>4, <2>5, CallerMoves
  <1>8. ASSUME End(c), UNCHANGED acks
        PROVE  Kept
    <2>1. AcksFrom
      BY <1>8, AcksSame DEF Typed
    <2> QED
      BY <1>1, <1>3, <1>8, <2>1, CallerEnds
  <1> QED
    BY <1>6, <1>7, <1>8 DEF EnterCreation

\* A step that writes one database.
LEMMA WritesFile ==
  ASSUME StoreTyped, UNCHANGED touched, NEW s \in Sessions, NEW f, IsFile(f), f # DamagedFile,
         files' = [files EXCEPT ![s] = f],
         files[s].kind = "valid" => /\ f.kind = "valid" /\ f.operation = files[s].operation
                                    /\ f.payload = files[s].payload
                                    /\ f.head >= files[s].head /\ f.version >= files[s].version,
         f.kind = "valid" => Evidence(s, f.operation, f.payload),
         files[s] = EmptyFile => \/ f = EmptyFile
                                 \/ \A o \in Operations : commands[o].state = "creating" /\ commands[o].session = s =>
                                      rows[s].availability = "creating"
  PROVE  FilesGrow /\ FilesTyped /\ FilesFrom
  <1>1. DOMAIN files' = Sessions /\ files'[s] = f /\ \A t \in Sessions : t # s => files'[t] = files[t]
    BY DEF StoreTyped
  <1>2. FilesTyped
    BY <1>1 DEF FilesTyped, StoreTyped
  <1>3. FilesGrow
    <2>1. \A t \in Sessions : files[t].kind = "valid" =>
            files[t].head >= files[t].head /\ files[t].version >= files[t].version
      <3>1. \A n \in Nat : n >= n
        BY SMT
      <3> QED
        BY <3>1 DEF StoreTyped, IsFile
    <2> QED
      BY <1>1, <2>1 DEF FilesGrow
  <1>4. \A t \in Sessions : files'[t].kind = "valid" => Evidence(t, files'[t].operation, files'[t].payload)
    BY <1>1 DEF Evidence
  <1>5. \A o \in Operations : commands[o].state = "creating" /\ files[commands[o].session] = EmptyFile =>
          \/ files'[commands[o].session] = EmptyFile
          \/ rows[commands[o].session].availability = "creating"
    BY <1>1 DEF StoreTyped, IsCommand
  <1> QED
    BY <1>2, <1>3, <1>4, <1>5 DEF FilesFrom

LEMMA CreationStage ==
  ASSUME Typed, IInv, up, repair.pc = "idle", CallerFrame, FilesGrow, FilesTyped, FilesFrom,
         UNCHANGED <<owner, acks, alarms>>, NEW c \in Callers, call[c].pc \in Reserved,
         NEW pc \in {"initialize", "fail"}, Become(c, [call[c] EXCEPT !.pc = pc])
  PROVE  Kept
  <1> DEFINE r == [call[c] EXCEPT !.pc = pc]
  <1>1. pc \in Reserved \ {"complete"} /\ pc \in Creating /\ call[c].pc \in Creating /\ IsCall(call[c])
    BY DEF Reserved, Creating, Typed, ActorsTyped
  <1>2. IsCall(r) /\ CallOK(c)' /\ Become(c, r)
    BY <1>1, CreationGoesOn DEF IInv, ActorInv
  <1>3. r.pc = pc
    BY <1>1, CreationMoves
  <1> HIDE DEF r
  <1>4. LockInv' /\ DOMAIN owner' = Sessions
    BY <1>2, <1>3, Retains DEF IInv, ActorInv, Holding
  <1>5. AcksFrom /\ alarms' \subseteq Sessions /\ \A s \in Sessions : s \in alarms' => s \in alarms \/ s \in touched
    BY AcksSame, AlarmsSame DEF Typed
  <1> QED
    BY <1>2, <1>4, <1>5, CallerMoves

LEMMA CreationObserves ==
  ASSUME Typed, IInv, up, repair.pc = "idle", CallerFrame, FilesGrow, FilesTyped, FilesFrom,
         UNCHANGED <<owner, acks, alarms>>, NEW c \in Callers, call[c].pc \in Reserved,
         NEW h \in Nat, NEW v \in Nat, Become(c, Found(call[c], h, v)),
         files'[commands[call[c].operation].session].kind = "valid",
         files'[commands[call[c].operation].session].head = h,
         files'[commands[call[c].operation].session].version = v
  PROVE  Kept
  <1> DEFINE r == Found(call[c], h, v)
             f == files'[commands[call[c].operation].session]
  <1>1. call[c].pc \in Creating /\ IsCall(call[c])
    BY DEF Reserved, Typed, ActorsTyped
  <1>2. /\ IsCall(r) /\ r.pc = "complete" /\ r.operation = call[c].operation
        /\ r.payload = call[c].payload /\ r.head = h /\ r.version = v
    BY <1>1, CreationFound, SMTT(30)
  <1>3. Become(c, r)
    OBVIOUS
  <1> HIDE DEF r
  <1>4. NotAhead(r, f)
    <2>1. h <= h /\ v <= v
      BY SMT
    <2> QED
      BY <1>2, <2>1 DEF NotAhead, Agrees
  <1>5. CallOK(c)'
    BY <1>2, <1>3, <1>4, CreationFinds DEF IInv, ActorInv
  <1>6. LockInv' /\ DOMAIN owner' = Sessions
    BY <1>2, <1>3, Retains DEF IInv, ActorInv, Holding
  <1>7. AcksFrom /\ alarms' \subseteq Sessions /\ \A s \in Sessions : s \in alarms' => s \in alarms \/ s \in touched
    BY AcksSame, AlarmsSame DEF Typed
  <1> QED
    BY <1>2, <1>3, <1>5, <1>6, <1>7, CallerMoves

\* The creation meets the file of its session: it continues, observes a database of its own, or fails.
LEMMA PlaceStep ==
  ASSUME Typed, IInv, NEW c \in Callers, Place(c)
  PROVE  Kept
  <1> DEFINE s == commands[call[c].operation].session
  <1>1. up /\ repair.pc = "idle" /\ call[c].pc = "place" /\ call[c].pc \in Reserved
    BY NoScanning DEF IInv, ActorInv, Place, At, Active, Reserved, Creating
  <1>2. CallerFrame /\ UNCHANGED <<acks, alarms, touched>>
    BY DEF Place, CallerFrame, Tables, Outside
  <1>3. AcksFrom /\ alarms' \subseteq Sessions /\ \A t \in Sessions : t \in alarms' => t \in alarms \/ t \in touched
    BY <1>2, AcksSame, AlarmsSame DEF Typed
  <1>4. s \in Sessions
    <2>1. commands[call[c].operation].state # "none"
      BY <1>1 DEF IInv, ActorInv, CallInv, CallOK
    <2> QED
      BY <1>1, <2>1 DEF Typed, ActorsTyped, StoreTyped, IsCall, IsCommand, Reserved
  <1>5. UNCHANGED files => FilesGrow /\ FilesTyped /\ FilesFrom
    BY <1>2, FilesSame, SameFiles DEF Typed
  <1>6. ASSUME Initializable(files[s]), files' = [files EXCEPT ![s] = EmptyFile],
               Become(c, [call[c] EXCEPT !.pc = "initialize"]), UNCHANGED owner
        PROVE  Kept
    <2>1. files[s].kind # "valid" /\ EmptyFile.kind # "valid" /\ IsFile(EmptyFile) /\ EmptyFile # DamagedFile
      BY <1>6, FileFacts DEF Initializable
    <2>2. FilesGrow /\ FilesTyped /\ FilesFrom
      BY <1>2, <1>4, <1>6, <2>1, WritesFile DEF Typed
    <2> QED
      BY <1>1, <1>2, <1>6, <2>2, CreationStage
  <1>7. ASSUME files[s] = NoFile, files' = [files EXCEPT ![s] = OnlyDirectory], End(c)
        PROVE  Kept
    <2>1. /\ files[s].kind # "valid" /\ files[s] # EmptyFile
          /\ OnlyDirectory.kind # "valid" /\ IsFile(OnlyDirectory) /\ OnlyDirectory # DamagedFile
      BY <1>7, FileFacts
    <2>2. FilesGrow /\ FilesTyped /\ FilesFrom
      BY <1>2, <1>4, <1>7, <2>1, WritesFile DEF Typed
    <2> QED
      BY <1>1, <1>2, <1>3, <1>7, <2>2, CallerEnds
  <1>8. ASSUME Ours(c, s), Become(c, [call[c] EXCEPT !.pc = "complete", !.head = files[s].head,
                                                     !.version = files[s].version]),
               UNCHANGED <<files, owner>>
        PROVE  Kept
    <2>1. Become(c, Found(call[c], files[s].head, files[s].version))
      BY <1>8 DEF Found
    <2>2. files[s].kind = "valid" /\ files[s].head \in Nat /\ files[s].version \in Nat
      BY <1>4, <1>8 DEF Ours, Typed, StoreTyped, IsFile
    <2> QED
      BY <1>1, <1>2, <1>5, <1>8, <2>1, <2>2, CreationObserves
  <1>9. ASSUME Become(c, [call[c] EXCEPT !.pc = "fail"]), UNCHANGED <<files, owner>>
        PROVE  Kept
    BY <1>1, <1>2, <1>5, <1>9, CreationStage
  <1> QED
    BY <1>6, <1>7, <1>8, <1>9 DEF Place

\* The database is initialized; where nobody else has touched the session it was not there before.
LEMMA InitializeStep ==
  ASSUME Typed, IInv, NEW c \in Callers, Initialize(c)
  PROVE  Kept
  <1> DEFINE o == call[c].operation
             s == commands[o].session
             f == Database(o, call[c].payload, 1, 3)
  <1>1. up /\ repair.pc = "idle" /\ call[c].pc = "initialize" /\ call[c].pc \in Reserved
    BY NoScanning DEF IInv, ActorInv, Initialize, At, Active, Reserved, Creating
  <1>2. CallerFrame /\ UNCHANGED <<acks, alarms, touched>>
    BY DEF Initialize, CallerFrame, Tables, Outside
  <1>3. AcksFrom /\ alarms' \subseteq Sessions /\ \A t \in Sessions : t \in alarms' => t \in alarms \/ t \in touched
    BY <1>2, AcksSame, AlarmsSame DEF Typed
  <1>4. /\ commands[o].state # "none" /\ commands[o].payload = call[c].payload
        /\ commands[o].state = "creating" => rows[s].availability = "creating"
    BY <1>1 DEF IInv, ActorInv, CallInv, CallOK
  <1>5. o \in Operations /\ s \in Sessions /\ call[c].payload \in Payloads
    BY <1>1, <1>4 DEF Typed, ActorsTyped, StoreTyped, IsCall, IsCommand, Reserved
  <1>6. UNCHANGED files => FilesGrow /\ FilesTyped /\ FilesFrom
    BY <1>2, FilesSame, SameFiles DEF Typed
  <1>7. ASSUME files[s] = EmptyFile, files' = [files EXCEPT ![s] = f],
               \/ Become(c, [call[c] EXCEPT !.pc = "complete", !.head = 1, !.version = 3]) /\ UNCHANGED owner
               \/ End(c)
        PROVE  Kept
    <2>1. 1 \in Nat /\ 3 \in Nat
      BY SMT
    <2>2. /\ IsFile(f) /\ f.kind = "valid" /\ f.operation = o /\ f.payload = call[c].payload
          /\ f.head = 1 /\ f.version = 3
      BY <1>5, <2>1, DatabaseFacts, SMT
    <2> HIDE DEF f
    <2>3. Evidence(s, o, call[c].payload)
      BY <1>4 DEF Evidence
    <2>4. ASSUME NEW q \in Operations, commands[q].state = "creating", commands[q].session = s
          PROVE  rows[s].availability = "creating"
      <3>1. commands[q].payload \in Payloads
        BY <2>4 DEF Typed, StoreTyped, IsCommand
      <3>2. Evidence(s, q, commands[q].payload)
        BY <2>4 DEF Evidence
      <3>3. q = o
        BY <1>5, <2>3, <3>1, <3>2, OneCreation, SMT DEF IInv, StoreInv
      <3> QED
        BY <1>4, <2>4, <3>3
    <2>5. files[s].kind # "valid" /\ f # DamagedFile
      BY <1>7, <2>2, FileFacts
    <2>6. FilesGrow /\ FilesTyped /\ FilesFrom
      BY <1>2, <1>5, <1>7, <2>2, <2>3, <2>4, <2>5, WritesFile DEF Typed
    <2>7. CASE End(c)
      BY <1>1, <1>2, <1>3, <2>6, <2>7, CallerEnds
    <2>8. CASE Become(c, [call[c] EXCEPT !.pc = "complete", !.head = 1, !.version = 3]) /\ UNCHANGED owner
      <3>1. Become(c, Found(call[c], 1, 3))
        BY <2>8 DEF Found
      <3>2. files'[s] = f
        BY <1>5, <1>7 DEF Typed, StoreTyped
      <3> QED
        BY <1>1, <1>2, <2>1, <2>2, <2>6, <2>8, <3>1, <3>2, CreationObserves
    <2> QED
      BY <1>7, <2>7, <2>8
  <1>8. ASSUME Become(c, [call[c] EXCEPT !.pc = "fail"]), UNCHANGED <<files, owner>>
        PROVE  Kept
    BY <1>1, <1>2, <1>6, <1>8, CreationStage
  <1>9. ASSUME End(c), UNCHANGED files
        PROVE  Kept
    BY <1>1, <1>2, <1>3, <1>6, <1>9, CallerEnds
  <1> QED
    BY <1>7, <1>8, <1>9 DEF Initialize

-----------------------------------------------------------------------------
(***************************************************************************)
(* Operations on a session.                                                *)
(***************************************************************************)

\* open_session is admitted.
LEMMA OpenSessionStep ==
  ASSUME Typed, IInv, NEW c \in Callers, NEW s \in Sessions, open_session(c, s)
  PROVE  Kept
  <1>1. /\ up /\ call[c].pc = "idle" /\ repair.pc = "idle"
        /\ UNCHANGED <<Tables, files, allocated, owner, acks, alarms, Outside>>
    BY DEF open_session, Admitted
  <1>2. /\ CallerFrame /\ FilesGrow /\ FilesTyped /\ FilesFrom /\ AcksFrom
        /\ alarms' \subseteq Sessions /\ \A t \in Sessions : t \in alarms' => t \in alarms \/ t \in touched
    BY <1>1, Reads, AcksSame, AlarmsSame DEF Typed
  <1>3. ASSUME NEW r, Become(c, r)
        PROVE  LockInv' /\ DOMAIN owner' = Sessions
    BY <1>1, <1>3, Retains DEF IInv, ActorInv, Holding
  <1>4. CASE rows[s].availability = "creating"
    <2>1. PICK o \in Claims(s) : Become(c, Creation(o, commands[o].payload, TRUE))
      BY <1>4 DEF open_session
    <2>2. o \in Operations /\ commands[o].payload \in Payloads
      BY DEF Claims, Typed, StoreTyped, IsCommand
    <2> DEFINE r == Creation(o, commands[o].payload, TRUE)
    <2>3. IsCall(r) /\ r.pc = "reserve" /\ Become(c, r)
      BY <2>1, <2>2, CreationCall
    <2> HIDE DEF r
    <2>4. r.pc \notin Reserved \cup {"publish"}
      BY <2>3 DEF Reserved
    <2> QED
      BY <1>1, <1>2, <1>3, <2>3, <2>4, CallerMoves
  <1>5. CASE Become(c, [pc |-> "open", session |-> s])
    BY <1>1, <1>2, <1>3, <1>5, CallerOpens
  <1> QED
    BY <1>4, <1>5 DEF open_session

LEMMA Stages == \A v : NextStage(v) \in {"migrate", "project", "reconcile"}
  BY DEF NextStage

\* The entry and the database are checked against each other under the lock.
LEMMA OpenLockedStep ==
  ASSUME Typed, IInv, NEW c \in Callers, OpenLocked(c)
  PROVE  Kept
  <1> DEFINE s == call[c].session
  <1>1. up /\ repair.pc = "idle" /\ call[c].pc = "open" /\ Raised(s)
    BY NoScanning DEF IInv, ActorInv, OpenLocked, At, Active, Session
  <1>2. s \in Sessions
    BY <1>1 DEF Typed, ActorsTyped, IsCall, Opening
  <1>3. UNCHANGED <<Tables, files, allocated, acks, Outside>>
    BY DEF OpenLocked
  <1>4. /\ CallerFrame /\ FilesGrow /\ FilesTyped /\ FilesFrom /\ AcksFrom
        /\ alarms' \subseteq Sessions /\ \A t \in Sessions : t \in alarms' => t \in alarms \/ t \in touched
    BY <1>1, <1>2, <1>3, Reads, AcksSame, AlarmsRaised DEF Typed, IInv
  <1>5. CASE End(c)
    BY <1>1, <1>4, <1>5, CallerEnds
  <1>6. CASE Lock(c, s) /\ Become(c, [pc |-> NextStage(files[s].version), session |-> s])
    <2>1. PICK pc \in {"migrate", "project", "reconcile"} : pc = NextStage(files[s].version)
      BY Stages
    <2>2. [pc |-> pc, session |-> s].pc \in Holding
      BY DEF Holding
    <2>3. Become(c, [pc |-> pc, session |-> s])
      BY <1>6, <2>1
    <2>4. LockInv' /\ DOMAIN owner' = Sessions
      BY <1>2, <1>6, <2>2, <2>3, Takes DEF IInv, ActorInv
    <2> QED
      BY <1>1, <1>2, <1>4, <2>1, <2>3, <2>4, CallerOpens
  <1> QED
    BY <1>5, <1>6 DEF OpenLocked, Session

\* An append, an interruption or a migration makes a database longer.
LEMMA Lengthens ==
  ASSUME StoreTyped, UNCHANGED touched, NEW s \in Sessions, files[s].kind = "valid", NEW d \in Nat,
         NEW f \in {Longer(files[s], d), Newer(files[s])}, files' = [files EXCEPT ![s] = f]
  PROVE  FilesGrow /\ FilesTyped /\ FilesFrom
  <1>1. IsFile(files[s])
    BY DEF StoreTyped
  <1>2. /\ IsFile(f) /\ f.kind = "valid" /\ f.operation = files[s].operation
        /\ f.payload = files[s].payload /\ f.head >= files[s].head /\ f.version >= files[s].version
    BY <1>1, DatabaseGrows
  <1>3. Evidence(s, files[s].operation, files[s].payload)
    BY DEF Evidence
  <1>4. files[s] # EmptyFile /\ f # DamagedFile
    BY <1>2, FileFacts
  <1> QED
    BY <1>2, <1>3, <1>4, WritesFile

\* A migration keeps the history.
LEMMA UpgradeStep ==
  ASSUME Typed, IInv, NEW c \in Callers, Upgrade(c)
  PROVE  Kept
  <1> DEFINE s == call[c].session
  <1>1. up /\ repair.pc = "idle" /\ call[c].pc \in {"migrate", "project"}
    BY NoScanning DEF IInv, ActorInv, Upgrade, At, Active
  <1>2. s \in Sessions
    BY <1>1 DEF Typed, ActorsTyped, IsCall, Opening
  <1>3. CallerFrame /\ UNCHANGED <<acks, alarms, touched>>
    BY DEF Upgrade, CallerFrame, Tables, Outside
  <1>4. AcksFrom /\ alarms' \subseteq Sessions /\ \A t \in Sessions : t \in alarms' => t \in alarms \/ t \in touched
    BY <1>3, AcksSame, AlarmsSame DEF Typed
  <1>5. ASSUME End(c), UNCHANGED files
        PROVE  Kept
    BY <1>1, <1>3, <1>4, <1>5, FilesSame, SameFiles, CallerEnds DEF Typed
  <1>6. ASSUME Readable(s), files' = [files EXCEPT ![s].version = @ + 1],
               \/ Become(c, [pc |-> NextStage(files[s].version + 1), session |-> s]) /\ UNCHANGED owner
               \/ End(c)
        PROVE  Kept
    <2>1. files[s].kind = "valid"
      BY <1>6 DEF Readable
    <2>2. files' = [files EXCEPT ![s] = Newer(files[s])]
      BY <1>6 DEF Newer
    <2>3. FilesGrow /\ FilesTyped /\ FilesFrom
      <3>1. 0 \in Nat
        BY SMT
      <3> QED
        BY <1>2, <1>3, <2>1, <2>2, <3>1, Lengthens DEF Typed
    <2>4. CASE End(c)
      BY <1>1, <1>3, <1>4, <2>3, <2>4, CallerEnds
    <2>5. CASE Become(c, [pc |-> NextStage(files[s].version + 1), session |-> s]) /\ UNCHANGED owner
      <3>1. PICK pc \in {"migrate", "project", "reconcile"} : pc = NextStage(files[s].version + 1)
        BY Stages
      <3>2. [pc |-> pc, session |-> s].pc \in Holding
        BY DEF Holding
      <3>3. Become(c, [pc |-> pc, session |-> s])
        BY <2>5, <3>1
      <3>4. LockInv' /\ DOMAIN owner' = Sessions
        BY <2>5, <3>2, <3>3, Retains DEF IInv, ActorInv
      <3> QED
        BY <1>1, <1>2, <1>3, <1>4, <2>3, <3>1, <3>3, <3>4, CallerOpens
    <2> QED
      BY <1>6, <2>4, <2>5
  <1> QED
    BY <1>5, <1>6 DEF Upgrade, Session

\* Unfinished runs of the session are interrupted, which lengthens its history.
LEMMA ReconcileStep ==
  ASSUME Typed, IInv, NEW c \in Callers, Reconcile(c)
  PROVE  Kept
  <1> DEFINE s == call[c].session
  <1>1. up /\ repair.pc = "idle" /\ call[c].pc = "reconcile" /\ End(c)
    BY NoScanning DEF IInv, ActorInv, Reconcile, At, Active
  <1>2. s \in Sessions
    BY <1>1 DEF Typed, ActorsTyped, IsCall, Opening
  <1>3. CallerFrame /\ UNCHANGED <<acks, alarms, touched>>
    BY DEF Reconcile, CallerFrame, Tables
  <1>4. AcksFrom /\ alarms' \subseteq Sessions /\ \A t \in Sessions : t \in alarms' => t \in alarms \/ t \in touched
    BY <1>3, AcksSame, AlarmsSame DEF Typed
  <1>5. ASSUME UNCHANGED files
        PROVE  FilesGrow /\ FilesTyped /\ FilesFrom
    BY <1>3, <1>5, FilesSame, SameFiles DEF Typed
  <1>6. ASSUME Readable(s), NEW d \in {0, 1}, files' = [files EXCEPT ![s].head = @ + d]
        PROVE  FilesGrow /\ FilesTyped /\ FilesFrom
    <2>1. files[s].kind = "valid"
      BY <1>6 DEF Readable
    <2>2. files' = [files EXCEPT ![s] = Longer(files[s], d)]
      BY <1>6 DEF Longer
    <2>3. d \in Nat
      BY SMT
    <2> QED
      BY <1>2, <1>3, <2>1, <2>2, <2>3, Lengthens DEF Typed
  <1>7. FilesGrow /\ FilesTyped /\ FilesFrom
    BY <1>5, <1>6 DEF Reconcile, Session
  <1> QED
    BY <1>1, <1>3, <1>4, <1>7, CallerEnds

\* An append lengthens the history of a session that was checked.
LEMMA AppendStep ==
  ASSUME Typed, IInv, NEW c \in Callers, NEW s \in Sessions, Append(c, s)
  PROVE  Kept
  <1>1. up /\ repair.pc = "idle" /\ UNCHANGED <<acks, call, owner, touched>> /\ CallerFrame
    BY DEF Append, Admitted, CallerFrame, Tables, Outside
  <1>2. AcksFrom /\ alarms' \subseteq Sessions /\ \A t \in Sessions : t \in alarms' => t \in alarms \/ t \in touched
    BY <1>1, AcksSame, AlarmsRaised DEF Append, Typed, IInv
  <1>3. FilesGrow /\ FilesTyped /\ FilesFrom
    <2>1. CASE ~connection(s)
      <3>1. UNCHANGED files /\ touched \subseteq touched'
        BY <1>1, <2>1 DEF Append
      <3> QED
        BY <3>1, FilesSame, SameFiles DEF Typed
    <2>2. CASE connection(s)
      <3>1. files[s].kind = "valid"
        BY <2>2 DEF connection, Readable
      <3>2. files' = [files EXCEPT ![s] = Longer(files[s], 1)]
        BY <2>2 DEF Append, Longer
      <3>3. 1 \in Nat
        BY SMT
      <3> QED
        BY <1>1, <3>1, <3>2, <3>3, Lengthens DEF Typed
    <2> QED
      BY <2>1, <2>2
  <1>4. StoreTyped' /\ StoreInv' /\ RepairInv' /\ QuietInv'
    BY <1>1, <1>2, <1>3, CallerStep DEF IInv
  <1>5. CallsTyped /\ CallInv'
    BY <1>1, <1>3, TablesSame, CallsStay DEF CallerFrame, IInv, ActorInv
  <1>6. LockInv' /\ DOMAIN owner' = Sessions
    BY <1>1 DEF IInv, ActorInv, LockInv, Typed, ActorsTyped
  <1>7. RowsGrow
    BY <1>1, RowsSame DEF CallerFrame, Typed
  <1> QED
    BY <1>3, <1>4, <1>5, <1>6, <1>7 DEF Kept, Typed, ActorsTyped, CallsTyped, IInv, ActorInv

\* A caller observes a session to publish what it is.
LEMMA ObserveStep ==
  ASSUME Typed, IInv, NEW c \in Callers, NEW s \in Sessions, Observe(c, s)
  PROVE  Kept
  <1>1. /\ up /\ call[c].pc = "idle" /\ repair.pc = "idle" /\ Raised(s)
        /\ UNCHANGED <<Tables, files, allocated, acks, owner, Outside>>
    BY DEF Observe, Admitted
  <1>2. /\ CallerFrame /\ FilesGrow /\ FilesTyped /\ FilesFrom /\ AcksFrom
        /\ alarms' \subseteq Sessions /\ \A t \in Sessions : t \in alarms' => t \in alarms \/ t \in touched
    BY <1>1, Reads, AcksSame, AlarmsRaised DEF Typed, IInv
  <1>3. CASE ~connection(s)
    <2>1. UNCHANGED call
      BY <1>3 DEF Observe
    <2>2. StoreTyped' /\ StoreInv' /\ RepairInv' /\ QuietInv'
      BY <1>1, <1>2, CallerStep DEF IInv
    <2>3. CallsTyped /\ CallInv'
      BY <1>2, <2>1, TablesSame, CallsStay DEF CallerFrame, IInv, ActorInv
    <2>4. LockInv' /\ DOMAIN owner' = Sessions
      BY <1>1, <2>1 DEF IInv, ActorInv, LockInv, Typed, ActorsTyped
    <2>5. RowsGrow
      BY <1>2, RowsSame DEF CallerFrame, Typed
    <2> QED
      BY <1>2, <2>2, <2>3, <2>4, <2>5 DEF Kept, Typed, ActorsTyped, CallsTyped, IInv, ActorInv
  <1>4. CASE connection(s)
    <2> DEFINE r == [pc |-> "publish", session |-> s, head |-> files[s].head, version |-> files[s].version]
    <2>1. files[s].kind = "valid" /\ files[s].head \in Nat /\ files[s].version \in Nat
      BY <1>4 DEF connection, Readable, Typed, StoreTyped, IsFile
    <2>2. /\ IsCall(r) /\ r.pc = "publish" /\ r.session = s
          /\ r.head = files[s].head /\ r.version = files[s].version
      BY <2>1, PublishCall
    <2>3. Become(c, r)
      BY <1>4 DEF Observe
    <2> HIDE DEF r
    <2>4. NotAhead(r, files'[s])
      <3>1. files[s].head <= files[s].head /\ files[s].version <= files[s].version
        BY <2>1, SMT
      <3> QED
        BY <1>1, <2>1, <2>2, <3>1 DEF NotAhead, Agrees
    <2>5. call'[c] = r
      BY <2>3 DEF Become, Typed, ActorsTyped
    <2>6. CallOK(c)'
      BY <2>2, <2>4, <2>5 DEF CallOK, Reserved, Creating
    <2>7. LockInv' /\ DOMAIN owner' = Sessions
      BY <1>1, <2>3, Retains DEF IInv, ActorInv, Holding
    <2> QED
      BY <1>1, <1>2, <2>2, <2>3, <2>6, <2>7, CallerMoves
  <1> QED
    BY <1>3, <1>4

-----------------------------------------------------------------------------
(***************************************************************************)
(* Steps of callers that write the tables.                                 *)
(***************************************************************************)
TablesTyped ==
  /\ DOMAIN rows' = Sessions /\ \A s \in Sessions : IsRow(rows'[s])
  /\ DOMAIN commands' = Operations /\ \A o \in Operations : IsCommand(commands'[o])

\* The first two conjuncts of CommandInv after a step.
CommandsServed ==
  \A o \in Operations :
    /\ commands'[o].state = "accepted" /\ commands'[o].session \notin touched' =>
         files'[commands'[o].session].kind = "valid"
    /\ commands'[o].state = "creating" /\ commands'[o].session \notin touched' =>
         \/ rows'[commands'[o].session].availability = "creating"
         \/ files'[commands'[o].session] = EmptyFile

\* A transaction of a caller on the catalog.
LEMMA TableStep ==
  ASSUME Typed, IInv, up, repair.pc = "idle",
         UNCHANGED <<up, catalog, files, away, unsafe, repair, repairs, touched, forgotten, alarms>>,
         allocated' \in Nat, TablesTyped, AcksFrom, CommandsKept, CommandsServed,
         EvidenceInv', EntryInv', SeenInv', RowsGrow,
         \A s \in Sessions : rows'[s].availability = "ready" /\ s \notin touched =>
           rows'[s] = rows[s] \/ NotAhead(rows'[s], files[s]),
         NEW c \in Callers, NEW r, Become(c, r), IsCall(r),
         r.pc \in Reserved \cup {"publish"} => CallOK(c)', LockInv' /\ DOMAIN owner' = Sessions
  PROVE  Kept
  <1>1. FilesGrow /\ FilesTyped
    BY FilesSame
  <1>2. StoreTyped'
    BY <1>1 DEF Typed, StoreTyped, FilesTyped, TablesTyped, AcksFrom
  <1>3. CallsTyped /\ CallInv'
    BY <1>1, CallStep DEF IInv, ActorInv
  <1>4. SessionInv'
    BY <1>1, SameBuckets, SessionsStep DEF IInv, StoreInv
  <1>5. CommandInv'
    <2>1. \A o \in Operations : \A a \in acks'[o] : a[1] \notin touched' => files'[a[1]].kind = "valid"
      BY <1>1, AcksStep DEF CommandsServed, IInv, StoreInv, Typed
    <2> QED
      BY <2>1 DEF CommandInv, CommandsServed
  <1>6. LostInv'
    BY DEF IInv, StoreInv, LostInv
  <1>7. RepairInv' /\ QuietInv'
    BY NoScan DEF RepairInv
  <1> QED
    BY <1>1, <1>2, <1>3, <1>4, <1>5, <1>6, <1>7 DEF Kept, Typed, ActorsTyped, CallsTyped, IInv, ActorInv, StoreInv

LEMMA CommandServed ==
  ASSUME CommandInv, NEW o \in Operations, UNCHANGED <<files, touched>>, commands'[o] = commands[o],
         commands[o].state # "none" => rows'[commands[o].session] = rows[commands[o].session]
  PROVE  /\ commands'[o].state = "accepted" /\ commands'[o].session \notin touched' =>
              files'[commands'[o].session].kind = "valid"
         /\ commands'[o].state = "creating" /\ commands'[o].session \notin touched' =>
              \/ rows'[commands'[o].session].availability = "creating"
              \/ files'[commands'[o].session] = EmptyFile
  BY DEF CommandInv

LEMMA SameEntry ==
  ASSUME NEW s, rows'[s].availability = rows[s].availability, Claims(s)' = Claims(s),
         \A o \in Claims(s) : commands'[o].state = commands[o].state
  PROVE  BadEntry(s)' <=> BadEntry(s)
  <1>1. Paired(s)' <=> Paired(s)
    BY DEF Paired
  <1> QED
    BY <1>1 DEF BadEntry, Listed

\* The row of a session and its one command are written together.
LEMMA Registers ==
  ASSUME Typed, StoreInv, UNCHANGED <<required, files, touched>>,
         NEW s \in Sessions, NEW o \in Operations, NEW r, IsRow(r), NEW k, IsCommand(k),
         rows' = [rows EXCEPT ![s] = r], commands' = [commands EXCEPT ![o] = k],
         k.state # "none", k.session = s,
         commands[o].state # "none" => /\ commands[o].session = s /\ k.payload = commands[o].payload
                                       /\ k.state # "creating",
         \A q \in Operations : commands[q].state # "none" /\ commands[q].session = s => q = o,
         r.availability = "ready" => k.state = "accepted",
         r.availability = "creating" <=> k.state = "creating",
         k.state = "accepted" /\ s \notin touched => files[s].kind = "valid"
  PROVE  TablesTyped /\ CommandsKept /\ CommandsServed /\ EntryInv'
  <1>1. /\ DOMAIN rows' = Sessions /\ rows'[s] = r /\ \A t \in Sessions : t # s => rows'[t] = rows[t]
        /\ DOMAIN commands' = Operations /\ commands'[o] = k
        /\ \A q \in Operations : q # o => commands'[q] = commands[q]
    BY DEF Typed, StoreTyped
  <1>2. TablesTyped
    BY <1>1 DEF TablesTyped, Typed, StoreTyped
  <1>3. \A q \in Operations : commands[q].state # "none" => commands[q].session \in Sessions
    BY DEF Typed, StoreTyped, IsCommand
  <1>4. CommandsKept
    BY <1>1, <1>3 DEF CommandsKept
  <1>5. CommandsServed
    <2> SUFFICES ASSUME NEW q \in Operations
                 PROVE  /\ commands'[q].state = "accepted" /\ commands'[q].session \notin touched' =>
                             files'[commands'[q].session].kind = "valid"
                        /\ commands'[q].state = "creating" /\ commands'[q].session \notin touched' =>
                             \/ rows'[commands'[q].session].availability = "creating"
                             \/ files'[commands'[q].session] = EmptyFile
      BY DEF CommandsServed
    <2>1. CASE q = o
      BY <1>1, <2>1
    <2>2. CASE q # o
      <3>1. commands'[q] = commands[q]
        BY <1>1, <2>2
      <3>2. commands[q].state # "none" => rows'[commands[q].session] = rows[commands[q].session]
        BY <1>1, <1>3, <2>2
      <3> QED
        BY <3>1, <3>2, CommandServed DEF StoreInv
    <2> QED
      BY <2>1, <2>2
  <1>6. EntryInv'
    <2>1. ASSUME NEW t \in Sessions, ~BadEntry(t), t # s
          PROVE  ~BadEntry(t)'
      <3>1. \A q \in Operations : q \in Claims(t)' <=> q \in Claims(t)
        BY <1>1, <2>1 DEF Claims
      <3>2. \A q \in Claims(t) : commands'[q] = commands[q] /\ q \in Operations
        BY <1>1, <2>1 DEF Claims
      <3>3. Claims(t)' = Claims(t)
        BY <3>1 DEF Claims
      <3> QED
        BY <1>1, <2>1, <3>2, <3>3, SameEntry
    <2>2. ~BadEntry(s)'
      <3>1. o \in Claims(s)' /\ \A q \in Claims(s)' : q = o
        BY <1>1 DEF Claims
      <3> QED
        BY <1>1, <3>1 DEF BadEntry, Listed, Paired
    <2> QED
      BY <2>1, <2>2 DEF EntryInv, StoreInv
  <1> QED
    BY <1>2, <1>4, <1>5, <1>6

\* Commands keep their claims and files their provenance.
LEMMA ClaimsKept ==
  ASSUME EvidenceInv, UNCHANGED <<files, away, allocated, forgotten>>, AcksFrom,
         \A o \in Operations : /\ commands'[o].state # "none" <=> commands[o].state # "none"
                               /\ commands[o].state # "none" =>
                                    /\ commands'[o].session = commands[o].session
                                    /\ commands'[o].payload = commands[o].payload
  PROVE  EvidenceInv'
  <1>1. \A s \in Sessions : files'[s].kind = "valid" => Evidence(s, files'[s].operation, files'[s].payload)
    BY DEF Evidence
  <1>2. \A s \in Sessions : away'[s].kind = "valid" => Evidence(s, away'[s].operation, away'[s].payload)
    BY DEF Evidence
  <1>3. \A o \in Operations : commands'[o].state # "none" =>
          Evidence(commands'[o].session, o, commands'[o].payload)
    BY DEF Evidence
  <1>4. ASSUME NEW o \in Operations, NEW s \in Sessions, NEW p \in Payloads, <<s, p>> \in acks'[o]
        PROVE  Evidence(s, o, p)
    <2>1. CASE <<s, p>> \in acks[o]
      BY <2>1 DEF Evidence
    <2>2. CASE commands'[o].state = "accepted" /\ commands'[o].session = s /\ commands'[o].payload = p
      BY <1>3, <2>2
    <2> QED
      BY <1>4, <2>1, <2>2 DEF AcksFrom
  <1>5. NothingNew /\ Remembers
    BY <1>1, <1>2, <1>3, <1>4 DEF NothingNew, Remembers
  <1> QED
    BY <1>5, EvidenceKept

\* The rows and commands that are written.
Failed(row) == [row EXCEPT !.availability = "unavailable", !.fault = "integrity"]
Published(row, h, v) == [row EXCEPT !.head = h, !.version = v]
Settled(k, state) == [k EXCEPT !.state = state]
Reservation(s, p) == [state |-> "creating", session |-> s, payload |-> p]

LEMMA CreatingRowFacts == IsRow(CreatingRow) /\ CreatingRow.availability = "creating" /\ CreatingRow.seen = 0
  <1> DEFINE n == CreatingRow
  <1>1. /\ DOMAIN n = RowFields /\ n.availability = "creating" /\ n.head = 0 /\ n.version = 1 /\ n.seen = 0
        /\ 0 \in Nat /\ 1 \in Nat
    BY SMT DEF CreatingRow, NoRow, RowFields
  <1> HIDE DEF n
  <1>2. IsRow(n)
    BY <1>1 DEF IsRow
  <1> QED
    BY <1>1, <1>2 DEF n

LEMMA ReadyRowFacts ==
  ASSUME NEW row, IsRow(row), NEW h, NEW v, h \in Nat, v \in Nat
  PROVE  /\ IsRow(ReadyRow(row, h, v)) /\ ReadyRow(row, h, v).availability = "ready"
         /\ ReadyRow(row, h, v).head = h /\ ReadyRow(row, h, v).version = v
         /\ ReadyRow(row, h, v).seen = row.seen
  <1> DEFINE n == ReadyRow(row, h, v)
  <1>1. DOMAIN row = RowFields /\ row.seen \in Nat
    BY DEF IsRow
  <1>2. /\ DOMAIN n = RowFields /\ n.availability = "ready" /\ n.head = h /\ n.version = v /\ n.seen = row.seen
    BY <1>1, SMT DEF ReadyRow, RowFields
  <1> HIDE DEF n
  <1>3. IsRow(n)
    BY <1>1, <1>2 DEF IsRow
  <1> QED
    BY <1>2, <1>3 DEF n

LEMMA FailedFacts ==
  ASSUME NEW row, IsRow(row)
  PROVE  IsRow(Failed(row)) /\ Failed(row).availability = "unavailable" /\ Failed(row).seen = row.seen
  <1> DEFINE n == Failed(row)
  <1>1. DOMAIN row = RowFields /\ row.seen \in Nat /\ row.head \in Nat /\ row.version \in Nat
    BY DEF IsRow
  <1>2. /\ DOMAIN n = RowFields /\ n.availability = "unavailable" /\ n.head = row.head
        /\ n.version = row.version /\ n.seen = row.seen
    BY <1>1, SMT DEF Failed, RowFields
  <1> HIDE DEF n
  <1>3. IsRow(n)
    BY <1>1, <1>2 DEF IsRow
  <1> QED
    BY <1>2, <1>3 DEF n

LEMMA PublishedFacts ==
  ASSUME NEW row, IsRow(row), row.availability = "ready", NEW h, NEW v, h \in Nat, v \in Nat
  PROVE  /\ IsRow(Published(row, h, v)) /\ Published(row, h, v).availability = "ready"
         /\ Published(row, h, v).head = h /\ Published(row, h, v).version = v
         /\ Published(row, h, v).seen = row.seen
  <1> DEFINE n == Published(row, h, v)
  <1>1. DOMAIN row = RowFields /\ row.seen \in Nat
    BY DEF IsRow
  <1>2. /\ DOMAIN n = RowFields /\ n.availability = "ready" /\ n.head = h /\ n.version = v /\ n.seen = row.seen
    BY <1>1, SMT DEF Published, RowFields
  <1> HIDE DEF n
  <1>3. IsRow(n)
    BY <1>1, <1>2 DEF IsRow
  <1> QED
    BY <1>2, <1>3 DEF n

LEMMA SettledFacts ==
  ASSUME NEW k, IsCommand(k), k.state # "none", NEW state, state # "none"
  PROVE  LET n == Settled(k, state) IN
         IsCommand(n) /\ n.state = state /\ n.session = k.session /\ n.payload = k.payload
  <1> DEFINE n == Settled(k, state)
  <1>1. DOMAIN k = CommandFields /\ k.session \in Sessions /\ k.payload \in Payloads
    BY DEF IsCommand
  <1>2. DOMAIN n = CommandFields /\ n.state = state /\ n.session = k.session /\ n.payload = k.payload
    BY <1>1, SMT DEF Settled, CommandFields
  <1> HIDE DEF n
  <1>3. IsCommand(n)
    BY <1>1, <1>2 DEF IsCommand
  <1> QED
    BY <1>2, <1>3 DEF n

LEMMA ReservationFacts ==
  ASSUME NEW s \in Sessions, NEW p \in Payloads
  PROVE  LET k == Reservation(s, p) IN
         IsCommand(k) /\ k.state = "creating" /\ k.session = s /\ k.payload = p
  <1> DEFINE k == Reservation(s, p)
  <1>1. DOMAIN k = CommandFields /\ k.state = "creating" /\ k.session = s /\ k.payload = p
    BY SMT DEF Reservation, CommandFields
  <1> HIDE DEF k
  <1>2. IsCommand(k)
    BY <1>1 DEF IsCommand
  <1> QED
    BY <1>1, <1>2 DEF k

\* A new session is one that nothing is known of.
LEMMA NewCreation ==
  ASSUME StoreTyped, EvidenceInv, NEW o \in Operations, NEW p \in Payloads, NEW s \in Sessions,
         commands[o].state = "none", s = allocated + 1, allocated' = s,
         UNCHANGED <<files, away, acks, forgotten>>,
         commands'[o].state = "creating", commands'[o].session = s, commands'[o].payload = p,
         \A q \in Operations : q # o => commands'[q] = commands[q]
  PROVE  /\ EvidenceInv'
         /\ \A q \in Operations : commands[q].state # "none" => commands[q].session # s
  <1>1. \A t \in Sessions : t <= allocated => t <= allocated' /\ t # s
    BY SMT DEF StoreTyped, Sessions
  <1>2. \A t \in Sessions, q \in Operations, r \in Payloads : Evidence(t, q, r) => t <= allocated' /\ t # s
    BY <1>1 DEF EvidenceInv
  <1>3. ASSUME NEW t \in Sessions, NEW q \in Operations, NEW r \in Payloads, Evidence(t, q, r)'
        PROVE  Evidence(t, q, r) \/ (t = s /\ q = o /\ r = p)
    BY <1>3 DEF Evidence
  <1>4. ASSUME NEW t \in Sessions, NEW q \in Operations, NEW r \in Payloads, Evidence(t, q, r)'
        PROVE  /\ t <= allocated'
               /\ \A u \in Operations, v \in Payloads : Evidence(t, u, v)' => u = q /\ v = r
               /\ ~forgotten' => commands'[q].state # "none" /\ commands'[q].session = t
    <2>1. CASE t = s /\ q = o /\ r = p
      <3>1. s <= s
        BY SMT DEF Sessions
      <3>2. \A u \in Operations, v \in Payloads : Evidence(t, u, v)' => u = q /\ v = r
        BY <1>2, <1>3, <2>1
      <3> QED
        BY <2>1, <3>1, <3>2
    <2>2. CASE Evidence(t, q, r)
      <3>1. t <= allocated' /\ t # s
        BY <1>2, <2>2
      <3>2. \A u \in Operations, v \in Payloads : Evidence(t, u, v)' => Evidence(t, u, v)
        BY <1>3, <3>1
      <3>3. \A u \in Operations, v \in Payloads : Evidence(t, u, v)' => u = q /\ v = r
        BY <2>2, <3>2, OneCreation, ZenonT(40)
      <3>4. ~forgotten' => commands'[q].state # "none" /\ commands'[q].session = t
        BY <2>2 DEF EvidenceInv
      <3> QED
        BY <3>1, <3>3, <3>4
    <2> QED
      BY <1>3, <1>4, <2>1, <2>2
  <1>5. EvidenceInv'
    BY <1>4 DEF EvidenceInv
  <1>6. ASSUME NEW q \in Operations, commands[q].state # "none"
        PROVE  commands[q].session # s
    <2>1. commands[q].session \in Sessions /\ commands[q].payload \in Payloads
      BY <1>6 DEF StoreTyped, IsCommand
    <2>2. Evidence(commands[q].session, q, commands[q].payload)
      BY <1>6 DEF Evidence
    <2> QED
      BY <1>2, <2>1, <2>2
  <1> QED
    BY <1>5, <1>6

\* A new session for a new command.
LEMMA ReserveStep ==
  ASSUME Typed, IInv, NEW c \in Callers, Reserve(c)
  PROVE  Kept
  <1> DEFINE o == call[c].operation
             p == call[c].payload
             s == allocated + 1
             k == Reservation(s, p)
  <1>1. up /\ repair.pc = "idle" /\ call[c].pc = "reserve" /\ commands[o].state = "none" /\ s \in Sessions
    BY NoScanning DEF IInv, ActorInv, Reserve, At, Active, Unreserved
  <1>2. /\ allocated' = s /\ commands' = [commands EXCEPT ![o] = k] /\ rows' = [rows EXCEPT ![s] = CreatingRow]
        /\ UNCHANGED <<required, files, acks, alarms, Outside>>
    BY DEF Reserve, Reservation
  <1>3. UNCHANGED <<up, catalog, required, files, away, unsafe, repair, repairs, touched, forgotten, alarms, acks>>
    BY <1>2 DEF Outside
  <1>4. o \in Operations /\ p \in Payloads /\ IsCall(call[c]) /\ allocated' \in Nat
    <2>1. allocated + 1 \in Nat
      BY SMT DEF Typed, StoreTyped
    <2> QED
      BY <1>1, <1>2, <2>1 DEF Typed, ActorsTyped, IsCall, Creating
  <1>5. IsCommand(k) /\ k.state = "creating" /\ k.session = s /\ k.payload = p
    BY <1>1, <1>4, ReservationFacts
  <1> HIDE DEF k
  <1>6. /\ commands'[o] = k /\ \A q \in Operations : q # o => commands'[q] = commands[q]
        /\ rows'[s] = CreatingRow /\ \A t \in Sessions : t # s => rows'[t] = rows[t]
    BY <1>1, <1>2, <1>4 DEF Typed, StoreTyped
  <1>7. EvidenceInv' /\ \A q \in Operations : commands[q].state # "none" => commands[q].session # s
    <2>1. /\ commands'[o].state = "creating" /\ commands'[o].session = s /\ commands'[o].payload = p
          /\ \A q \in Operations : q # o => commands'[q] = commands[q]
      BY <1>5, <1>6
    <2>2. allocated' = s /\ UNCHANGED <<files, away, acks, forgotten>> /\ StoreTyped /\ EvidenceInv
      BY <1>2, <1>3 DEF Typed, IInv, StoreInv
    <2> QED
      BY <1>1, <1>4, <2>1, <2>2, NewCreation
  <1>8. TablesTyped /\ CommandsKept /\ CommandsServed /\ EntryInv'
    BY <1>1, <1>2, <1>3, <1>4, <1>5, <1>7, CreatingRowFacts, Registers DEF IInv, StoreInv
  <1>9. SeenInv'
    <2>1. 0 <= repairs
      BY SMT DEF Typed, StoreTyped
    <2> QED
      BY <1>3, <1>6, <2>1, CreatingRowFacts DEF IInv, StoreInv, SeenInv
  <1>10. \A t \in Sessions : rows'[t].availability = "ready" => rows'[t] = rows[t]
    BY <1>6, CreatingRowFacts
  <1>11. AcksFrom /\ RowsGrow
    BY <1>3, <1>10, AcksSame, RowsSame DEF Typed
  <1>12. CASE End(c)
    <2>1. Become(c, Idle) /\ owner' = Released(c)
      BY <1>12 DEF End
    <2>2. LockInv' /\ DOMAIN owner' = Sessions
      BY <2>1, Releases DEF IInv, ActorInv
    <2>3. Idle.pc \notin Reserved \cup {"publish"}
      BY IdleCall DEF Reserved, Creating
    <2> QED
      BY <1>1, <1>3, <1>4, <1>7, <1>8, <1>9, <1>10, <1>11, <2>1, <2>2, <2>3, IdleCall, TableStep
  <1>13. CASE Become(c, [call[c] EXCEPT !.pc = "enter"]) /\ UNCHANGED owner
    <2> DEFINE r == [call[c] EXCEPT !.pc = "enter"]
    <2>1. IsCall(r) /\ r.pc = "enter" /\ r.operation = o /\ r.payload = p
      BY <1>1, <1>4, CreationMoves DEF Creating
    <2>2. Become(c, r)
      BY <1>13
    <2> HIDE DEF r
    <2>3. LockInv' /\ DOMAIN owner' = Sessions
      BY <1>1, <1>13, <2>2, Retains DEF IInv, ActorInv, Holding
    <2>4. call'[c] = r
      BY <2>2 DEF Become, Typed, ActorsTyped
    <2>5. CallOK(c)'
      BY <1>5, <1>6, <2>1, <2>4, CreatingRowFacts DEF CallOK
    <2> QED
      BY <1>1, <1>3, <1>4, <1>7, <1>8, <1>9, <1>10, <1>11, <2>1, <2>2, <2>3, <2>5, TableStep
  <1> QED
    BY <1>12, <1>13 DEF Reserve

\* Two commands do not claim one session.
LEMMA OneClaim ==
  ASSUME StoreTyped, EvidenceInv, NEW o \in Operations, NEW q \in Operations, commands[o].state # "none",
         commands[q].state # "none", commands[q].session = commands[o].session
  PROVE  q = o
  <1>1. /\ commands[o].session \in Sessions /\ commands[o].payload \in Payloads
        /\ commands[q].payload \in Payloads
    BY DEF StoreTyped, IsCommand
  <1>2. /\ Evidence(commands[o].session, o, commands[o].payload)
        /\ Evidence(commands[o].session, q, commands[q].payload)
    BY DEF Evidence
  <1> QED
    BY <1>1, <1>2, OneCreation

\* The reservation is settled, with a session or with a fault.
LEMMA Settles ==
  ASSUME Typed, StoreInv, UNCHANGED <<required, files, away, allocated, repairs, touched, forgotten>>,
         NEW o \in Operations, commands[o].state = "creating",
         NEW s \in Sessions, s = commands[o].session, rows[s].availability = "creating",
         NEW state \in {"accepted", "failed"}, NEW row, IsRow(row), row.seen = rows[s].seen,
         row.availability \in {"ready", "unavailable"}, row.availability = "ready" <=> state = "accepted",
         state = "accepted" /\ s \notin touched => NotAhead(row, files[s]),
         rows' = [rows EXCEPT ![s] = row], commands' = [commands EXCEPT ![o] = Settled(commands[o], state)],
         AcksFrom
  PROVE  /\ TablesTyped /\ CommandsKept /\ CommandsServed /\ EntryInv' /\ EvidenceInv' /\ SeenInv' /\ RowsGrow
         /\ \A t \in Sessions : rows'[t].availability = "ready" /\ t \notin touched =>
              rows'[t] = rows[t] \/ NotAhead(rows'[t], files[t])
  <1> DEFINE k == Settled(commands[o], state)
  <1>1. IsCommand(k) /\ k.state = state /\ k.session = s /\ k.payload = commands[o].payload
    <2>1. IsCommand(commands[o]) /\ commands[o].state # "none" /\ state # "none"
      BY DEF Typed, StoreTyped
    <2> QED
      BY <2>1, SettledFacts, SMT
  <1>2. commands' = [commands EXCEPT ![o] = k]
    OBVIOUS
  <1> HIDE DEF k
  <1>3. \A q \in Operations : commands[q].state # "none" /\ commands[q].session = s => q = o
    BY OneClaim DEF Typed, StoreInv
  <1>4. k.state = "accepted" /\ s \notin touched => files[s].kind = "valid"
    BY <1>1 DEF NotAhead
  <1>5. TablesTyped /\ CommandsKept /\ CommandsServed /\ EntryInv'
    <2>1. /\ k.state # "none" /\ k.state # "creating" /\ row.availability # "creating"
          /\ row.availability = "ready" => k.state = "accepted"
      BY <1>1
    <2> QED
      BY <1>1, <1>2, <1>3, <1>4, <2>1, Registers
  <1>6. /\ commands'[o] = k /\ \A q \in Operations : q # o => commands'[q] = commands[q]
        /\ rows'[s] = row /\ \A t \in Sessions : t # s => rows'[t] = rows[t]
    BY <1>2 DEF Typed, StoreTyped
  <1>7. EvidenceInv'
    <2>1. \A q \in Operations : /\ commands'[q].state # "none" <=> commands[q].state # "none"
                                /\ commands[q].state # "none" =>
                                     /\ commands'[q].session = commands[q].session
                                     /\ commands'[q].payload = commands[q].payload
      BY <1>1, <1>6
    <2> QED
      BY <2>1, ClaimsKept DEF StoreInv
  <1>8. SeenInv'
    <2>1. \A t \in Sessions : rows'[t].seen = rows[t].seen
      BY <1>6
    <2> QED
      BY <2>1 DEF StoreInv, SeenInv
  <1>9. \A t \in Sessions : rows'[t].availability = "ready" /\ t \notin touched =>
          rows'[t] = rows[t] \/ NotAhead(rows'[t], files[t])
    BY <1>6
  <1>10. RowsGrow
    <2>1. /\ \A n \in Nat : n >= n
      BY SMT
    <2>2. \A t \in Sessions : rows[t].head \in Nat /\ rows[t].version \in Nat
      BY DEF Typed, StoreTyped, IsRow
    <2> QED
      BY <1>6, <2>1, <2>2 DEF RowsGrow
  <1> QED
    BY <1>5, <1>7, <1>8, <1>9, <1>10

\* The reservation is completed with what the caller observed, or was completed by another caller.
LEMMA CompleteStep ==
  ASSUME Typed, IInv, NEW c \in Callers, Complete(c)
  PROVE  Kept
  <1> DEFINE o == call[c].operation
             s == commands[o].session
             h == call[c].head
             v == call[c].version
             row == ReadyRow(rows[s], h, v)
  <1>1. up /\ repair.pc = "idle" /\ call[c].pc = "complete" /\ call[c].pc \in Reserved /\ ~required
    BY NoScanning DEF IInv, ActorInv, Complete, At, Active, Reserved, Creating
  <1>2. UNCHANGED <<up, catalog, required, files, away, unsafe, allocated, repair, repairs, touched, forgotten, alarms>>
    BY DEF Complete, Outside
  <1>3. /\ commands[o].state # "none" /\ commands[o].payload = call[c].payload
        /\ s \notin touched => NotAhead(call[c], files[s])
    BY <1>1 DEF IInv, ActorInv, CallInv, CallOK
  <1>4. o \in Operations /\ s \in Sessions /\ call[c].payload \in Payloads /\ h \in Nat /\ v \in Nat
    BY <1>1, <1>3 DEF Typed, ActorsTyped, StoreTyped, IsCall, IsCommand, Reserved
  <1>5. ASSUME UNCHANGED <<rows, commands, acks>>, End(c)
        PROVE  Kept
    <2>1. CallerFrame /\ FilesGrow /\ FilesTyped /\ FilesFrom /\ AcksFrom
          /\ alarms' \subseteq Sessions /\ \A t \in Sessions : t \in alarms' => t \in alarms \/ t \in touched
      BY <1>2, <1>5, FilesSame, SameFiles, AcksSame, AlarmsSame DEF Typed, CallerFrame
    <2> QED
      BY <1>1, <1>5, <2>1, CallerEnds
  <1>6. ASSUME commands[o].state = "creating", rows[s].availability = "creating",
               rows' = [rows EXCEPT ![s] = ReadyRow(@, h, v)],
               commands' = [commands EXCEPT ![o].state = "accepted"],
               \/ Created(c) /\ acks' = [acks EXCEPT ![o] = @ \cup {<<s, call[c].payload>>}]
               \/ End(c) /\ UNCHANGED acks
        PROVE  Kept
    <2>1. rows' = [rows EXCEPT ![s] = row] /\ commands' = [commands EXCEPT ![o] = Settled(commands[o], "accepted")]
      BY <1>6 DEF Settled
    <2>2. /\ IsRow(row) /\ row.availability = "ready" /\ row.head = h /\ row.version = v /\ row.seen = rows[s].seen
      <3>1. IsRow(rows[s])
        BY <1>4 DEF Typed, StoreTyped
      <3> QED
        BY <1>4, <3>1, ReadyRowFacts, SMT
    <2> HIDE DEF row
    <2>3. s \notin touched => NotAhead(row, files[s])
      BY <1>3, <2>2 DEF NotAhead, Agrees
    <2>4. commands'[o].state = "accepted" /\ commands'[o].session = s /\ commands'[o].payload = call[c].payload
      <3>1. commands'[o] = Settled(commands[o], "accepted") /\ IsCommand(commands[o])
        BY <1>4, <2>1 DEF Typed, StoreTyped
      <3> QED
        BY <1>3, <3>1, SettledFacts, SMT
    <2>5. AcksFrom
      <3>1. CASE UNCHANGED acks
        BY <3>1, AcksSame DEF Typed
      <3>2. CASE acks' = [acks EXCEPT ![o] = @ \cup {<<s, call[c].payload>>}]
        <4> DEFINE a == <<s, call[c].payload>>
        <4>1. a \in Sessions \X Payloads
          BY <1>4, SMT
        <4>2. acks' \in [Operations -> SUBSET (Sessions \X Payloads)]
          BY <1>4, <3>2, <4>1, SMTT(30) DEF Typed, StoreTyped
        <4>3. \A q \in Operations : \A b : b \in acks'[q] => b \in acks[q] \/ (q = o /\ b = a)
          BY <3>2, SMT DEF Typed, StoreTyped
        <4>4. \A t, p : <<t, p>> = a => s = t /\ call[c].payload = p
          BY SMT
        <4>5. ASSUME NEW q \in Operations, NEW t \in Sessions, NEW p \in Payloads,
                     <<t, p>> \in acks'[q], <<t, p>> \notin acks[q]
              PROVE  commands'[q].state = "accepted" /\ commands'[q].session = t /\ commands'[q].payload = p
          <5>1. q = o /\ s = t /\ call[c].payload = p
            BY <4>3, <4>5, SMT
          <5> QED
            BY <2>4, <5>1
        <4> QED
          BY <4>2, <4>5 DEF AcksFrom
      <3> QED
        BY <1>6, <3>1, <3>2
    <2>6. /\ TablesTyped /\ CommandsKept /\ CommandsServed /\ EntryInv' /\ EvidenceInv' /\ SeenInv' /\ RowsGrow
          /\ \A t \in Sessions : rows'[t].availability = "ready" /\ t \notin touched =>
               rows'[t] = rows[t] \/ NotAhead(rows'[t], files[t])
      BY <1>2, <1>4, <1>6, <2>1, <2>2, <2>3, <2>5, Settles, ZenonT(40) DEF IInv
    <2>7. PICK r \in {Idle, [pc |-> "open", session |-> s]} : Become(c, r) /\ owner' = Released(c)
      BY <1>6 DEF Created, End
    <2>8. IsCall(r) /\ r.pc \in {"idle", "open"}
      <3>1. CASE r = Idle
        BY <3>1, IdleCall
      <3>2. CASE r = [pc |-> "open", session |-> s]
        BY <1>4, <3>2, OpeningCall
      <3> QED
        BY <3>1, <3>2
    <2>9. LockInv' /\ DOMAIN owner' = Sessions
      BY <2>7, Releases DEF IInv, ActorInv
    <2>10. r.pc \notin Reserved \cup {"publish"} /\ allocated' \in Nat
      BY <1>2, <2>8 DEF Reserved, Creating, Typed, StoreTyped
    <2> QED
      BY <1>1, <1>2, <2>5, <2>6, <2>7, <2>8, <2>9, <2>10, TableStep
  <1> QED
    BY <1>5, <1>6 DEF Complete

\* The reservation is settled with a fault.
LEMMA FailStep ==
  ASSUME Typed, IInv, NEW c \in Callers, Fail(c)
  PROVE  Kept
  <1> DEFINE o == call[c].operation
             s == commands[o].session
             row == Failed(rows[s])
  <1>1. up /\ repair.pc = "idle" /\ call[c].pc = "fail" /\ call[c].pc \in Reserved /\ ~required /\ End(c)
    BY NoScanning DEF IInv, ActorInv, Fail, At, Active, Reserved, Creating
  <1>2. UNCHANGED <<up, catalog, required, files, away, unsafe, allocated, repair, repairs, touched, forgotten,
                    alarms, acks>>
    BY DEF Fail, Outside
  <1>3. /\ AcksFrom /\ commands[o].state # "none"
        /\ commands[o].state = "creating" => rows[s].availability = "creating"
    BY <1>1, <1>2, AcksSame DEF Typed, IInv, ActorInv, CallInv, CallOK
  <1>4. o \in Operations /\ s \in Sessions
    BY <1>1, <1>3 DEF Typed, ActorsTyped, StoreTyped, IsCall, IsCommand, Reserved
  <1>5. CASE UNCHANGED <<rows, commands>>
    <2>1. CallerFrame /\ FilesGrow /\ FilesTyped /\ FilesFrom
          /\ alarms' \subseteq Sessions /\ \A t \in Sessions : t \in alarms' => t \in alarms \/ t \in touched
      BY <1>2, <1>5, FilesSame, SameFiles, AlarmsSame DEF Typed, CallerFrame
    <2> QED
      BY <1>1, <1>3, <2>1, CallerEnds
  <1>6. ASSUME commands[o].state = "creating", commands' = [commands EXCEPT ![o].state = "failed"],
               rows' = [rows EXCEPT ![s] = [@ EXCEPT !.availability = "unavailable", !.fault = "integrity"]]
        PROVE  Kept
    <2>1. rows' = [rows EXCEPT ![s] = row] /\ commands' = [commands EXCEPT ![o] = Settled(commands[o], "failed")]
      BY <1>6 DEF Settled, Failed
    <2>2. IsRow(row) /\ row.availability = "unavailable" /\ row.seen = rows[s].seen
      <3>1. IsRow(rows[s])
        BY <1>4 DEF Typed, StoreTyped
      <3> QED
        BY <3>1, FailedFacts
    <2> HIDE DEF row
    <2>3. /\ TablesTyped /\ CommandsKept /\ CommandsServed /\ EntryInv' /\ EvidenceInv' /\ SeenInv' /\ RowsGrow
          /\ \A t \in Sessions : rows'[t].availability = "ready" /\ t \notin touched =>
               rows'[t] = rows[t] \/ NotAhead(rows'[t], files[t])
      BY <1>2, <1>3, <1>4, <1>6, <2>1, <2>2, Settles DEF IInv
    <2>4. Become(c, Idle) /\ owner' = Released(c)
      BY <1>1 DEF End
    <2>5. LockInv' /\ DOMAIN owner' = Sessions
      BY <2>4, Releases DEF IInv, ActorInv
    <2>6. Idle.pc \notin Reserved \cup {"publish"} /\ allocated' \in Nat
      BY <1>2, IdleCall DEF Reserved, Creating, Typed, StoreTyped
    <2> QED
      BY <1>1, <1>2, <1>3, <2>3, <2>4, <2>5, <2>6, IdleCall, TableStep
  <1> QED
    BY <1>5, <1>6 DEF Fail

\* An observation is published only when it is not older than the row.
LEMMA PublishStep ==
  ASSUME Typed, IInv, NEW c \in Callers, publish(c)
  PROVE  Kept
  <1> DEFINE s == call[c].session
             row == Published(rows[s], call[c].head, call[c].version)
  <1>1. up /\ repair.pc = "idle" /\ call[c].pc = "publish" /\ ~required /\ End(c)
    BY NoScanning DEF IInv, ActorInv, publish, At, Active
  <1>2. UNCHANGED <<up, catalog, required, commands, files, away, unsafe, allocated, repair, repairs, touched,
                    forgotten, acks>>
    BY DEF publish, Outside
  <1>3. AcksFrom
    BY <1>2, AcksSame DEF Typed
  <1>4. s \in Sessions /\ call[c].head \in Nat /\ call[c].version \in Nat
    BY <1>1 DEF Typed, ActorsTyped, IsCall, Opening
  <1>7. ASSUME rows[s].availability = "ready", ~Supersedes(call[c], rows[s]), s \notin touched
        PROVE  Overtaken(call[c], files[s])
    <2>1. files[s].kind = "valid" /\ rows[s].head <= files[s].head /\ rows[s].version <= files[s].version
      BY <1>4, <1>7 DEF IInv, StoreInv, SessionInv, NotAhead, Agrees
    <2>2. /\ rows[s].head \in Nat /\ rows[s].version \in Nat
          /\ files[s].head \in Nat /\ files[s].version \in Nat
      BY <1>4, <2>1 DEF Typed, StoreTyped, IsRow, IsFile
    <2>3. ~(call[c].head >= rows[s].head /\ call[c].version >= rows[s].version)
      BY <1>7 DEF Supersedes
    <2>4. ~(files[s].head <= call[c].head /\ files[s].version <= call[c].version)
      BY <1>4, <2>1, <2>2, <2>3, SMT
    <2> QED
      BY <2>1, <2>4 DEF Overtaken, Agrees
  <1>8. alarms' \subseteq Sessions /\ \A t \in Sessions : t \in alarms' => t \in alarms \/ t \in touched
    <2>1. \/ UNCHANGED alarms
          \/ /\ rows[s].availability = "ready" /\ ~Supersedes(call[c], rows[s])
             /\ alarms' = alarms \cup {t \in {s} : ~Overtaken(call[c], files[t])}
      BY DEF publish, Session
    <2> QED
      BY <1>4, <1>7, <2>1 DEF Typed, StoreTyped
  <1>5. CASE UNCHANGED rows
    <2>1. CallerFrame /\ FilesGrow /\ FilesTyped /\ FilesFrom
      BY <1>2, <1>5, FilesSame, SameFiles DEF Typed, CallerFrame
    <2> QED
      BY <1>1, <1>3, <1>8, <2>1, CallerEnds
  <1>6. ASSUME rows[s].availability = "ready", Supersedes(call[c], rows[s]), UNCHANGED alarms,
               rows' = [rows EXCEPT ![s] = [@ EXCEPT !.head = call[c].head, !.version = call[c].version]]
        PROVE  Kept
    <2>1. rows' = [rows EXCEPT ![s] = row]
      BY <1>6 DEF Published
    <2>2. /\ IsRow(row) /\ row.availability = "ready" /\ row.head = call[c].head
          /\ row.version = call[c].version /\ row.seen = rows[s].seen
      <3>1. IsRow(rows[s])
        BY <1>4 DEF Typed, StoreTyped
      <3> QED
        BY <1>4, <1>6, <3>1, PublishedFacts, SMT
    <2> HIDE DEF row
    <2>3. DOMAIN rows' = Sessions /\ rows'[s] = row /\ \A t \in Sessions : t # s => rows'[t] = rows[t]
      BY <1>4, <2>1 DEF Typed, StoreTyped
    <2>4. \A t \in Sessions : rows'[t].availability = rows[t].availability /\ rows'[t].seen = rows[t].seen
      BY <1>6, <2>2, <2>3
    <2>5. TablesTyped
      BY <1>2, <2>2, <2>3 DEF TablesTyped, Typed, StoreTyped
    <2>6. CommandsKept
      BY <1>2, <2>4 DEF CommandsKept, Typed, StoreTyped, IsCommand
    <2>7. CommandsServed
      <3>1. \A q \in Operations : commands[q].state # "none" => commands[q].session \in Sessions
        BY DEF Typed, StoreTyped, IsCommand
      <3> QED
        BY <1>2, <2>4, <3>1 DEF CommandsServed, IInv, StoreInv, CommandInv
    <2>8. EntryInv'
      <3>1. \A t \in Sessions : Claims(t)' = Claims(t)
        BY <1>2 DEF Claims
      <3>2. \A t \in Sessions : BadEntry(t)' <=> BadEntry(t)
        BY <1>2, <2>4, <3>1, SameEntry
      <3> QED
        BY <1>2, <3>2 DEF EntryInv, IInv, StoreInv
    <2>9. SeenInv'
      BY <1>2, <2>4 DEF SeenInv, IInv, StoreInv
    <2>10. EvidenceInv'
      BY <1>2, <1>3, ClaimsKept DEF IInv, StoreInv
    <2>11. \A t \in Sessions : rows'[t].availability = "ready" /\ t \notin touched =>
             rows'[t] = rows[t] \/ NotAhead(rows'[t], files[t])
      <3>1. s \notin touched => NotAhead(call[c], files[s])
        BY <1>1 DEF IInv, ActorInv, CallInv, CallOK
      <3>2. s \notin touched => NotAhead(row, files[s])
        BY <2>2, <3>1 DEF NotAhead, Agrees
      <3> QED
        BY <2>3, <3>2
    <2>12. RowsGrow
      <3>1. \A t \in Sessions : rows[t].head >= rows[t].head /\ rows[t].version >= rows[t].version
        <4>1. \A n \in Nat : n >= n
          BY SMT
        <4> QED
          BY <4>1 DEF Typed, StoreTyped, IsRow
      <3> QED
        BY <1>6, <2>2, <2>3, <3>1 DEF RowsGrow, Supersedes
    <2>13. Become(c, Idle) /\ owner' = Released(c)
      BY <1>1 DEF End
    <2>14. LockInv' /\ DOMAIN owner' = Sessions
      BY <2>13, Releases DEF IInv, ActorInv
    <2>15. Idle.pc \notin Reserved \cup {"publish"} /\ allocated' \in Nat
      BY <1>2, IdleCall DEF Reserved, Creating, Typed, StoreTyped
    <2> QED
      BY <1>1, <1>2, <1>3, <1>6, <2>5, <2>6, <2>7, <2>8, <2>9, <2>10, <2>11, <2>13, <2>14, <2>15, <2>12, IdleCall, TableStep
  <1> QED
    BY <1>5, <1>6 DEF publish, Session

-----------------------------------------------------------------------------
(***************************************************************************)
(* The process and its files.                                              *)
(***************************************************************************)

\* A step that leaves the store alone.
LEMMA SameStore ==
  ASSUME StoreTyped, StoreInv, LostInv',
         UNCHANGED <<required, rows, commands, files, away, unsafe, allocated, repairs,
                     acks, alarms, touched, forgotten>>
  PROVE  StoreTyped' /\ StoreInv'
  <1>1. StoreTyped'
    BY DEF StoreTyped
  <1>2. EvidenceInv'
    BY AcksSame, ClaimsKept DEF StoreInv
  <1>3. SessionInv'
    BY DEF StoreInv, SessionInv, Safe
  <1>4. CommandInv'
    BY DEF StoreInv, CommandInv
  <1>5. EntryInv'
    BY SameEntries DEF StoreInv, EntryInv
  <1>6. SeenInv'
    BY DEF StoreInv, SeenInv
  <1> QED
    BY <1>1, <1>2, <1>3, <1>4, <1>5, <1>6 DEF StoreInv

LEMMA NoRepairRuns ==
  ASSUME repair'.pc = "idle", \A c \in Callers : call'[c].pc = "idle"
  PROVE  QuietInv' /\ RepairInv' /\ CallInv'
  BY DEF QuietInv, RepairInv, ScanInv, RebuildInv, CallInv, CallOK, Reserved, Creating

\* A crash loses the operations and the locks, and nothing else.
LEMMA CrashStep ==
  ASSUME Typed, IInv, Crash
  PROVE  Kept
  <1>1. /\ call' = [c \in Callers |-> Idle] /\ owner' = [s \in Sessions |-> Free] /\ repair' = NoRepair
        /\ UNCHANGED <<catalog, required, rows, commands, files, away, unsafe, allocated, repairs,
                       acks, alarms, touched, forgotten>>
    BY DEF Crash, Tables
  <1>2. StoreTyped' /\ StoreInv'
    BY <1>1, SameStore DEF Typed, IInv, StoreInv, LostInv
  <1>3. \A c \in Callers : call'[c].pc = "idle" /\ IsCall(call'[c])
    BY <1>1, IdleCall
  <1>4. ActorsTyped' /\ LockInv'
    BY <1>1, <1>3 DEF ActorsTyped, LockInv
  <1>5. repair'.pc = "idle"
    BY <1>1 DEF NoRepair
  <1>6. FilesGrow /\ RowsGrow
    BY <1>1, FilesSame, RowsSame DEF Typed
  <1> QED
    BY <1>2, <1>3, <1>4, <1>5, <1>6, NoRepairRuns DEF Kept, Typed, IInv, ActorInv

LEMMA NoRowFacts == IsRow(NoRow) /\ NoRow.availability = "absent" /\ NoRow.seen = 0
  <1>1. DOMAIN NoRow = RowFields /\ 0 \in Nat /\ 1 \in Nat
    BY SMT DEF NoRow, RowFields
  <1>2. NoRow.availability = "absent" /\ NoRow.seen = 0 /\ NoRow.head = 0 /\ NoRow.version = 1
    BY DEF NoRow
  <1> QED
    BY <1>1, <1>2 DEF IsRow

\* A new catalog beside the sessions that survived.
LEMMA NewCatalog ==
  ASSUME StoreTyped, StoreInv, forgotten, rows' = [s \in Sessions |-> NoRow],
         commands' = [o \in Operations |-> NoCommand], catalog' = "ready",
         UNCHANGED <<files, away, unsafe, allocated, repairs, acks, alarms, touched, forgotten>>
  PROVE  StoreTyped' /\ StoreInv'
  <1>1. /\ DOMAIN rows' = Sessions /\ \A s \in Sessions : rows'[s] = NoRow
        /\ DOMAIN commands' = Operations /\ \A o \in Operations : commands'[o].state = "none"
    BY DEF NoCommand
  <1>2. StoreTyped'
    BY <1>1, NoRowFacts DEF StoreTyped, IsCommand
  <1>3. EvidenceInv'
    <2>1. \A s \in Sessions : files'[s].kind = "valid" => Evidence(s, files'[s].operation, files'[s].payload)
      BY DEF Evidence
    <2>2. \A s \in Sessions : away'[s].kind = "valid" => Evidence(s, away'[s].operation, away'[s].payload)
      BY DEF Evidence
    <2>3. \A o \in Operations, s \in Sessions, p \in Payloads : <<s, p>> \in acks'[o] => Evidence(s, o, p)
      BY DEF Evidence
    <2>4. NothingNew /\ Remembers
      BY <1>1, <2>1, <2>2, <2>3 DEF NothingNew, Remembers
    <2> QED
      BY <2>4, EvidenceKept DEF StoreInv
  <1>4. SessionInv'
    BY <1>1, NoRowFacts DEF StoreInv, SessionInv, Safe
  <1>5. CommandInv'
    BY <1>1 DEF StoreInv, CommandInv
  <1>6. EntryInv'
    BY <1>1, NoRowFacts DEF EntryInv, BadEntry, Listed
  <1>7. SeenInv'
    <2>1. 0 <= repairs
      BY SMT DEF StoreTyped
    <2> QED
      BY <1>1, <2>1, NoRowFacts DEF SeenInv
  <1> QED
    BY <1>2, <1>3, <1>4, <1>5, <1>6, <1>7 DEF StoreInv, LostInv

\* A process takes over the root.
LEMMA OpenStep ==
  ASSUME Typed, IInv, Open
  PROVE  Kept
  <1>1. ~up /\ up' /\ catalog' = "ready" /\ UNCHANGED <<files, away, unsafe, allocated, actors, ghosts>>
    BY DEF Open
  <1>2. UNCHANGED <<files, away, unsafe, allocated, call, owner, repair, repairs, acks, alarms, touched, forgotten>>
    BY <1>1 DEF actors, ghosts
  <1>3. repair.pc = "idle" /\ \A c \in Callers : call[c].pc = "idle"
    BY <1>1 DEF IInv, ActorInv, QuietInv
  <1>4. StoreTyped' /\ StoreInv'
    <2>1. CASE catalog = "ready"
      <3>1. UNCHANGED <<required, rows, commands>> /\ LostInv'
        BY <1>1, <2>1 DEF Open, Tables, LostInv
      <3> QED
        BY <1>2, <3>1, SameStore DEF Typed, IInv
    <2>2. CASE catalog # "ready"
      BY <1>1, <1>2, <2>2, NewCatalog DEF Open, Typed, IInv, StoreInv, LostInv
    <2> QED
      BY <2>1, <2>2
  <1>5. ActorsTyped' /\ LockInv'
    BY <1>2 DEF Typed, ActorsTyped, IInv, ActorInv, LockInv
  <1>6. FilesGrow
    BY <1>2, FilesSame
  <1>7. RowsGrow
    <2>1. \A s \in Sessions : rows'[s] = rows[s] \/ rows'[s] = NoRow
      BY DEF Open, Tables
    <2> QED
      BY <2>1, NoRowFacts, RowsSame DEF Typed
  <1> QED
    BY <1>2, <1>3, <1>4, <1>5, <1>6, <1>7, NoRepairRuns DEF Kept, Typed, IInv, ActorInv

\* A process that is lost before it has initialized a new catalog.
LEMMA OpenCrashStep ==
  ASSUME Typed, IInv, OpenCrash
  PROVE  Kept
  <1>1. /\ ~up /\ catalog = "absent"
        /\ UNCHANGED <<up, required, rows, commands, files, away, unsafe, allocated, call, owner, repair,
                       repairs, acks, alarms, touched, forgotten>>
    BY DEF OpenCrash, Tables, actors
  <1>2. LostInv'
    BY <1>1 DEF IInv, StoreInv, LostInv
  <1>3. StoreTyped' /\ StoreInv'
    BY <1>1, <1>2, SameStore DEF Typed, IInv
  <1>4. ActorsTyped' /\ LockInv'
    BY <1>1 DEF Typed, ActorsTyped, IInv, ActorInv, LockInv
  <1>5. repair'.pc = "idle" /\ \A c \in Callers : call'[c].pc = "idle"
    BY <1>1 DEF IInv, ActorInv, QuietInv
  <1>6. FilesGrow /\ RowsGrow
    BY <1>1, FilesSame, RowsSame DEF Typed
  <1> QED
    BY <1>3, <1>4, <1>5, <1>6, NoRepairRuns DEF Kept, Typed, IInv, ActorInv

\* Other hands change a session: it counts as touched, and a scan as disturbed.
LEMMA TouchStep ==
  ASSUME Typed, IInv, NEW S, Touch(S), FilesTyped,
         DOMAIN away' = Sessions, \A s \in Sessions : IsFile(away'[s]),
         \A s \in Sessions : s \notin touched' => files'[s] = files[s],
         \A s \in Sessions : files'[s].kind = "valid" => Evidence(s, files'[s].operation, files'[s].payload),
         \A s \in Sessions : away'[s].kind = "valid" => Evidence(s, away'[s].operation, away'[s].payload),
         \A s \in Sessions : ~Safe(s)' => ~Safe(s) \/ s \in touched',
         forgotten' \/ (~forgotten /\ catalog' = catalog)
  PROVE  Kept
  <1>1. /\ UNCHANGED <<up, required, rows, commands, allocated, call, owner, repairs, acks, alarms>>
        /\ touched \subseteq touched'
    BY DEF Touch, Tables
  <1>2. FilesGrow
    <2>1. \A s \in Sessions : files[s].kind = "valid" =>
            files[s].head >= files[s].head /\ files[s].version >= files[s].version
      <3>1. \A n \in Nat : n >= n
        BY SMT
      <3> QED
        BY <3>1 DEF Typed, StoreTyped, IsFile
    <2> QED
      BY <1>1, <2>1 DEF FilesGrow
  <1>3. /\ repair'.pc = repair.pc
        /\ repair.pc # "idle" => repair.pc = "scan" /\ DOMAIN repair' = RepairFields /\ repair'.disturbed
    <2>1. repair.pc # "idle" => repair.pc = "scan" /\ DOMAIN repair = RepairFields
      BY DEF IInv, ActorInv, QuietInv
    <2>2. CASE repair.pc = "idle"
      BY <2>2 DEF Touch
    <2>3. CASE repair.pc # "idle"
      <3>1. repair' = [repair EXCEPT !.disturbed = TRUE] /\ DOMAIN repair = RepairFields
        BY <2>1, <2>3 DEF Touch
      <3>2. DOMAIN repair' = RepairFields /\ repair'.pc = repair.pc /\ repair'.disturbed = TRUE
        BY <3>1, SMT DEF RepairFields
      <3> QED
        BY <2>1, <3>2
    <2> QED
      BY <2>2, <2>3
  <1>4. StoreTyped'
    BY <1>1 DEF Typed, StoreTyped, FilesTyped
  <1>5. EvidenceInv'
    <2>1. \A o \in Operations : commands'[o].state # "none" =>
            Evidence(commands'[o].session, o, commands'[o].payload)
      BY <1>1 DEF Evidence
    <2>2. \A o \in Operations, s \in Sessions, p \in Payloads : <<s, p>> \in acks'[o] => Evidence(s, o, p)
      BY <1>1 DEF Evidence
    <2>3. NothingNew /\ Remembers
      BY <1>1, <2>1, <2>2 DEF NothingNew, Remembers
    <2> QED
      BY <1>1, <2>3, EvidenceKept DEF IInv, StoreInv
  <1>6. SessionInv'
    BY <1>1, <1>2, SessionsStep DEF IInv, StoreInv
  <1>7. CommandInv'
    <2>1. \A o \in Operations : commands[o].state # "none" => commands[o].session \in Sessions
      BY DEF Typed, StoreTyped, IsCommand
    <2>2. CommandsServed
      BY <1>1, <2>1 DEF CommandsServed, IInv, StoreInv, CommandInv
    <2>3. \A o \in Operations : \A a \in acks'[o] : a[1] \notin touched' => files'[a[1]].kind = "valid"
      BY <1>1, <1>2, <2>2, AcksSame, AcksStep DEF CommandsServed, IInv, StoreInv, Typed
    <2> QED
      BY <2>2, <2>3 DEF CommandInv, CommandsServed
  <1>8. EntryInv' /\ SeenInv' /\ LostInv'
    BY <1>1, SameEntries DEF IInv, StoreInv, EntryInv, SeenInv, LostInv
  <1>9. CallsTyped /\ CallInv'
    BY <1>1, <1>2, TablesSame, CallsStay DEF IInv, ActorInv
  <1>10. LockInv' /\ ActorsTyped'
    BY <1>1 DEF IInv, ActorInv, LockInv, Typed, ActorsTyped
  <1>11. QuietInv'
    BY <1>1, <1>3 DEF IInv, ActorInv, QuietInv
  <1>12. RebuildInv'
    BY <1>3 DEF RebuildInv
  <1>13. ScanInv'
    BY <1>1, <1>3 DEF IInv, RepairInv, ScanInv, Current, Id
  <1>14. RowsGrow
    BY <1>1, RowsSame DEF Typed
  <1> QED
    BY <1>2, <1>4, <1>5, <1>6, <1>7, <1>8, <1>9, <1>10, <1>11, <1>12, <1>13, <1>14
    DEF Kept, Typed, IInv, ActorInv, StoreInv, RepairInv

\* Other hands damage a file, move it away or bring it back.
LEMMA ForeignStep ==
  ASSUME Typed, IInv, NEW s \in Sessions, Damage(s) \/ MoveAway(s) \/ BringBack(s)
  PROVE  Kept
  <1>1. /\ Touch({s}) /\ s \in touched' /\ UNCHANGED <<catalog, unsafe, forgotten>>
    BY DEF Damage, MoveAway, BringBack, Touch
  <1>2. PICK f \in {DamagedFile, NoFile, away[s]} : files' = [files EXCEPT ![s] = f]
    BY DEF Damage, MoveAway, BringBack
  <1>3. PICK g \in {NoFile, files[s], away[s]} :
          DOMAIN away' = Sessions /\ away'[s] = g /\ \A t \in Sessions : t # s => away'[t] = away[t]
    <2>1. CASE UNCHANGED away
      BY <2>1 DEF Typed, StoreTyped
    <2>2. CASE away' = [away EXCEPT ![s] = files[s]] \/ away' = [away EXCEPT ![s] = NoFile]
      BY <2>2 DEF Typed, StoreTyped
    <2> QED
      BY <2>1, <2>2 DEF Damage, MoveAway, BringBack
  <1>4. DOMAIN files' = Sessions /\ files'[s] = f /\ \A t \in Sessions : t # s => files'[t] = files[t]
    BY <1>2 DEF Typed, StoreTyped
  <1>5. /\ f \in {DamagedFile, NoFile} \/ f = away[s]
        /\ g = NoFile \/ g = files[s] \/ g = away[s]
    BY <1>2, <1>3
  <1>6. FilesTyped /\ \A t \in Sessions : IsFile(away'[t])
    BY <1>3, <1>4, <1>5, FileFacts DEF FilesTyped, Typed, StoreTyped
  <1>7. \A t \in Sessions : files'[t].kind = "valid" => Evidence(t, files'[t].operation, files'[t].payload)
    BY <1>3, <1>4, <1>5, FileFacts DEF Evidence
  <1>8. \A t \in Sessions : away'[t].kind = "valid" => Evidence(t, away'[t].operation, away'[t].payload)
    BY <1>3, <1>4, <1>5, FileFacts DEF Evidence
  <1>9. \A t \in Sessions : t \notin touched' => files'[t] = files[t]
    BY <1>1, <1>4
  <1>10. forgotten' \/ (~forgotten /\ catalog' = catalog)
    BY <1>1
  <1> QED
    BY <1>1, <1>3, <1>6, <1>7, <1>8, <1>9, <1>10, SameBuckets, TouchStep

\* Other hands replace a bucket, or restore it.
LEMMA SubstituteStep ==
  ASSUME Typed, IInv, NEW b \in Buckets, Substitute(b)
  PROVE  Kept
  <1> DEFINE S == {s \in Sessions : Prefix[s] = b}
  <1>1. Touch(S) /\ touched' = touched \cup S /\ UNCHANGED <<catalog, files, away, forgotten>>
    BY DEF Substitute, Touch
  <1>2. \A s \in Sessions : ~Safe(s)' => ~Safe(s) \/ s \in touched'
    BY <1>1 DEF Substitute, Safe
  <1>3. FilesTyped /\ DOMAIN away' = Sessions /\ \A s \in Sessions : IsFile(away'[s])
    BY <1>1 DEF FilesTyped, Typed, StoreTyped
  <1>4. \A s \in Sessions : files'[s].kind = "valid" => Evidence(s, files'[s].operation, files'[s].payload)
    BY <1>1 DEF Evidence
  <1>5. \A s \in Sessions : away'[s].kind = "valid" => Evidence(s, away'[s].operation, away'[s].payload)
    BY <1>1 DEF Evidence
  <1>6. forgotten' \/ (~forgotten /\ catalog' = catalog)
    BY <1>1
  <1> QED
    BY <1>1, <1>2, <1>3, <1>4, <1>5, <1>6, TouchStep

\* Other hands remove the catalog.
LEMMA LoseCatalogStep ==
  ASSUME Typed, IInv, LoseCatalog
  PROVE  Kept
  <1>1. Touch({}) /\ forgotten' /\ UNCHANGED <<files, away, unsafe>>
    BY DEF LoseCatalog
  <1>2. FilesTyped /\ DOMAIN away' = Sessions /\ \A s \in Sessions : IsFile(away'[s])
    BY <1>1 DEF FilesTyped, Typed, StoreTyped
  <1>3. \A s \in Sessions : files'[s].kind = "valid" => Evidence(s, files'[s].operation, files'[s].payload)
    BY <1>1 DEF Evidence
  <1>4. \A s \in Sessions : away'[s].kind = "valid" => Evidence(s, away'[s].operation, away'[s].payload)
    BY <1>1 DEF Evidence
  <1> QED
    BY <1>1, <1>2, <1>3, <1>4, SameBuckets, TouchStep

-----------------------------------------------------------------------------
(***************************************************************************)
(* Repairs.  No operation is under way, and a repair writes nothing but    *)
(* the tables.                                                             *)
(***************************************************************************)

\* A step of a repair keeps the invariant when it keeps the tables in order.
LEMMA RepairStep ==
  ASSUME Typed, IInv, up, \A c \in Callers : call[c].pc = "idle", UNCHANGED BesidesRepair, repairs' \in Nat,
         TablesTyped, CommandsServed, EvidenceInv', EntryInv', SeenInv', RepairInv', RowsGrow,
         \A s \in Sessions : rows'[s].availability = "ready" /\ s \notin touched =>
           rows'[s] = rows[s] \/ NotAhead(rows'[s], files[s]),
         repair'.pc # "idle" =>
           repair'.pc = "scan" /\ DOMAIN repair' = RepairFields /\ required' /\ repairs' > 0
  PROVE  Kept
  <1>1. UNCHANGED <<up, catalog, files, away, unsafe, allocated, call, owner, acks, alarms, touched, forgotten>>
    BY DEF BesidesRepair
  <1>2. FilesGrow /\ FilesTyped
    BY <1>1, FilesSame
  <1>3. StoreTyped'
    BY <1>1, <1>2 DEF Typed, StoreTyped, FilesTyped, TablesTyped
  <1>4. SessionInv'
    <2>1. \A s \in Sessions : ~Safe(s)' => ~Safe(s) \/ s \in touched'
      BY <1>1 DEF Safe
    <2> QED
      BY <1>1, <1>2, <2>1, SessionsStep DEF IInv, StoreInv
  <1>5. CommandInv'
    BY <1>1 DEF CommandInv, CommandsServed, IInv, StoreInv
  <1>6. LostInv'
    BY <1>1 DEF IInv, StoreInv, LostInv
  <1>7. QuietInv'
    BY <1>1 DEF QuietInv
  <1>8. CallsTyped /\ CallInv'
    BY <1>1, CallsQuiet
  <1>9. ActorsTyped' /\ LockInv'
    BY <1>1, <1>8 DEF Typed, ActorsTyped, CallsTyped, IInv, ActorInv, LockInv
  <1> QED
    BY <1>2, <1>3, <1>4, <1>5, <1>6, <1>7, <1>8, <1>9 DEF Kept, Typed, IInv, ActorInv, StoreInv

\* Steps of a repair that leave the tables alone.
LEMMA TablesStay ==
  ASSUME Typed, IInv, UNCHANGED BesidesRepair, UNCHANGED <<rows, commands>>
  PROVE  TablesTyped /\ CommandsServed /\ EvidenceInv' /\ RowsGrow
  <1>1. UNCHANGED <<files, away, allocated, acks, touched, forgotten>>
    BY DEF BesidesRepair
  <1>2. TablesTyped
    BY DEF TablesTyped, Typed, StoreTyped
  <1>3. CommandsServed
    BY <1>1 DEF CommandsServed, CommandInv, IInv, StoreInv
  <1>4. EvidenceInv'
    BY <1>1, AcksSame, ClaimsKept DEF IInv, StoreInv, Typed
  <1>5. RowsGrow
    BY RowsSame DEF Typed
  <1> QED
    BY <1>2, <1>3, <1>4, <1>5

LEMMA BucketOf ==
  ASSUME NEW s \in Sessions
  PROVE  Prefix[s] \in Buckets
  BY CatalogAssumption DEF Sessions

\* An attempt begins with a number of its own: no row is marked with it.
LEMMA SetIntentStep ==
  ASSUME Typed, IInv, set_intent
  PROVE  Kept
  <1>1. /\ up /\ \A c \in Callers : call[c].pc = "idle"
        /\ repairs' = repairs + 1 /\ required' = TRUE /\ UNCHANGED <<rows, commands>> /\ UNCHANGED BesidesRepair
        /\ repair' = [pc |-> "scan", buckets |-> Buckets, todo |-> {}, disturbed |-> FALSE]
    BY DEF set_intent
  <1>2. repairs' \in Nat /\ repairs' > 0 /\ \A n \in Nat : n <= repairs => n <= repairs' /\ n # repairs'
    BY <1>1, SMT DEF Typed, StoreTyped
  <1>3. \A s \in Sessions : rows[s].seen \in Nat /\ rows[s].seen <= repairs
    BY DEF Typed, StoreTyped, IsRow, IInv, StoreInv, SeenInv
  <1>4. SeenInv' /\ \A s \in Sessions : ~Current(s)'
    BY <1>1, <1>2, <1>3 DEF SeenInv, Current, Id
  <1>5. /\ repair'.pc = "scan" /\ repair'.buckets = Buckets /\ repair'.todo = {}
        /\ DOMAIN repair' = RepairFields
    BY <1>1, SMT DEF RepairFields
  <1>6. RepairInv'
    BY <1>4, <1>5, BucketOf DEF RepairInv, ScanInv, RebuildInv, Marked, Validated, Unread, Done
  <1>7. EntryInv'
    BY <1>1 DEF EntryInv
  <1>8. TablesTyped /\ CommandsServed /\ EvidenceInv' /\ RowsGrow
    BY <1>1, TablesStay
  <1> QED
    BY <1>1, <1>2, <1>4, <1>5, <1>6, <1>7, <1>8, RepairStep

\* What holds while a scan is under way.
LEMMA Scanning ==
  ASSUME Typed, IInv, Repairing
  PROVE  /\ up /\ \A c \in Callers : call[c].pc = "idle"
         /\ DOMAIN repair = RepairFields /\ required /\ repairs \in Nat /\ repairs > 0 /\ repair.pc = "scan"
  BY DEF Repairing, IInv, ActorInv, QuietInv, Typed, StoreTyped

\* An attempt ends and leaves the intent.
LEMMA RepairFailsStep ==
  ASSUME Typed, IInv, RepairFails
  PROVE  Kept
  <1>1. Repairing /\ repair' = NoRepair /\ UNCHANGED <<required, rows, commands, repairs>> /\ UNCHANGED BesidesRepair
    BY DEF RepairFails, Tables
  <1>2. up /\ (\A c \in Callers : call[c].pc = "idle") /\ repairs' \in Nat /\ repair'.pc = "idle"
    BY <1>1, Scanning DEF NoRepair
  <1>3. SeenInv' /\ EntryInv'
    BY <1>1, SameEntries DEF IInv, StoreInv, SeenInv, EntryInv
  <1>4. RepairInv'
    BY <1>2 DEF RepairInv, ScanInv, RebuildInv
  <1>5. TablesTyped /\ CommandsServed /\ EvidenceInv' /\ RowsGrow
    BY <1>1, TablesStay
  <1> QED
    BY <1>1, <1>2, <1>3, <1>4, <1>5, RepairStep

\* The rows that a repair writes.
Missing(row) == [row EXCEPT !.availability = "missing", !.fault = "not_found"]
Unavailable(row, fault) == [row EXCEPT !.availability = "unavailable", !.fault = fault, !.seen = Id]
Conflicting(row) == [row EXCEPT !.availability = "unavailable", !.fault = "command_conflict"]

\* The rows that a repair writes are rows.
LEMMA MissingFacts ==
  ASSUME NEW row, IsRow(row)
  PROVE  IsRow(Missing(row)) /\ Missing(row).availability = "missing" /\ Missing(row).seen = row.seen
  <1> DEFINE n == Missing(row)
  <1>1. DOMAIN row = RowFields /\ row.seen \in Nat /\ row.head \in Nat /\ row.version \in Nat
    BY DEF IsRow
  <1>2. /\ DOMAIN n = RowFields /\ n.availability = "missing" /\ n.head = row.head
        /\ n.version = row.version /\ n.seen = row.seen
    BY <1>1, SMT DEF Missing, RowFields
  <1> HIDE DEF n
  <1>3. IsRow(n)
    BY <1>1, <1>2 DEF IsRow
  <1> QED
    BY <1>2, <1>3 DEF n

LEMMA UnavailableFacts ==
  ASSUME NEW row, IsRow(row), repairs \in Nat, NEW fault
  PROVE  LET n == Unavailable(row, fault) IN
         IsRow(n) /\ n.availability = "unavailable" /\ n.seen = Id /\ n.fault = fault
  <1> DEFINE n == Unavailable(row, fault)
  <1>1. DOMAIN row = RowFields /\ row.head \in Nat /\ row.version \in Nat /\ Id \in Nat
    BY DEF IsRow, Id
  <1>2. /\ DOMAIN n = RowFields /\ n.availability = "unavailable" /\ n.head = row.head
        /\ n.version = row.version /\ n.seen = Id /\ n.fault = fault
    BY <1>1, SMT DEF Unavailable, RowFields
  <1> HIDE DEF n
  <1>3. IsRow(n)
    BY <1>1, <1>2 DEF IsRow
  <1> QED
    BY <1>2, <1>3 DEF n

LEMMA ConflictingFacts ==
  ASSUME NEW row, IsRow(row)
  PROVE  LET n == Conflicting(row) IN
         IsRow(n) /\ n.availability = "unavailable" /\ n.seen = row.seen /\ n.fault = "command_conflict"
  <1> DEFINE n == Conflicting(row)
  <1>1. DOMAIN row = RowFields /\ row.head \in Nat /\ row.version \in Nat /\ row.seen \in Nat
    BY DEF IsRow
  <1>2. /\ DOMAIN n = RowFields /\ n.availability = "unavailable" /\ n.head = row.head
        /\ n.version = row.version /\ n.seen = row.seen /\ n.fault = "command_conflict"
    BY <1>1, SMT DEF Conflicting, RowFields
  <1> HIDE DEF n
  <1>3. IsRow(n)
    BY <1>1, <1>2 DEF IsRow
  <1> QED
    BY <1>2, <1>3 DEF n

\* The entry that a complete scan has seen, or keeps for a reservation, is whole.
LEMMA SeenEntry ==
  ASSUME Typed, IInv, Repairing, NEW s \in Sessions, rows[s].seen = Id
  PROVE  ~BadEntry(s)
  <1>1. repairs # 0
    BY Scanning, SMT
  <1>2. rows[s].availability # "creating"
    BY <1>1 DEF Typed, StoreTyped, IsRow, Id
  <1>3. ASSUME rows[s].availability = "ready"
        PROVE  Claims(s) # {} /\ Paired(s)
    <2>1. PICK o \in Operations : commands[o].state = "accepted" /\ commands[o].session = s
      BY <1>3, Scanning DEF IInv, RepairInv, ScanInv, Current
    <2>2. o \in Claims(s)
      BY <2>1 DEF Claims
    <2>3. \A q \in Claims(s) : q = o
      BY <2>1, OneClaim DEF Claims, Typed, IInv, StoreInv
    <2> QED
      BY <1>3, <2>1, <2>2, <2>3 DEF Paired
  <1>4. rows[s].availability \notin {"ready", "creating"} => Paired(s)
    BY DEF Paired
  <1>5. rows[s].availability \in {"absent", "creating", "ready", "missing", "unavailable"}
    BY DEF Typed, StoreTyped, IsRow
  <1> QED
    BY <1>2, <1>3, <1>4, <1>5 DEF BadEntry, Listed

\* A complete scan marks what it has not seen and clears the intent.
LEMMA FinishRepairStep ==
  ASSUME Typed, IInv, FinishRepair
  PROVE  Kept
  <1>1. /\ Repairing /\ repair' = NoRepair /\ UNCHANGED <<commands, repairs>> /\ UNCHANGED BesidesRepair
        /\ \A s \in Sessions : Exempt(s) => entry_rows(s)
        /\ DOMAIN rows' = Sessions
        /\ \A s \in Sessions : rows'[s] = IF rows[s] # NoRow /\ rows[s].seen # Id /\ ~Exempt(s)
                                         THEN Missing(rows[s]) ELSE rows[s]
    BY DEF FinishRepair, Missing
  <1>2. up /\ (\A c \in Callers : call[c].pc = "idle") /\ repairs' \in Nat /\ repair'.pc = "idle"
    BY <1>1, Scanning DEF NoRepair
  <1>3. UNCHANGED <<files, away, allocated, acks, touched, forgotten>>
    BY <1>1 DEF BesidesRepair
  <1>4. ASSUME NEW s \in Sessions
        PROVE  /\ IsRow(rows'[s]) /\ rows'[s].seen = rows[s].seen
               /\ rows'[s].availability = "missing" \/ rows'[s] = rows[s]
    <2>1. IsRow(rows[s])
      BY DEF Typed, StoreTyped
    <2> QED
      BY <1>1, <2>1, MissingFacts
  <1>5. TablesTyped
    BY <1>1, <1>4 DEF TablesTyped, Typed, StoreTyped
  <1>6. CommandsServed
    <2> SUFFICES ASSUME NEW o \in Operations, commands[o].state = "creating", commands[o].session \notin touched,
                        files[commands[o].session] # EmptyFile
                 PROVE  rows'[commands[o].session].availability = "creating"
      BY <1>1, <1>3 DEF CommandsServed, IInv, StoreInv, CommandInv
    <2>1. commands[o].session \in Sessions /\ o \in Claims(commands[o].session)
      BY DEF Typed, StoreTyped, IsCommand, Claims
    <2>2. rows[commands[o].session].availability = "creating"
      BY DEF IInv, StoreInv, CommandInv
    <2>3. Exempt(commands[o].session)
      BY <2>1, <2>2 DEF Exempt
    <2> QED
      BY <1>1, <2>1, <2>2, <2>3
  <1>7. EvidenceInv'
    BY <1>1, <1>3, AcksSame, ClaimsKept DEF IInv, StoreInv, Typed
  <1>8. EntryInv'
    <2>1. ASSUME NEW s \in Sessions
          PROVE  ~BadEntry(s)'
      <3>1. CASE rows'[s].availability = "missing" \/ rows[s] = NoRow
        BY <1>4, <3>1, NoRowFacts DEF BadEntry, Listed
      <3>2. CASE rows'[s].availability # "missing" /\ rows[s] # NoRow
        <4>1. rows'[s] = rows[s] /\ (rows[s].seen = Id \/ Exempt(s))
          <5>1. Missing(rows[s]).availability = "missing"
            BY MissingFacts DEF Typed, StoreTyped
          <5> QED
            BY <1>1, <3>2, <5>1
        <4>2. ~BadEntry(s)
          BY <1>1, <4>1, SeenEntry DEF entry_rows, BadEntry
        <4>3. Claims(s)' = Claims(s) /\ \A o \in Claims(s) : commands'[o].state = commands[o].state
          BY <1>1 DEF Claims
        <4> QED
          BY <4>1, <4>2, <4>3, SameEntry
      <3> QED
        BY <3>1, <3>2
    <2> QED
      BY <2>1 DEF EntryInv
  <1>9. SeenInv'
    BY <1>1, <1>4 DEF IInv, StoreInv, SeenInv
  <1>10. RepairInv'
    BY <1>2 DEF RepairInv, ScanInv, RebuildInv
  <1>11. \A s \in Sessions : rows'[s].availability = "ready" => rows'[s] = rows[s]
    BY <1>4
  <1>12. RowsGrow
    BY <1>11, RowsSame DEF Typed
  <1> QED
    BY <1>1, <1>2, <1>5, <1>6, <1>7, <1>8, <1>9, <1>10, <1>11, <1>12, RepairStep

\* A session that the step of the scan does not concern.
LEMMA StillValidated ==
  ASSUME UNCHANGED <<files, unsafe, repairs>>, NEW s \in Sessions, Validated(s),
         rows'[s] = rows[s], Done(s)' /\ Readable(s) => Done(s),
         Done(s)' /\ Readable(s) =>
           /\ commands'[files[s].operation] = commands[files[s].operation]
           /\ \A t \in Sessions : Rival(s, t)' <=> Rival(s, t)
  PROVE  Validated(s)'
  <1> SUFFICES ASSUME Done(s)', Readable(s)
               PROVE  Current(s)' /\ (Registered(s)' \/ InConflict(s)')
    BY DEF Validated, Readable, Safe
  <1>1. Current(s) /\ (Registered(s) \/ InConflict(s))
    BY DEF Validated
  <1>2. Current(s)'
    BY <1>1 DEF Current, Id
  <1>3. CASE Registered(s)
    BY <1>2, <1>3 DEF Registered
  <1>4. CASE InConflict(s)
    BY <1>2, <1>4 DEF InConflict
  <1> QED
    BY <1>1, <1>3, <1>4

\* The same for one that cannot be read, and for the marks.
LEMMA StillUnread ==
  ASSUME UNCHANGED <<files, unsafe, repairs>>, NEW s \in Sessions, Unread(s),
         rows'[s] = rows[s], Done(s)' /\ ~Readable(s) => Done(s)
  PROVE  Unread(s)'
  BY DEF Unread, Readable, Safe, Current, Id

LEMMA StillMarked ==
  ASSUME UNCHANGED <<files, unsafe, repairs>>, NEW s \in Sessions, Marked(s), rows'[s] = rows[s],
         s \in repair'.todo => Prefix[s] \notin repair'.buckets, Done(s) => Done(s)'
  PROVE  Marked(s)'
  BY DEF Marked, Readable, Safe, Current, Id

\* A step of a scan that goes on.
LEMMA ScanStep ==
  ASSUME Typed, IInv, Repairing, UNCHANGED <<required, repairs>>, UNCHANGED BesidesRepair,
         TablesTyped, CommandsServed, EvidenceInv', RowsGrow,
         \A s \in Sessions : rows'[s].seen = rows[s].seen \/ rows'[s].seen = Id,
         \A s \in Sessions : rows'[s].availability = "ready" /\ s \notin touched =>
           rows'[s] = rows[s] \/ NotAhead(rows'[s], files[s]),
         repair'.pc = "scan", DOMAIN repair' = RepairFields, ScanInv', RebuildInv'
  PROVE  Kept
  <1>1. /\ up /\ \A c \in Callers : call[c].pc = "idle"
        /\ required /\ repairs \in Nat /\ repairs > 0
    BY Scanning
  <1>2. EntryInv'
    BY <1>1 DEF EntryInv
  <1>3. SeenInv'
    <2>1. repairs <= repairs
      BY <1>1, SMT
    <2> QED
      BY <2>1 DEF SeenInv, IInv, StoreInv, Id
  <1>4. RepairInv'
    BY DEF RepairInv
  <1> QED
    BY <1>1, <1>2, <1>3, <1>4, RepairStep

\* A bucket that must not be entered.
LEMMA BucketRejected ==
  ASSUME Typed, IInv, NEW b \in Buckets, ScanBucket(b), b \in unsafe
  PROVE  Kept
  <1> DEFINE Hit(s) == Prefix[s] = b /\ rows[s] # NoRow
  <1>1. /\ Repairing /\ repair.todo = {} /\ UNCHANGED <<required, commands, repairs>> /\ UNCHANGED BesidesRepair
        /\ DOMAIN rows' = Sessions
        /\ \A s \in Sessions : rows'[s] = IF Hit(s) THEN Unavailable(rows[s], "unavailable") ELSE rows[s]
        /\ repair' = [repair EXCEPT !.buckets = @ \ {b}]
    BY DEF ScanBucket, Unavailable
  <1>2. /\ repair.pc = "scan" /\ DOMAIN repair = RepairFields /\ repairs \in Nat
    BY <1>1, Scanning
  <1>3. /\ repair'.pc = "scan" /\ DOMAIN repair' = RepairFields /\ repair'.disturbed = repair.disturbed
        /\ repair'.todo = {} /\ repair'.buckets = repair.buckets \ {b}
    BY <1>1, <1>2, SMT DEF RepairFields
  <1>4. UNCHANGED <<files, away, unsafe, allocated, acks, touched, forgotten>>
    BY <1>1 DEF BesidesRepair
  <1>5. ASSUME NEW s \in Sessions, Hit(s)
        PROVE  /\ IsRow(rows'[s]) /\ rows'[s].availability = "unavailable" /\ rows'[s].seen = Id
               /\ rows'[s].fault = "unavailable" /\ ~Safe(s) /\ s \in touched
    <2>1. IsRow(rows[s]) /\ ~Safe(s)
      BY <1>5 DEF Typed, StoreTyped, Safe
    <2>2. s \in touched
      BY <2>1 DEF IInv, StoreInv, SessionInv
    <2>3. LET n == Unavailable(rows[s], "unavailable") IN
          IsRow(n) /\ n.availability = "unavailable" /\ n.seen = Id /\ n.fault = "unavailable"
      BY <1>2, <2>1, UnavailableFacts, SMTT(30)
    <2> QED
      BY <1>1, <1>5, <2>1, <2>2, <2>3
  <1>6. \A s \in Sessions : ~Hit(s) => rows'[s] = rows[s]
    BY <1>1
  <1> HIDE DEF Hit
  <1>7. TablesTyped
    BY <1>1, <1>5, <1>6 DEF TablesTyped, Typed, StoreTyped
  <1>8. CommandsServed
    <2>1. \A o \in Operations : commands[o].state # "none" => commands[o].session \in Sessions
      BY DEF Typed, StoreTyped, IsCommand
    <2> QED
      BY <1>1, <1>4, <1>5, <1>6, <2>1 DEF CommandsServed, IInv, StoreInv, CommandInv
  <1>9. EvidenceInv'
    BY <1>1, <1>4, AcksSame, ClaimsKept DEF IInv, StoreInv, Typed
  <1>10. \A s \in Sessions : rows'[s].availability = "ready" => rows'[s] = rows[s]
    BY <1>5, <1>6
  <1>11. RowsGrow
    BY <1>10, RowsSame DEF Typed
  <1>12. \A s \in Sessions : rows'[s].seen = rows[s].seen \/ rows'[s].seen = Id
    BY <1>5, <1>6
  <1>13. ScanInv'
    BY <1>1, <1>2, <1>10 DEF ScanInv, IInv, RepairInv, Current, Id
  <1>14. RebuildInv'
    <2> SUFFICES ASSUME ~repair.disturbed, NEW s \in Sessions
                 PROVE  Marked(s)' /\ Validated(s)' /\ Unread(s)'
      BY <1>3 DEF RebuildInv
    <2>1. \A t \in Sessions : Marked(t) /\ Validated(t) /\ Unread(t)
      BY <1>2 DEF IInv, RepairInv, RebuildInv
    <2>2. \A t \in Sessions : Done(t)' <=> Done(t) \/ Prefix[t] = b
      BY <1>1, <1>3 DEF Done
    <2>3. \A t \in Sessions : Readable(t) => Prefix[t] # b /\ (Done(t)' <=> Done(t))
      BY <2>2 DEF Readable, Safe
    <2>4. \A t \in Sessions : Rival(s, t)' <=> Rival(s, t)
      BY <1>4, <2>3 DEF Rival, Readable, Safe
    <2>5. CASE Hit(s)
      <3>1. ~Readable(s)' /\ ~Safe(s)' /\ Done(s)' /\ Current(s)'
        BY <1>1, <1>4, <1>5, <2>2, <2>5 DEF Readable, Safe, Hit, Current, Id
      <3> QED
        BY <1>3, <1>5, <2>5, <3>1 DEF Marked, Validated, Unread
    <2>6. CASE ~Hit(s)
      <3>1. rows'[s] = rows[s] /\ (Prefix[s] = b => rows[s] = NoRow)
        BY <1>6, <2>6 DEF Hit
      <3>2. Marked(s)'
        BY <1>1, <1>3, <1>4, <2>1, <2>2, <3>1, StillMarked
      <3>3. Validated(s)'
        BY <1>1, <1>4, <2>1, <2>3, <2>4, <3>1, StillValidated
      <3>4. Unread(s)'
        <4>1. CASE Prefix[s] = b
          BY <1>4, <3>1, <4>1 DEF Unread, Safe
        <4>2. CASE Prefix[s] # b
          BY <1>1, <1>4, <2>1, <2>2, <3>1, <4>2, StillUnread
        <4> QED
          BY <4>1, <4>2
      <3> QED
        BY <3>2, <3>3, <3>4
    <2> QED
      BY <2>5, <2>6
  <1> QED
    BY <1>1, <1>3, <1>7, <1>8, <1>9, <1>10, <1>11, <1>12, <1>13, <1>14, ScanStep

\* A bucket that is entered.
LEMMA BucketEntered ==
  ASSUME Typed, IInv, NEW b \in Buckets, ScanBucket(b), b \notin unsafe
  PROVE  Kept
  <1>1. /\ Repairing /\ repair.todo = {} /\ b \in repair.buckets
        /\ UNCHANGED <<required, rows, commands, repairs>> /\ UNCHANGED BesidesRepair
        /\ repair' = [repair EXCEPT !.buckets = @ \ {b},
                                    !.todo = {s \in {t \in Sessions : Prefix[t] = b} : files[s] # NoFile}]
    BY DEF ScanBucket
  <1>2. /\ repair.pc = "scan" /\ DOMAIN repair = RepairFields /\ repairs \in Nat
    BY <1>1, Scanning
  <1>3. /\ repair'.pc = "scan" /\ DOMAIN repair' = RepairFields /\ repair'.disturbed = repair.disturbed
        /\ repair'.todo = {s \in {t \in Sessions : Prefix[t] = b} : files[s] # NoFile}
        /\ repair'.buckets = repair.buckets \ {b}
    BY <1>1, <1>2, SMT DEF RepairFields
  <1>4. UNCHANGED <<files, unsafe>>
    BY <1>1 DEF BesidesRepair
  <1>5. TablesTyped /\ CommandsServed /\ EvidenceInv' /\ RowsGrow
    BY <1>1, TablesStay
  <1>6. ScanInv'
    BY <1>1, <1>2 DEF ScanInv, IInv, RepairInv, Current, Id
  <1>7. RebuildInv'
    <2> SUFFICES ASSUME ~repair.disturbed, NEW s \in Sessions
                 PROVE  Marked(s)' /\ Validated(s)' /\ Unread(s)'
      BY <1>3 DEF RebuildInv
    <2>1. \A t \in Sessions : Marked(t) /\ Validated(t) /\ Unread(t)
      BY <1>2 DEF IInv, RepairInv, RebuildInv
    <2>2. \A t \in Sessions : /\ t \in repair'.todo <=> Prefix[t] = b /\ files[t] # NoFile
                              /\ Prefix[t] \in repair'.buckets <=> Prefix[t] \in repair.buckets /\ Prefix[t] # b
                              /\ t \notin repair.todo
      BY <1>1, <1>3
    <2>3. \A t \in Sessions : Done(t)' <=> Done(t) \/ (Prefix[t] = b /\ files[t] = NoFile)
      BY <1>1, <2>2 DEF Done
    <2>4. \A t \in Sessions : Readable(t) => files[t] # NoFile /\ (Done(t)' <=> Done(t))
      BY <2>3, FileFacts DEF Readable
    <2>5. \A t \in Sessions : Rival(s, t)' <=> Rival(s, t)
      BY <1>4, <2>4 DEF Rival, Readable, Safe
    <2>6. Marked(s)'
      BY <1>1, <1>4, <2>1, <2>2, <2>3, StillMarked
    <2>7. Validated(s)'
      BY <1>1, <1>4, <2>1, <2>4, <2>5, StillValidated
    <2>8. Unread(s)'
      <3>1. CASE Done(s)
        BY <1>1, <1>4, <2>1, <3>1, StillUnread
      <3>2. CASE ~Done(s) /\ Done(s)'
        <4>1. files[s] = NoFile /\ Safe(s)
          BY <2>3, <3>2 DEF Safe
        <4>2. ~Current(s)'
          BY <1>1, <2>1, <3>2 DEF Marked, Current, Id
        <4> QED
          BY <1>4, <4>1, <4>2, FileFacts DEF Unread, Safe
      <3> QED
        BY <3>1, <3>2 DEF Unread
    <2> QED
      BY <2>6, <2>7, <2>8
  <1> QED
    BY <1>1, <1>3, <1>5, <1>6, <1>7, ScanStep

\* A bucket is entered or rejected.
LEMMA ScanBucketStep ==
  ASSUME Typed, IInv, NEW b \in Buckets, ScanBucket(b)
  PROVE  Kept
  BY BucketRejected, BucketEntered

\* The scan takes up a session.
LEMMA SessionScanned ==
  ASSUME Typed, IInv, NEW s \in Sessions, ScanSession(s)
  PROVE  /\ Repairing /\ s \in repair.todo /\ ~Done(s)
         /\ repair.pc = "scan" /\ repairs \in Nat /\ repairs # 0
         /\ UNCHANGED <<required, repairs>> /\ UNCHANGED BesidesRepair
         /\ UNCHANGED <<files, away, unsafe, allocated, acks, touched, forgotten>>
         /\ repair'.pc = "scan" /\ DOMAIN repair' = RepairFields /\ repair'.disturbed = repair.disturbed
         /\ repair'.todo = repair.todo \ {s} /\ repair'.buckets = repair.buckets
  <1>1. /\ Repairing /\ s \in repair.todo /\ UNCHANGED <<required, repairs>> /\ UNCHANGED BesidesRepair
        /\ repair' = [repair EXCEPT !.todo = @ \ {s}]
    BY DEF ScanSession
  <1>2. /\ repair.pc = "scan" /\ DOMAIN repair = RepairFields /\ repairs \in Nat /\ repairs > 0
    BY <1>1, Scanning
  <1>3. /\ repair'.pc = "scan" /\ DOMAIN repair' = RepairFields /\ repair'.disturbed = repair.disturbed
        /\ repair'.todo = repair.todo \ {s} /\ repair'.buckets = repair.buckets
    BY <1>1, <1>2, SMT DEF RepairFields
  <1>4. repairs # 0
    BY <1>2, SMT
  <1> QED
    BY <1>1, <1>2, <1>3, <1>4 DEF BesidesRepair, Done

\* So far the scan has done what it should, and this session comes next.
Undisturbed(s) ==
  /\ \A t \in Sessions : Marked(t) /\ Validated(t) /\ Unread(t)
  /\ ~Current(s)
  /\ \A t \in Sessions : Done(t)' <=> Done(t) \/ t = s
  /\ \A t \in Sessions : t \in repair'.todo => Prefix[t] \notin repair'.buckets

\* The session whose turn it is has no mark yet.
LEMMA SessionNext ==
  ASSUME Typed, IInv, NEW s \in Sessions, ScanSession(s), ~repair.disturbed
  PROVE  Undisturbed(s)
  <1>1. \A t \in Sessions : Marked(t) /\ Validated(t) /\ Unread(t)
    BY SessionScanned DEF IInv, RepairInv, RebuildInv
  <1>2. ~Current(s) /\ Prefix[s] \notin repair.buckets
    BY <1>1, SessionScanned DEF Marked
  <1>3. \A t \in Sessions : Done(t)' <=> Done(t) \/ t = s
    BY <1>2, SessionScanned DEF Done
  <1>4. \A t \in Sessions : t \in repair'.todo => Prefix[t] \notin repair'.buckets
    BY <1>1, SessionScanned DEF Marked
  <1> QED
    BY <1>1, <1>2, <1>3, <1>4 DEF Undisturbed

\* A session other than s that keeps its row and its command.
LEMMA OtherSession ==
  ASSUME UNCHANGED <<files, unsafe, repairs>>, NEW s \in Sessions, Undisturbed(s),
         NEW u \in Sessions, u # s, rows'[u] = rows[u],
         Done(u) /\ Readable(u) =>
           /\ commands'[files[u].operation] = commands[files[u].operation]
           /\ Readable(s) => files[s].operation # files[u].operation
  PROVE  Marked(u)' /\ Validated(u)' /\ Unread(u)'
  <1>1. Marked(u) /\ Validated(u) /\ Unread(u) /\ (Done(u)' <=> Done(u))
    BY DEF Undisturbed
  <1>2. Marked(u)'
    BY <1>1, StillMarked DEF Undisturbed
  <1>3. ASSUME Done(u), Readable(u)
        PROVE  \A t \in Sessions : Rival(u, t)' <=> Rival(u, t)
    BY <1>3 DEF Rival, Undisturbed, Readable, Safe
  <1>4. Validated(u)'
    BY <1>1, <1>3, StillValidated
  <1>5. Unread(u)'
    BY <1>1, StillUnread
  <1> QED
    BY <1>2, <1>4, <1>5

\* The row of a session that cannot be read: none, the one it had, or one that says so.
FaultRow(s, r) ==
  /\ IsRow(r)
  /\ IF Safe(s) /\ files[s].kind \in {"none", "directory"}
     THEN r = rows[s] \/ (rows[s] = NoRow /\ r.availability = "missing" /\ r.seen = 0)
     ELSE /\ r.availability = "unavailable" /\ r.seen = Id
          /\ r.fault \in {"integrity", "unavailable"}

\* What record_fault writes.
LEMMA FaultRecorded ==
  ASSUME Typed, NEW s \in Sessions, record_fault(s), repairs \in Nat
  PROVE  /\ ~Readable(s) /\ UNCHANGED commands
         /\ DOMAIN rows' = Sessions /\ FaultRow(s, rows'[s]) /\ \A t \in Sessions : t # s => rows'[t] = rows[t]
  <1>1. ~Readable(s) /\ UNCHANGED commands
    BY DEF record_fault
  <1>2. IsRow(rows[s]) /\ DOMAIN rows = Sessions
    BY DEF Typed, StoreTyped
  <1>3. CASE Safe(s) /\ files[s].kind \in {"none", "directory"} /\ rows[s] # NoRow
    BY <1>1, <1>2, <1>3 DEF record_fault, FaultRow
  <1>4. CASE Safe(s) /\ files[s].kind \in {"none", "directory"} /\ rows[s] = NoRow
    <2>1. rows' = [rows EXCEPT ![s] = Missing(rows[s])]
      BY <1>4 DEF record_fault, Missing
    <2>2. IsRow(Missing(rows[s])) /\ Missing(rows[s]).availability = "missing" /\ Missing(rows[s]).seen = 0
      BY <1>2, <1>4, MissingFacts, NoRowFacts
    <2> QED
      BY <1>1, <1>2, <1>4, <2>1, <2>2 DEF FaultRow
  <1>5. CASE ~(Safe(s) /\ files[s].kind \in {"none", "directory"})
    <2> DEFINE fault == IF Safe(s) THEN "integrity" ELSE "unavailable"
               n == Unavailable(rows[s], fault)
    <2>1. rows' = [rows EXCEPT ![s] = n]
      BY <1>5 DEF record_fault, Unavailable
    <2>2. fault \in {"integrity", "unavailable"}
      OBVIOUS
    <2> HIDE DEF fault
    <2>3. IsRow(n) /\ n.availability = "unavailable" /\ n.seen = Id /\ n.fault = fault
      BY <1>2, UnavailableFacts
    <2> HIDE DEF n
    <2> QED
      BY <1>1, <1>2, <1>5, <2>1, <2>2, <2>3 DEF FaultRow
  <1> QED
    BY <1>3, <1>4, <1>5

\* A session that cannot be read: an untouched reservation that loses its row has an empty file.
LEMMA RecordFaultStep ==
  ASSUME Typed, IInv, NEW s \in Sessions, ScanSession(s), record_fault(s)
  PROVE  Kept
  <1>1. /\ Repairing /\ s \in repair.todo /\ repair.pc = "scan" /\ repairs \in Nat /\ repairs # 0
        /\ UNCHANGED <<required, repairs>> /\ UNCHANGED BesidesRepair
        /\ UNCHANGED <<files, away, unsafe, allocated, acks, touched, forgotten>>
        /\ repair'.pc = "scan" /\ DOMAIN repair' = RepairFields /\ repair'.disturbed = repair.disturbed
    BY SessionScanned
  <1>2. /\ ~Readable(s) /\ UNCHANGED commands
        /\ DOMAIN rows' = Sessions /\ FaultRow(s, rows'[s]) /\ \A t \in Sessions : t # s => rows'[t] = rows[t]
    BY <1>1, FaultRecorded
  <1>3. TablesTyped
    BY <1>2 DEF TablesTyped, FaultRow, Typed, StoreTyped
  <1>4. ASSUME NEW o \in Operations, commands[o].state = "creating", commands[o].session = s, s \notin touched
        PROVE  rows'[s].availability = "creating" \/ files[s] = EmptyFile
    <2>1. rows[s].availability = "creating" \/ files[s] = EmptyFile
      BY <1>4 DEF IInv, StoreInv, CommandInv
    <2>2. CASE Safe(s) /\ files[s].kind \in {"none", "directory"}
      BY <1>2, <2>1, <2>2, FileFacts, NoRowFacts DEF FaultRow
    <2>3. CASE ~(Safe(s) /\ files[s].kind \in {"none", "directory"})
      <3>1. Safe(s) /\ files[s] # DamagedFile
        BY <1>4 DEF IInv, StoreInv, SessionInv
      <3>2. IsFile(files[s]) /\ files[s].kind # "valid"
        BY <1>2, <3>1 DEF Typed, StoreTyped, Readable
      <3> QED
        BY <2>3, <3>1, <3>2, FileFacts DEF IsFile
    <2> QED
      BY <2>2, <2>3
  <1>5. CommandsServed
    <2>1. \A o \in Operations : commands[o].state # "none" => commands[o].session \in Sessions
      BY DEF Typed, StoreTyped, IsCommand
    <2>2. ASSUME NEW o \in Operations, commands[o].state = "creating", commands[o].session \notin touched
          PROVE  rows'[commands[o].session].availability = "creating" \/ files[commands[o].session] = EmptyFile
      <3>1. CASE commands[o].session = s
        BY <1>4, <2>2, <3>1
      <3>2. CASE commands[o].session # s
        BY <1>2, <2>1, <2>2, <3>2 DEF IInv, StoreInv, CommandInv
      <3> QED
        BY <3>1, <3>2
    <2> QED
      BY <1>1, <1>2, <2>2 DEF CommandsServed, IInv, StoreInv, CommandInv
  <1>6. EvidenceInv'
    BY <1>1, <1>2, AcksSame, ClaimsKept DEF IInv, StoreInv, Typed
  <1>7. \A t \in Sessions : rows'[t].availability = "ready" => rows'[t] = rows[t]
    BY <1>2 DEF FaultRow
  <1>8. RowsGrow
    BY <1>7, RowsSame DEF Typed
  <1>9. \A t \in Sessions : rows'[t].seen = rows[t].seen \/ rows'[t].seen = Id
    BY <1>2, NoRowFacts DEF FaultRow
  <1>10. ScanInv'
    BY <1>1, <1>2, <1>7 DEF ScanInv, IInv, RepairInv, Current, Id
  <1>11. RebuildInv'
    <2> SUFFICES ASSUME ~repair.disturbed, NEW u \in Sessions
                 PROVE  Marked(u)' /\ Validated(u)' /\ Unread(u)'
      BY <1>1 DEF RebuildInv
    <2>1. Undisturbed(s)
      BY SessionNext
    <2>2. CASE u # s
      BY <1>1, <1>2, <2>1, <2>2, OtherSession
    <2>3. CASE u = s
      <3>1. /\ Done(s)' /\ ~Readable(s)' /\ (Safe(s)' <=> Safe(s)) /\ ~Current(s)
            /\ s \in repair'.todo => Prefix[s] \notin repair'.buckets
        BY <1>1, <1>2, <2>1 DEF Undisturbed, Readable, Safe
      <3>2. CASE Safe(s) /\ files[s].kind \in {"none", "directory"}
        <4>1. ~Current(s)'
          BY <1>1, <1>2, <3>1, <3>2 DEF FaultRow, Current, Id
        <4> QED
          BY <1>1, <2>3, <3>1, <3>2, <4>1 DEF Marked, Validated, Unread
      <3>3. CASE ~(Safe(s) /\ files[s].kind \in {"none", "directory"})
        <4>1. Current(s)' /\ rows'[s].availability = "unavailable" /\ rows'[s].fault # "command_conflict"
          BY <1>1, <1>2, <3>3 DEF FaultRow, Current, Id
        <4> QED
          BY <1>1, <2>3, <3>1, <3>3, <4>1 DEF Marked, Validated, Unread
      <3> QED
        BY <3>2, <3>3
    <2> QED
      BY <2>2, <2>3
  <1> QED
    BY <1>1, <1>3, <1>5, <1>6, <1>7, <1>8, <1>9, <1>10, <1>11, ScanStep

LEMMA RegisteredRowFacts ==
  ASSUME NEW s, IsFile(files[s]), files[s].kind = "valid", repairs \in Nat
  PROVE  LET n == RegisteredRow(s) IN
         /\ IsRow(n) /\ n.availability = "ready" /\ n.seen = Id /\ n.head = files[s].head
         /\ n.version = files[s].version /\ NotAhead(n, files[s])
  <1> DEFINE n == RegisteredRow(s)
  <1>1. files[s].head \in Nat /\ files[s].version \in Nat /\ Id \in Nat
    BY DEF IsFile, Id
  <1>2. /\ DOMAIN n = RowFields /\ n.availability = "ready" /\ n.head = files[s].head
        /\ n.version = files[s].version /\ n.seen = Id
    BY <1>1, SMT DEF RegisteredRow, RowFields
  <1> HIDE DEF n
  <1>3. IsRow(n)
    BY <1>1, <1>2 DEF IsRow
  <1>4. n.head <= files[s].head /\ n.version <= files[s].version
    BY <1>1, <1>2, SMT
  <1>5. NotAhead(n, files[s])
    BY <1>4 DEF NotAhead, Agrees
  <1> QED
    BY <1>2, <1>3, <1>5 DEF n

\* The session's own command is the only one that claims it.
LEMMA OwnCommand ==
  ASSUME Typed, IInv, NEW s \in Sessions, files[s].kind = "valid"
  PROVE  /\ files[s].operation \in Operations /\ files[s].payload \in Payloads
         /\ Evidence(s, files[s].operation, files[s].payload)
         /\ \A q \in Operations : commands[q].state # "none" /\ commands[q].session = s => q = files[s].operation
  <1>1. files[s].operation \in Operations /\ files[s].payload \in Payloads
    BY DEF Typed, StoreTyped, IsFile
  <1>2. Evidence(s, files[s].operation, files[s].payload)
    BY DEF Evidence
  <1>3. ASSUME NEW q \in Operations, commands[q].state # "none", commands[q].session = s
        PROVE  q = files[s].operation
    <2>1. commands[q].payload \in Payloads /\ Evidence(s, q, commands[q].payload)
      BY <1>3 DEF Typed, StoreTyped, IsCommand, Evidence
    <2> QED
      BY <1>1, <1>2, <2>1, OneCreation DEF IInv, StoreInv
  <1> QED
    BY <1>1, <1>2, <1>3

\* A session that claims its command alone, as far as the scan has come.
LEMMA NoRival ==
  ASSUME Typed, NEW s \in Sessions, Undisturbed(s), ~Done(s), files[s].operation \in Operations,
         ~Conflicts(files[s].operation, s), NEW t \in Sessions, Done(t), Readable(t)
  PROVE  files[t].operation # files[s].operation
  <1> DEFINE o == files[s].operation
             v == commands[o].session
  <1> SUFFICES ASSUME files[t].operation = o
               PROVE  FALSE
    OBVIOUS
  <1>1. Current(t) /\ (Registered(t) \/ InConflict(t)) /\ t # s
    BY DEF Undisturbed, Validated
  <1>2. CASE Registered(t)
    <2>1. commands[o].state = "accepted" /\ v = t /\ rows[t].availability = "ready"
      BY <1>2, SMT DEF Registered
    <2> QED
      BY <1>1, <2>1 DEF Conflicts, Current
  <1>3. CASE InConflict(t)
    <2>1. commands[o].state = "failed" /\ v \in Sessions /\ Done(v) /\ Readable(v)
      BY <1>3 DEF InConflict, Rival
    <2>2. Current(v) /\ (Registered(v) \/ InConflict(v)) /\ v # s
      BY <2>1 DEF Undisturbed, Validated
    <2>3. rows[v].availability = "ready" \/ rows[v].fault = "command_conflict"
      BY <2>2 DEF Registered, InConflict
    <2> QED
      BY <2>1, <2>2, <2>3 DEF Conflicts, Current
  <1> QED
    BY <1>1, <1>2, <1>3

\* The session is registered under its command, which no session met before claims.
LEMMA RegisterStep ==
  ASSUME Typed, IInv, NEW s \in Sessions, ScanSession(s), register(s), ~Conflicts(files[s].operation, s)
  PROVE  Kept
  <1> DEFINE o == files[s].operation
             k == [state |-> "accepted", session |-> s, payload |-> files[s].payload]
  <1>1. /\ Repairing /\ ~Done(s) /\ repair.pc = "scan" /\ repairs \in Nat
        /\ UNCHANGED <<required, repairs>> /\ UNCHANGED BesidesRepair
        /\ UNCHANGED <<files, away, unsafe, allocated, acks, touched, forgotten>>
        /\ repair'.pc = "scan" /\ DOMAIN repair' = RepairFields /\ repair'.disturbed = repair.disturbed
    BY SessionScanned
  <1>2. /\ Readable(s) /\ files[s].kind = "valid" /\ rows' = [rows EXCEPT ![s] = RegisteredRow(s)]
        /\ commands' = [q \in Operations |-> IF q = o THEN k ELSE IF q \in Claims(s) THEN NoCommand ELSE commands[q]]
    BY DEF register, Readable
  <1>3. /\ o \in Operations /\ files[s].payload \in Payloads /\ Evidence(s, o, files[s].payload)
        /\ \A q \in Operations : commands[q].state # "none" /\ commands[q].session = s => q = o
    BY <1>2, OwnCommand
  <1>4. /\ DOMAIN commands' = Operations /\ commands'[o] = k
        /\ \A q \in Operations : q # o => commands'[q] = commands[q]
    BY <1>2, <1>3 DEF Claims
  <1>5. k.state = "accepted" /\ k.session = s /\ k.payload = files[s].payload /\ DOMAIN k = CommandFields
    BY SMT DEF CommandFields
  <1>6. IsCommand(k)
    BY <1>3, <1>5 DEF IsCommand
  <1> HIDE DEF k
  <1>7. /\ DOMAIN rows' = Sessions /\ rows'[s] = RegisteredRow(s)
        /\ \A t \in Sessions : t # s => rows'[t] = rows[t]
    BY <1>2 DEF Typed, StoreTyped
  <1>8. /\ IsRow(rows'[s]) /\ rows'[s].availability = "ready" /\ rows'[s].seen = Id
        /\ rows'[s].head = files[s].head /\ rows'[s].version = files[s].version /\ NotAhead(rows'[s], files[s])
    <2>1. IsFile(files[s])
      BY DEF Typed, StoreTyped
    <2> QED
      BY <1>1, <1>2, <1>7, <2>1, RegisteredRowFacts
  <1>9. TablesTyped
    BY <1>4, <1>6, <1>7, <1>8 DEF TablesTyped, Typed, StoreTyped
  <1>10. CommandsServed
    <2> SUFFICES ASSUME NEW q \in Operations
                 PROVE  /\ commands'[q].state = "accepted" /\ commands'[q].session \notin touched' =>
                             files'[commands'[q].session].kind = "valid"
                        /\ commands'[q].state = "creating" /\ commands'[q].session \notin touched' =>
                             \/ rows'[commands'[q].session].availability = "creating"
                             \/ files'[commands'[q].session] = EmptyFile
      BY DEF CommandsServed
    <2>1. CASE q = o
      BY <1>1, <1>2, <1>4, <1>5, <2>1
    <2>2. CASE q # o
      <3>1. commands[q].state # "none" => rows'[commands[q].session] = rows[commands[q].session]
        BY <1>3, <1>7, <2>2 DEF Typed, StoreTyped, IsCommand
      <3> QED
        BY <1>1, <1>4, <2>2, <3>1, CommandServed DEF IInv, StoreInv
    <2> QED
      BY <2>1, <2>2
  <1>11. EvidenceInv'
    <2>1. \A t \in Sessions : files'[t].kind = "valid" => Evidence(t, files'[t].operation, files'[t].payload)
      BY <1>1 DEF Evidence
    <2>2. \A t \in Sessions : away'[t].kind = "valid" => Evidence(t, away'[t].operation, away'[t].payload)
      BY <1>1 DEF Evidence
    <2>3. ASSUME NEW q \in Operations, commands'[q].state # "none"
          PROVE  Evidence(commands'[q].session, q, commands'[q].payload)
      BY <1>3, <1>4, <1>5, <2>3 DEF Evidence
    <2>4. \A q \in Operations, t \in Sessions, p \in Payloads : <<t, p>> \in acks'[q] => Evidence(t, q, p)
      BY <1>1 DEF Evidence
    <2>5. NothingNew
      BY <2>1, <2>2, <2>3, <2>4 DEF NothingNew
    <2>6. ~forgotten => commands[o].session = s
      BY <1>3 DEF IInv, StoreInv, EvidenceInv
    <2>7. k.state # "none" /\ k.session = s
      BY <1>5
    <2>8. Remembers
      BY <1>1, <1>4, <2>6, <2>7 DEF Remembers
    <2> QED
      BY <1>1, <2>5, <2>8, EvidenceKept DEF IInv, StoreInv
  <1>12. RowsGrow
    <2>1. \A n \in Nat : n >= n
      BY SMT
    <2>2. \A t \in Sessions : rows[t].head \in Nat /\ rows[t].version \in Nat
      BY DEF Typed, StoreTyped, IsRow
    <2>3. files[s].head \in Nat /\ files[s].version \in Nat
      BY <1>2 DEF Typed, StoreTyped, IsFile
    <2>4. ASSUME rows[s].availability = "ready", s \notin touched
          PROVE  rows'[s].head >= rows[s].head /\ rows'[s].version >= rows[s].version
      <3>1. rows[s].head <= files[s].head /\ rows[s].version <= files[s].version
        BY <2>4 DEF IInv, StoreInv, SessionInv, NotAhead, Agrees
      <3>2. \A m, n \in Nat : m <= n => n >= m
        BY SMT
      <3> QED
        BY <1>8, <2>2, <2>3, <3>1, <3>2
    <2> QED
      BY <1>1, <1>7, <2>1, <2>2, <2>4 DEF RowsGrow
  <1>13. /\ \A t \in Sessions : rows'[t].seen = rows[t].seen \/ rows'[t].seen = Id
         /\ \A t \in Sessions : rows'[t].availability = "ready" /\ t \notin touched =>
              rows'[t] = rows[t] \/ NotAhead(rows'[t], files[t])
    BY <1>7, <1>8
  <1>14. ScanInv'
    <2> SUFFICES ASSUME NEW u \in Sessions, Current(u)', rows'[u].availability = "ready"
                 PROVE  \E q \in Operations : commands'[q].state = "accepted" /\ commands'[q].session = u
      BY DEF ScanInv
    <2>1. CASE u = s
      BY <1>3, <1>4, <1>5, <2>1
    <2>2. CASE u # s
      <3>1. Current(u) /\ rows[u].availability = "ready"
        BY <1>1, <1>7, <2>2 DEF Current, Id
      <3>2. PICK q \in Operations : commands[q].state = "accepted" /\ commands[q].session = u
        BY <1>1, <3>1 DEF IInv, RepairInv, ScanInv
      <3>3. q # o
        BY <2>2, <3>1, <3>2 DEF Conflicts, Current
      <3> QED
        BY <1>4, <3>2, <3>3
    <2> QED
      BY <2>1, <2>2
  <1>15. RebuildInv'
    <2> SUFFICES ASSUME ~repair.disturbed, NEW u \in Sessions
                 PROVE  Marked(u)' /\ Validated(u)' /\ Unread(u)'
      BY <1>1 DEF RebuildInv
    <2>1. Undisturbed(s)
      BY SessionNext
    <2>2. \A t \in Sessions : Done(t) /\ Readable(t) => files[t].operation # o
      BY <1>1, <1>3, <2>1, NoRival
    <2>3. CASE u # s
      <3>1. Done(u) /\ Readable(u) => /\ commands'[files[u].operation] = commands[files[u].operation]
                                      /\ o # files[u].operation
        <4>1. Readable(u) => files[u].operation \in Operations
          BY DEF Readable, Typed, StoreTyped, IsFile
        <4> QED
          BY <1>4, <2>2, <4>1
      <3> QED
        BY <1>1, <1>7, <2>1, <2>3, <3>1, OtherSession
    <2>4. CASE u = s
      <3>1. Done(s)' /\ Readable(s)' /\ Current(s)'
        BY <1>1, <1>2, <1>8, <2>1 DEF Undisturbed, Readable, Safe, Current, Id
      <3>2. \A t \in Sessions : Rival(s, t)' => t = s
        BY <1>1, <2>1, <2>2 DEF Rival, Undisturbed, Readable, Safe
      <3>3. Registered(s)'
        BY <1>1, <1>4, <1>8, <3>2 DEF Registered, k
      <3> QED
        BY <2>1, <2>4, <3>1, <3>3 DEF Marked, Validated, Unread, Undisturbed
    <2> QED
      BY <2>3, <2>4
  <1> QED
    BY <1>1, <1>9, <1>10, <1>11, <1>12, <1>13, <1>14, <1>15, ScanStep

\* Another session that the scan has met claims the command.
LEMMA ConflictStep ==
  ASSUME Typed, IInv, NEW s \in Sessions, ScanSession(s), register(s), Conflicts(files[s].operation, s)
  PROVE  Kept
  <1> DEFINE o == files[s].operation
             k == Settled(commands[o], "failed")
  <1>1. /\ Repairing /\ ~Done(s) /\ repair.pc = "scan" /\ repairs \in Nat
        /\ UNCHANGED <<required, repairs>> /\ UNCHANGED BesidesRepair
        /\ UNCHANGED <<files, away, unsafe, allocated, acks, touched, forgotten>>
        /\ repair'.pc = "scan" /\ DOMAIN repair' = RepairFields /\ repair'.disturbed = repair.disturbed
    BY SessionScanned
  <1>2. /\ Readable(s) /\ files[s].kind = "valid"
        /\ rows' = [rows EXCEPT ![s] = Conflicting(RegisteredRow(s)), ![commands[o].session] = Conflicting(@)]
        /\ commands' = [commands EXCEPT ![o] = k]
    BY DEF register, Readable, Conflicting, Settled
  <1>3. /\ o \in Operations /\ files[s].payload \in Payloads /\ Evidence(s, o, files[s].payload)
        /\ \A q \in Operations : commands[q].state # "none" /\ commands[q].session = s => q = o
    BY <1>2, OwnCommand
  <1>4. PICK t \in Sessions :
          /\ commands[o].session = t /\ commands[o].state # "none" /\ t # s /\ rows[t].seen = Id
          /\ rows[t].availability = "ready" \/ rows[t].fault = "command_conflict"
    BY <1>3 DEF Conflicts, Typed, StoreTyped, IsCommand
  <1>5. IsCommand(commands[o]) /\ commands[o].payload \in Payloads
    BY <1>3, <1>4 DEF Typed, StoreTyped, IsCommand
  <1>6. IsCommand(k) /\ k.state = "failed" /\ k.session = t /\ k.payload = commands[o].payload
    BY <1>4, <1>5, SettledFacts
  <1>7. /\ DOMAIN commands' = Operations /\ commands'[o] = k
        /\ \A q \in Operations : q # o => commands'[q] = commands[q]
    BY <1>2, <1>3 DEF Typed, StoreTyped
  <1> HIDE DEF k
  <1>8. /\ DOMAIN rows' = Sessions /\ rows'[s] = Conflicting(RegisteredRow(s)) /\ rows'[t] = Conflicting(rows[t])
        /\ \A u \in Sessions : u # s /\ u # t => rows'[u] = rows[u]
    BY <1>2, <1>4 DEF Typed, StoreTyped
  <1>9. /\ IsRow(rows'[s]) /\ rows'[s].availability = "unavailable" /\ rows'[s].seen = Id
        /\ rows'[s].fault = "command_conflict"
    <2>1. IsFile(files[s])
      BY DEF Typed, StoreTyped
    <2>2. IsRow(RegisteredRow(s)) /\ RegisteredRow(s).seen = Id
      BY <1>1, <1>2, <2>1, RegisteredRowFacts
    <2> QED
      BY <1>8, <2>2, ConflictingFacts
  <1>10. /\ IsRow(rows'[t]) /\ rows'[t].availability = "unavailable" /\ rows'[t].seen = Id
         /\ rows'[t].fault = "command_conflict"
    <2>1. IsRow(rows[t])
      BY DEF Typed, StoreTyped
    <2> QED
      BY <1>4, <1>8, <2>1, ConflictingFacts, ZenonT(30)
  <1>11. TablesTyped
    BY <1>6, <1>7, <1>8, <1>9, <1>10 DEF TablesTyped, Typed, StoreTyped
  <1>12. CommandsServed
    <2> SUFFICES ASSUME NEW q \in Operations
                 PROVE  /\ commands'[q].state = "accepted" /\ commands'[q].session \notin touched' =>
                             files'[commands'[q].session].kind = "valid"
                        /\ commands'[q].state = "creating" /\ commands'[q].session \notin touched' =>
                             \/ rows'[commands'[q].session].availability = "creating"
                             \/ files'[commands'[q].session] = EmptyFile
      BY DEF CommandsServed
    <2>1. CASE q = o
      BY <1>6, <1>7, <2>1
    <2>2. CASE q # o
      <3>1. commands[q].state # "none" => commands[q].session # s /\ commands[q].session # t
        BY <1>3, <1>4, <2>2, OneClaim DEF IInv, StoreInv, Typed
      <3>2. commands[q].state # "none" => rows'[commands[q].session] = rows[commands[q].session]
        BY <1>8, <3>1 DEF Typed, StoreTyped, IsCommand
      <3> QED
        BY <1>1, <1>7, <2>2, <3>2, CommandServed DEF IInv, StoreInv
    <2> QED
      BY <2>1, <2>2
  <1>13. EvidenceInv'
    <2>1. \A q \in Operations : /\ commands'[q].state # "none" <=> commands[q].state # "none"
                                /\ commands[q].state # "none" =>
                                     /\ commands'[q].session = commands[q].session
                                     /\ commands'[q].payload = commands[q].payload
      BY <1>4, <1>6, <1>7
    <2> QED
      BY <1>1, <2>1, AcksSame, ClaimsKept DEF IInv, StoreInv, Typed
  <1>14. \A u \in Sessions : rows'[u].availability = "ready" => rows'[u] = rows[u]
    BY <1>8, <1>9, <1>10
  <1>15. RowsGrow
    BY <1>14, RowsSame DEF Typed
  <1>16. \A u \in Sessions : rows'[u].seen = rows[u].seen \/ rows'[u].seen = Id
    BY <1>8, <1>9, <1>10
  <1>17. ScanInv'
    <2> SUFFICES ASSUME NEW u \in Sessions, Current(u)', rows'[u].availability = "ready"
                 PROVE  \E q \in Operations : commands'[q].state = "accepted" /\ commands'[q].session = u
      BY DEF ScanInv
    <2>1. u # t /\ Current(u) /\ rows[u].availability = "ready"
      BY <1>1, <1>10, <1>14 DEF Current, Id
    <2>2. PICK q \in Operations : commands[q].state = "accepted" /\ commands[q].session = u
      BY <1>1, <2>1 DEF IInv, RepairInv, ScanInv
    <2> QED
      BY <1>4, <1>7, <2>1, <2>2
  <1>18. RebuildInv'
    <2> SUFFICES ASSUME ~repair.disturbed, NEW u \in Sessions
                 PROVE  Marked(u)' /\ Validated(u)' /\ Unread(u)'
      BY <1>1 DEF RebuildInv
    <2>1. Undisturbed(s)
      BY SessionNext
    <2>2. Done(t) /\ Readable(t)
      BY <1>4, <2>1 DEF Undisturbed, Marked, Current
    <2>3. files[t].operation = o
      <3>1. \A q \in Operations : commands[q].state # "none" /\ commands[q].session = t => q = files[t].operation
        BY <2>2, OwnCommand DEF Readable
      <3> QED
        BY <1>3, <1>4, <3>1
    <2>4. \A v \in Sessions : (Readable(v)' <=> Readable(v)) /\ (Done(v)' <=> Done(v) \/ v = s)
      BY <1>1, <2>1 DEF Undisturbed, Readable, Safe
    <2>5. ASSUME Readable(u), Done(u) \/ u = s, files[u].operation = o
          PROVE  /\ rows'[u].availability = "unavailable" /\ rows'[u].fault = "command_conflict"
                 /\ rows'[u].seen = Id
      <3>1. CASE u = s \/ u = t
        BY <1>9, <1>10, <3>1
      <3>2. CASE u # s /\ u # t
        <4>1. Rival(u, t)
          BY <2>2, <2>3, <2>5 DEF Rival
        <4>2. Current(u) /\ InConflict(u)
          BY <2>1, <2>5, <3>2, <4>1 DEF Undisturbed, Validated, Registered
        <4> QED
          BY <1>8, <3>2, <4>2 DEF InConflict, Current
      <3> QED
        BY <3>1, <3>2
    <2>6. CASE Readable(u) /\ (Done(u) \/ u = s) /\ files[u].operation = o
      <3>1. Rival(u, s)' /\ Rival(u, t)'
        BY <1>1, <1>2, <2>2, <2>3, <2>4, <2>6 DEF Rival
      <3>2. \E v \in Sessions : Rival(u, v)' /\ v # u
        BY <1>4, <3>1
      <3>3. commands'[files'[u].operation].state = "failed" /\ commands'[files'[u].operation].session = t
        BY <1>1, <1>6, <1>7, <2>6
      <3>4. InConflict(u)'
        BY <2>5, <2>6, <3>1, <3>2, <3>3 DEF InConflict
      <3>5. Current(u)' /\ Done(u)' /\ Readable(u)'
        BY <1>1, <2>4, <2>5, <2>6 DEF Current, Id
      <3> QED
        BY <2>1, <3>4, <3>5 DEF Marked, Validated, Unread, Undisturbed
    <2>7. CASE ~(Readable(u) /\ (Done(u) \/ u = s) /\ files[u].operation = o)
      <3>1. u # s /\ u # t
        BY <1>2, <2>2, <2>3, <2>7
      <3>2. Done(u) /\ Readable(u) => /\ commands'[files[u].operation] = commands[files[u].operation]
                                      /\ o # files[u].operation
        <4>1. Readable(u) => files[u].operation \in Operations
          BY DEF Readable, Typed, StoreTyped, IsFile
        <4> QED
          BY <1>7, <2>7, <4>1
      <3> QED
        BY <1>1, <1>8, <2>1, <3>1, <3>2, OtherSession
    <2> QED
      BY <2>6, <2>7
  <1> QED
    BY <1>1, <1>11, <1>12, <1>13, <1>14, <1>15, <1>16, <1>17, <1>18, ScanStep

\* A session is registered or its fault recorded.
LEMMA ScanSessionStep ==
  ASSUME Typed, IInv, NEW s \in Sessions, ScanSession(s)
  PROVE  Kept
  BY RegisterStep, ConflictStep, RecordFaultStep DEF ScanSession

-----------------------------------------------------------------------------
(***************************************************************************)
(* The theorems.                                                           *)
(***************************************************************************)

LEMMA CallersStep ==
  ASSUME Typed, IInv, NEW c \in Callers, Begin(c) \/ Step(c) \/ Fails(c)
  PROVE  Kept
  <1>1. CASE Begin(c)
    BY <1>1, CreateSessionStep, OpenSessionStep, AppendStep, ObserveStep DEF Begin
  <1>2. CASE Step(c)
    BY <1>2, ReserveStep, ReserveAgainStep, EnterCreationStep, PlaceStep, InitializeStep, CompleteStep,
       FailStep, OpenLockedStep, UpgradeStep, ReconcileStep, PublishStep, FailsStep DEF Step
  <1>3. CASE Fails(c)
    BY <1>3, FailsStep
  <1> QED
    BY <1>1, <1>2, <1>3

\* Nothing happens.
LEMMA Stutters ==
  ASSUME Typed, IInv, UNCHANGED vars
  PROVE  Typed' /\ IInv'
  <1>1. /\ UNCHANGED <<up, catalog, required, rows, commands, files, away, unsafe, allocated>>
        /\ UNCHANGED <<call, owner, repair, repairs, acks, alarms, touched, forgotten>>
    BY DEF vars, store, actors, ghosts
  <1>2. StoreTyped' /\ StoreInv'
    BY <1>1, SameStore DEF Typed, IInv, StoreInv, LostInv
  <1>3. ActorsTyped' /\ LockInv' /\ QuietInv'
    BY <1>1 DEF Typed, ActorsTyped, IInv, ActorInv, LockInv, QuietInv
  <1>4. CallInv'
    BY <1>1 DEF IInv, ActorInv, CallInv, CallOK
  <1>5. ScanInv'
    BY <1>1 DEF IInv, RepairInv, ScanInv, Current, Id
  <1>6. RebuildInv'
    <2>1. ASSUME NEW s \in Sessions
          PROVE  (Done(s)' <=> Done(s)) /\ (Readable(s)' <=> Readable(s)) /\ (Safe(s)' <=> Safe(s))
                 /\ (Current(s)' <=> Current(s))
      BY <1>1 DEF Done, Readable, Safe, Current, Id
    <2>2. ASSUME NEW s \in Sessions, NEW t \in Sessions
          PROVE  Rival(s, t)' <=> Rival(s, t)
      BY <1>1, <2>1 DEF Rival
    <2>3. ASSUME NEW s \in Sessions, Marked(s), Validated(s), Unread(s)
          PROVE  Marked(s)' /\ Validated(s)' /\ Unread(s)'
      <3>1. Validated(s)'
        BY <1>1, <2>1, <2>2, <2>3, StillValidated
      <3>2. Marked(s)' /\ Unread(s)'
        BY <1>1, <2>1, <2>3 DEF Marked, Unread
      <3> QED
        BY <3>1, <3>2
    <2> QED
      BY <1>1, <2>3 DEF IInv, RepairInv, RebuildInv
  <1> QED
    BY <1>2, <1>3, <1>4, <1>5, <1>6 DEF Typed, IInv, ActorInv, RepairInv

LEMMA NextStep ==
  ASSUME Typed, IInv, Next
  PROVE  Kept
  <1>1. CASE \E c \in Callers : Begin(c) \/ Step(c) \/ Fails(c)
    BY <1>1, CallersStep
  <1>2. CASE Repair
    BY <1>2, SetIntentStep, FinishRepairStep, RepairFailsStep, ScanBucketStep, ScanSessionStep DEF Repair
  <1>3. CASE Environment
    <2>1. CASE OpenRefused
      <3>1. UNCHANGED vars
        BY <2>1 DEF OpenRefused
      <3>2. UNCHANGED <<files, rows, touched>>
        BY <3>1 DEF vars, store, ghosts
      <3>3. FilesGrow /\ RowsGrow
        BY <3>2, FilesSame, RowsSame DEF Typed
      <3> QED
        BY <3>1, <3>3, Stutters DEF Kept
    <2> QED
      BY <1>3, <2>1, CrashStep, OpenStep, OpenCrashStep, LoseCatalogStep, ForeignStep, SubstituteStep
         DEF Environment
  <1> QED
    BY <1>1, <1>2, <1>3 DEF Next

\* At most one session is there at the start, and the catalog knows it.
LEMMA InitStore ==
  ASSUME Init
  PROVE  /\ StoreTyped /\ EvidenceInv /\ SessionInv /\ CommandInv /\ EntryInv /\ SeenInv
  <1>1. PICK v \in {0} \cup Legacy, o \in Operations, p \in Payloads :
          LET old == v # 0 /\ MaxSessions > 0 IN
          /\ allocated = IF old THEN 1 ELSE 0
          /\ files = [s \in Sessions |-> IF old /\ s = 1 THEN Database(o, p, 1, v) ELSE NoFile]
          /\ rows = [s \in Sessions |-> IF old /\ s = 1 THEN ReadyRow(NoRow, 1, v) ELSE NoRow]
          /\ commands = [q \in Operations |-> IF old /\ q = o THEN
               [state |-> "accepted", session |-> 1, payload |-> p] ELSE NoCommand]
    BY DEF Init, ReadyRow
  <1> DEFINE old == v # 0 /\ MaxSessions > 0
             f == Database(o, p, 1, v)
             r == ReadyRow(NoRow, 1, v)
             k == [state |-> "accepted", session |-> 1, payload |-> p]
  <1>2. /\ away = [s \in Sessions |-> NoFile] /\ unsafe = {} /\ acks = [q \in Operations |-> {}]
        /\ alarms = {} /\ touched = {} /\ repairs = 0 /\ forgotten = FALSE
    BY DEF Init
  <1>3. v \in Nat /\ 1 \in Nat /\ 0 \in Nat /\ 0 <= 0 /\ 1 <= 1 /\ v <= v /\ (old => 1 \in Sessions)
    BY CatalogAssumption, SMT DEF Sessions
  <1>4. /\ IsFile(f) /\ f.kind = "valid" /\ f.operation = o /\ f.payload = p /\ f.head = 1 /\ f.version = v
    BY <1>3, DatabaseFacts, SMTT(30)
  <1>5. /\ IsRow(r) /\ r.availability = "ready" /\ r.head = 1 /\ r.version = v /\ r.seen = 0
    BY <1>3, ReadyRowFacts, NoRowFacts, SMTT(30)
  <1>6. k.state = "accepted" /\ k.session = 1 /\ k.payload = p /\ DOMAIN k = CommandFields
    BY SMT DEF CommandFields
  <1>7. old => IsCommand(k)
    BY <1>3, <1>6 DEF IsCommand
  <1>8. /\ DOMAIN files = Sessions /\ \A s \in Sessions : files[s] = IF old /\ s = 1 THEN f ELSE NoFile
        /\ DOMAIN rows = Sessions /\ \A s \in Sessions : rows[s] = IF old /\ s = 1 THEN r ELSE NoRow
        /\ DOMAIN commands = Operations
        /\ \A q \in Operations : commands[q] = IF old /\ q = o THEN k ELSE NoCommand
        /\ allocated = IF old THEN 1 ELSE 0
    BY <1>1
  <1> HIDE DEF old, f, r, k
  <1>9. NoCommand.state = "none" /\ IsCommand(NoCommand) /\ NoFile.kind = "none" /\ IsFile(NoFile)
    BY FileFacts DEF NoCommand, IsCommand
  <1>10. StoreTyped
    <2>1. \A s \in Sessions : IsFile(files[s]) /\ IsFile(away[s]) /\ IsRow(rows[s])
      BY <1>2, <1>4, <1>5, <1>8, <1>9, NoRowFacts
    <2>2. \A q \in Operations : IsCommand(commands[q])
      BY <1>7, <1>8, <1>9
    <2>3. acks \in [Operations -> SUBSET (Sessions \X Payloads)]
      BY <1>2, SMT
    <2>4. allocated \in Nat
      BY <1>3, <1>8
    <2> QED
      BY <1>2, <1>3, <1>8, <2>1, <2>2, <2>3, <2>4 DEF StoreTyped
  <1>11. EvidenceInv
    <2>1. ASSUME NEW s \in Sessions, NEW q \in Operations, NEW m \in Payloads, Evidence(s, q, m)
          PROVE  old /\ s = 1 /\ q = o /\ m = p
      BY <1>2, <1>4, <1>6, <1>8, <1>9, <2>1 DEF Evidence
    <2>2. ASSUME NEW s \in Sessions, NEW q \in Operations, NEW m \in Payloads, Evidence(s, q, m)
          PROVE  s <= allocated /\ commands[q].state # "none" /\ commands[q].session = s
      BY <1>3, <1>6, <1>8, <2>1, <2>2
    <2>3. ASSUME NEW s \in Sessions, NEW q \in Operations, NEW m \in Payloads, Evidence(s, q, m),
                 NEW w \in Operations, NEW n \in Payloads, Evidence(s, w, n)
          PROVE  w = q /\ n = m
      <3>1. q = o /\ m = p /\ w = o /\ n = p
        BY <2>1, <2>3
      <3> QED
        BY <3>1
    <2> QED
      BY <2>2, <2>3 DEF EvidenceInv
  <1>12. SessionInv
    <2>1. NotAhead(r, f)
      BY <1>3, <1>4, <1>5 DEF NotAhead, Agrees
    <2>2. f # DamagedFile /\ NoFile # DamagedFile
      BY <1>4, FileFacts
    <2> QED
      BY <1>2, <1>8, <2>1, <2>2, NoRowFacts DEF SessionInv, Safe
  <1>13. CommandInv
    BY <1>2, <1>3, <1>4, <1>6, <1>8, <1>9 DEF CommandInv
  <1>14. EntryInv
    <2>1. ASSUME NEW s \in Sessions
          PROVE  ~BadEntry(s)
      <3>1. CASE ~(old /\ s = 1)
        BY <1>8, <3>1, NoRowFacts DEF BadEntry, Listed
      <3>2. CASE old /\ s = 1
        <4>1. o \in Claims(s) /\ \A q \in Claims(s) : q = o
          BY <1>6, <1>8, <1>9, <3>2 DEF Claims
        <4> QED
          BY <1>5, <1>6, <1>8, <3>2, <4>1 DEF BadEntry, Paired
      <3> QED
        BY <3>1, <3>2
    <2> QED
      BY <2>1 DEF EntryInv
  <1>15. SeenInv
    BY <1>2, <1>3, <1>5, <1>8, NoRowFacts DEF SeenInv
  <1> QED
    BY <1>10, <1>11, <1>12, <1>13, <1>14, <1>15

\* The invariant holds at the start.
LEMMA InitStep ==
  ASSUME Init
  PROVE  Typed /\ IInv
  <1>1. /\ up = FALSE /\ catalog = "ready" /\ call = [c \in Callers |-> Idle] /\ owner = [s \in Sessions |-> Free]
        /\ repair = NoRepair
    BY DEF Init
  <1>2. repair.pc = "idle" /\ \A c \in Callers : call[c].pc = "idle" /\ IsCall(call[c])
    BY <1>1, IdleCall DEF NoRepair
  <1>3. ActorsTyped /\ LockInv
    BY <1>1, <1>2 DEF ActorsTyped, LockInv
  <1>4. QuietInv /\ CallInv
    BY <1>2 DEF QuietInv, CallInv, CallOK, Reserved, Creating
  <1>5. RepairInv /\ LostInv
    BY <1>1, <1>2 DEF RepairInv, ScanInv, RebuildInv, LostInv
  <1> QED
    BY <1>3, <1>4, <1>5, InitStore DEF Typed, IInv, ActorInv, StoreInv

\* The inductive invariant, for any callers, commands and sessions, and any bounds.
THEOREM Invariant == Spec => [](Typed /\ IInv)
  <1>1. Init => Typed /\ IInv
    BY InitStep
  <1>2. Typed /\ IInv /\ [Next]_vars => Typed' /\ IInv'
    BY NextStep, Stutters DEF Kept
  <1> QED
    BY <1>1, <1>2, PTL DEF Spec

\* Two answers to one command are the same.
LEMMA AnswersAgree ==
  ASSUME Typed, IInv, ~forgotten, NEW o \in Operations,
         NEW s \in Sessions, NEW p \in Payloads, <<s, p>> \in acks[o],
         NEW t \in Sessions, NEW r \in Payloads, <<t, r>> \in acks[o]
  PROVE  t = s /\ r = p
  <1>1. Evidence(s, o, p) /\ Evidence(t, o, r)
    BY DEF Evidence
  <1>2. t = s
    BY <1>1 DEF IInv, StoreInv, EvidenceInv
  <1>3. Evidence(s, o, r)
    BY <1>1, <1>2
  <1> QED
    BY <1>1, <1>2, <1>3, OneCreation DEF IInv, StoreInv

\* The database of an answered creation carries its command.
LEMMA AnswerKept ==
  ASSUME Typed, IInv, NEW o \in Operations, NEW s \in Sessions, NEW p \in Payloads, <<s, p>> \in acks[o],
         files[s].kind = "valid"
  PROVE  files[s].operation = o /\ files[s].payload = p
  <1>1. Evidence(s, o, p)
    BY DEF Evidence
  <1>2. /\ files[s].operation \in Operations /\ files[s].payload \in Payloads
        /\ Evidence(s, files[s].operation, files[s].payload)
    BY OwnCommand
  <1> QED
    BY <1>1, <1>2, OneCreation DEF IInv, StoreInv

\* The answers to a creation command name one session, whose database is there with the command
\* in its provenance, and an open reservation can be resumed.
THEOREM CreationsKept == Spec => []CreationsAreKept
  <1>1. Typed /\ IInv => CreationsAreKept
    <2> SUFFICES ASSUME Typed, IInv, NEW o \in Operations
                 PROVE  /\ \A a, b \in acks[o] :
                             /\ ~forgotten => a = b
                             /\ a[1] \notin touched =>
                                  /\ files[a[1]].kind = "valid"
                                  /\ files[a[1]].operation = o /\ files[a[1]].payload = a[2]
                        /\ commands[o].state = "creating" /\ commands[o].session \notin touched =>
                             \/ rows[commands[o].session].availability = "creating"
                             \/ files[commands[o].session] = EmptyFile
      BY DEF CreationsAreKept
    <2>1. ASSUME NEW a \in acks[o]
          PROVE  a[1] \in Sessions /\ a[2] \in Payloads /\ a = <<a[1], a[2]>>
      <3>1. a \in Sessions \X Payloads
        BY DEF Typed, StoreTyped
      <3> QED
        BY <3>1, SMT
    <2>2. ASSUME NEW a \in acks[o], NEW b \in acks[o], ~forgotten
          PROVE  a = b
      <3>1. PICK s \in Sessions, p \in Payloads : a = <<s, p>>
        BY <2>1
      <3>2. PICK t \in Sessions, r \in Payloads : b = <<t, r>>
        BY <2>1
      <3>3. t = s /\ r = p
        BY <2>2, <3>1, <3>2, AnswersAgree
      <3> QED
        BY <3>1, <3>2, <3>3
    <2>3. ASSUME NEW a \in acks[o], a[1] \notin touched
          PROVE  files[a[1]].kind = "valid" /\ files[a[1]].operation = o /\ files[a[1]].payload = a[2]
      <3>1. PICK s \in Sessions, p \in Payloads : a = <<s, p>>
        BY <2>1
      <3>2. a[1] = s /\ a[2] = p
        BY <3>1
      <3>3. files[s].kind = "valid"
        BY <2>3, <3>2 DEF IInv, StoreInv, CommandInv
      <3>4. files[s].operation = o /\ files[s].payload = p
        BY <3>1, <3>3, AnswerKept
      <3> QED
        BY <3>2, <3>3, <3>4
    <2> QED
      BY <2>2, <2>3 DEF IInv, StoreInv, CommandInv
  <1> QED
    BY <1>1, Invariant, PTL

\* No step of the store shortens or replaces a session's history, or what the catalog says of
\* it, and the checks between them report no session that only the store has written; a
\* refresh of such a session is refused only when the session has grown since.
THEOREM NothingGoesBack == Spec => NeverGoesBack
  <1> DEFINE Forward ==
        /\ alarms' \subseteq touched'
        /\ \A s \in Sessions \ touched' :
             /\ files[s].kind = "valid" =>
                  /\ files'[s].kind = "valid"
                  /\ files'[s].operation = files[s].operation
                  /\ files'[s].head >= files[s].head /\ files'[s].version >= files[s].version
             /\ rows[s].availability = "ready" /\ rows'[s].availability = "ready" =>
                  rows'[s].head >= rows[s].head /\ rows'[s].version >= rows[s].version
  <1>1. Typed /\ IInv /\ [Next]_vars => [Forward]_vars
    <2> SUFFICES ASSUME Typed, IInv, Next
                 PROVE  Forward
      OBVIOUS
    <2>1. Kept
      BY NextStep
    <2>2. alarms' \subseteq touched'
      BY <2>1 DEF Kept, Typed, StoreTyped, IInv, StoreInv, SessionInv
    <2> QED
      BY <2>1, <2>2 DEF Kept, FilesGrow, RowsGrow
  <1>2. [][Forward]_vars => NeverGoesBack
    BY DEF NeverGoesBack
  <1> QED
    BY <1>1, <1>2, Invariant, PTL DEF Spec

\* Nothing but the end of a scan clears the intent while one is under way.
LEMMA OnlyFinishClears ==
  ASSUME Typed, IInv, Next, repair.pc = "scan", required, ~required'
  PROVE  FinishRepair
  <1>1. up /\ repair.pc # "idle" /\ \A c \in Callers : call[c].pc = "idle"
    BY DEF IInv, ActorInv, QuietInv
  <1>2. ASSUME NEW c \in Callers, Begin(c)
        PROVE  FALSE
    BY <1>1, <1>2 DEF Begin, create_session, open_session, Append, Observe, Admitted
  <1>3. ASSUME NEW c \in Callers, Step(c) \/ Fails(c)
        PROVE  FALSE
    <2>1. call[c].pc = "idle"
      BY <1>1
    <2> QED
      BY <1>3, <2>1 DEF Step, Fails, Refused, Reserve, ReserveAgain, EnterCreation, Place, Initialize, Complete,
         Fail, OpenLocked, Upgrade, Reconcile, publish, At, Active
  <1>4. ASSUME Repair
        PROVE  FinishRepair
    BY <1>4 DEF Repair, set_intent, RepairFails, ScanBucket, ScanSession, Tables
  <1>5. ASSUME Environment
        PROVE  FALSE
    <2>1. ASSUME NEW S, Touch(S)
          PROVE  FALSE
      BY <2>1 DEF Touch, Tables
    <2> QED
      <3>1. ASSUME OpenRefused PROVE FALSE
        BY <1>1, <3>1 DEF OpenRefused, vars, store
      <3> QED
        BY <1>1, <1>5, <2>1, <3>1 DEF Environment, Crash, Open, OpenCrash, LoseCatalog, Damage, MoveAway,
           BringBack, Substitute, Tables
  <1> QED
    BY <1>2, <1>3, <1>4, <1>5 DEF Next

\* At the end of the scan every session is done.
LEMMA FinishRebuilds ==
  ASSUME Typed, IInv, FinishRepair, ~repair.disturbed, NEW s \in Sessions
  PROVE  Rebuilt(s)
  <1>1. /\ Repairing /\ repair.buckets = {} /\ repair.todo = {} /\ UNCHANGED commands
        /\ rows'[s] = IF rows[s] # NoRow /\ rows[s].seen # Id /\ ~Exempt(s) THEN Missing(rows[s]) ELSE rows[s]
    BY DEF FinishRepair, Missing
  <1>2. /\ \A t \in Sessions : Done(t)
        /\ Validated(s) /\ Unread(s)
    BY <1>1, Scanning DEF Done, IInv, RepairInv, RebuildInv
  <1>3. \A t \in Sessions : t \in Rivals(s) <=> Rival(s, t)
    BY <1>2 DEF Rivals, Rival
  <1>4. CASE Readable(s)
    <2>1. Current(s) /\ (Registered(s) \/ InConflict(s)) /\ rows'[s] = rows[s]
      BY <1>1, <1>2, <1>4 DEF Validated, Current
    <2>2. s \in Rivals(s) /\ Rivals(s) \subseteq Sessions
      BY <1>4 DEF Rivals
    <2>3. CASE Registered(s)
      <3>1. Rivals(s) = {s}
        BY <1>3, <2>2, <2>3 DEF Registered
      <3> QED
        BY <1>1, <1>4, <2>1, <2>3, <3>1 DEF Rebuilt, Registered
    <2>4. CASE InConflict(s)
      <3>1. Rivals(s) # {s}
        BY <1>3, <2>4 DEF InConflict
      <3> QED
        BY <1>1, <1>4, <2>1, <2>4, <3>1 DEF Rebuilt, InConflict
    <2> QED
      BY <2>1, <2>3, <2>4
  <1>5. CASE ~Readable(s)
    <2>1. Missing(rows[s]).availability = "missing" /\ NoRow.availability = "absent"
      BY MissingFacts, NoRowFacts DEF Typed, StoreTyped
    <2>2. CASE Safe(s) /\ files[s].kind \in {"none", "directory"}
      <3>1. rows[s].seen # Id
        BY <1>2, <1>5, <2>2 DEF Unread, Current
      <3>2. \/ rows'[s].availability \in {"absent", "missing"}
            \/ rows'[s].availability = "creating" /\ rows'[s] = rows[s]
        BY <1>1, <2>1, <3>1 DEF Exempt
      <3> QED
        BY <1>5, <2>2, <3>2 DEF Rebuilt
    <2>3. CASE ~(Safe(s) /\ files[s].kind \in {"none", "directory"})
      <3>1. rows[s] = NoRow \/ (rows[s].availability = "unavailable" /\ Current(s))
        BY <1>2, <1>5, <2>3 DEF Unread
      <3>2. rows'[s].availability \in {"absent", "unavailable"}
        BY <1>1, <2>1, <3>1 DEF Current
      <3> QED
        BY <1>5, <2>3, <3>2 DEF Rebuilt
    <2> QED
      BY <2>2, <2>3
  <1> QED
    BY <1>4, <1>5

\* A repair that finishes leaves the catalog that the files alone determine, in whatever order
\* it met them and whatever earlier attempts left behind.
THEOREM RepairIsDetermined == Spec => RepairRebuilds
  <1> DEFINE Rebuilds == repair.pc = "scan" /\ ~repair.disturbed /\ required /\ ~required' =>
                           \A s \in Sessions : Rebuilt(s)
  <1>1. Typed /\ IInv /\ [Next]_vars => [Rebuilds]_vars
    <2> SUFFICES ASSUME Typed, IInv, Next, repair.pc = "scan", ~repair.disturbed, required, ~required'
                 PROVE  \A s \in Sessions : Rebuilt(s)
      OBVIOUS
    <2>1. FinishRepair
      BY OnlyFinishClears
    <2> QED
      BY <2>1, FinishRebuilds
  <1>2. [][Rebuilds]_vars => RepairRebuilds
    BY DEF RepairRebuilds
  <1> QED
    BY <1>1, <1>2, Invariant, PTL DEF Spec
=============================================================================
