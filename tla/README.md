# A TLA+ verification of Wi

Wi is an agent runtime.  A host accepts tasks, runs each of them against a model
provider and a registry of tools, and records every step in one SQLite database
per session, with a catalog database beside them.  An HTTP adapter and a browser
client show and steer what happens.  This directory holds TLA+ models of the
parts that run concurrently, fail or recover, the TLC configurations that check
them on small instances, and proofs that TLAPS checks for every instance.
`PROJECT.json` lists components, runs, mutants, findings, hazards and theorems,
and maps each definition to the lines it stands for.

## The system

```
 browser window (web/src)  <-- pages, live stream --  http_api
        |  commands                                     |
        v                                               v
   http_api/router  -->  RunHost (service)  -->  persistent execution (execution)
                             |                          |
                             |                   run controller (run), tools
                             |                          |        \
                             v                          v         provider session
                        SessionStore  <-- records --  observer     (providers/openai_codex)
                   lifecycle, lease, catalog,                        |
                   session databases, projection               managed credentials
```

A `SessionStore` owns one data root through an operating system lock
(`Lifecycle`).  The `RunHost` owns the store and one worker per submitted run
(`RunHost`).  A worker calls persistent execution, which accepts an operation at
most once and appends what the run does (`Execution`).  The controller drives the
run: turns, responses, tools, cancellation (`RunController`), against a provider
session that serialises requests on one connection (`ProviderSession`); the bytes
of a response become frames (`SseWire`) and the frames a checked response
(`ResponseStream`).  Credentials come from the file of another program
(`Credentials`) or from profiles that several processes renew (`ManagedAuth`), to
which a login in the browser adds (`BrowserLogin`).  What a run records must be what
a later run can replay (`RunRecords`, `Replay`, `RunReplay`) and what a repair
accepts (`RunAudit`).  Creation, opening, migration, refresh and repair of sessions
share the catalog (`Catalog`), and all of it the locks of the store (`StorageLocks`).  A task is prepared with instructions and skills
from the workspace (`Context`, `Frontmatter`).  The HTTP adapter checks requests
(`HttpRequest`), carries commands that the browser repeats and reconciles
(`HttpCommands`), and serves connections with their event streams
(`HttpService`).  A projection of the events is what the browser pages through and
follows live (`ConversationFeed`), entry by entry and range by range
(`EntryContent`).

| Module | Code | Extends or instantiates |
|---|---|---|
| `StoreOwnership` | promise of the store lifecycle | |
| `Lifecycle` | `storage/lifecycle.rs`, its callers in `storage/mod.rs`, `database.rs`, `filesystem.rs` | refines `StoreOwnership` |
| `LifecycleProofs` | proofs about `Lifecycle` | `Lifecycle`, `TLAPS` |
| `RunHost` | `service/mod.rs`, `service/tickets.rs` | composes with `Lifecycle` |
| `RunHostProofs` | proofs about `RunHost` | `RunHost`, instantiates `LifecycleProofs` |
| `RunLedger` | promise of persistent execution | |
| `Execution` | `execution/mod.rs`, transactions of `run_store.rs`, `session.rs`, `interruption.rs` | refines `RunLedger` |
| `StorageLocks` | the locks of `storage/mod.rs` and `session.rs`, and who takes them in which order | |
| `ExecutionProofs` | proofs about `Execution` and `StorageLocks` | `Execution`, `TLAPS`, instantiates `StorageLocks` |
| `RunRecords` | record validation of `run_store.rs`, `records.rs` | |
| `RunController` | `run/mod.rs`, `run/collect.rs`, `tools.rs`, `execution/observer.rs` | `RunRecords` |
| `RunControllerProofs` | proofs about `RunController` | `RunController`, `TLAPS` |
| `Replay` | `execution/replay.rs`, `replay/reconstruct.rs`, `provider/replay.rs` | `RunRecords` |
| `RunReplay` | the controller's log read by replay | `RunController`, `Replay` |
| `RunAudit` | typed reads of `run_store.rs`, `run_store/repair.rs` | `RunController` |
| `Catalog` | `creation.rs`, `catalog*.rs`, `migration.rs`, parts of `session.rs`, `filesystem.rs` | |
| `CatalogProofs` | proofs about `Catalog` | `Catalog`, `TLAPS` |
| `ProviderSession` | `providers/openai_codex/session.rs`, `state.rs`, `codec.rs`, `wire.rs` | |
| `ProviderSessionProofs` | proofs about `ProviderSession` | `ProviderSession`, `TLAPS` |
| `SseWire` | `sse.rs` and the reading half of `wire.rs` | |
| `ResponseStream` | `codec.rs`, `finalized.rs`, `consistency.rs`, `replay.rs` | |
| `ManagedAuth` | `managed_auth.rs`, `managed_store.rs`, `refresh.rs` | |
| `ManagedAuthProofs` | proofs about `ManagedAuth`, `BrowserLogin` and `Credentials` | `ManagedAuth`, `TLAPS`, instantiates the other two |
| `Credentials` | `auth.rs`, `Wire::open`, `Wire::send` | |
| `BrowserLogin` | `browser_login.rs` | |
| `HttpRequest` | `http_api/boundary.rs`, `input.rs`, `assets.rs`, `router.rs` | |
| `HttpCommands` | `http_api/router/runs.rs`, create and rename in `router.rs`, `web/src/display-client.ts` | |
| `HttpService` | `http_api/serve.rs`, `serve/transport.rs`, `router/events.rs` | |
| `HttpProofs` | proofs about `HttpCommands`, `HttpService` and `HttpRequest` | `HttpCommands`, `TLAPS`, instantiates the other two |
| `Context` | `context.rs`, `context/preparation.rs`, `context/skill_loading.rs` | |
| `Frontmatter` | `context/frontmatter.rs` | |
| `ConversationFeed` | `storage/conversation`, `http_api/router/conversation`, `web/src/display-*.ts` | |
| `EntryContent` | `storage/conversation/fields.rs`, `projector/content.rs`, `reads/`, `web/src/display-store.ts` | |
| `MC*` | instances of the above for TLC | |

In each module an operator whose comment starts with "Fault:" is the following
definition with one plausible mistake in it.  No specification uses it: it states
what the mistake would be that the named property excludes (`mutants` in
`PROJECT.json`).

## The models

**Lifecycle.**  Several `SessionStore` instances contend for one root.  `holder`
is the lock, `lease`, `admitted`, `closing`, `unhealthy` the fields of `State`,
`guards` the `OperationGuard`s alive, `waiter` and `woken` the callers of
`close()` with their `Notified` futures.  Every method is an action.  A guard that
is dropped unfinished is `Lose`, and `stray` says that SQL may still be running
after it.  `close()` is two steps, because it enables its notification before it
reads the state.  The counter saturates at `UsizeMax`, as `checked_add` does.

**RunHost.**  The gate, the workers, the tickets and the shutdown coordinator over
an instance of `Lifecycle` with a single store.  A worker's position is its await;
the storage calls of a run are one representative call before acceptance, one for
the acceptance and one after it.  Workers may panic, and the runtime may stop and
destroy all tasks at any await.

**Execution.**  Callers of `run_in_session` and `run_persisted` on one session,
each step an await: lookup, acceptance lock, second lookup, history selection,
acceptance transaction, records, final result.  Every transaction may fail before
its commit, fail after it (the caller cannot tell), or succeed with a cleanup
warning that quarantines the store.  A caller may vanish at any await, the process
may crash and start again, and opening interrupts what the previous process left.

**StorageLocks.**  Tasks that create, open, use, refresh and list sessions, repair the
catalog and accept runs, as far as they take locks: `place` is the task's await, `inside`
who owns a lock or waits for it, `ahead` who was there before (tokio's locks, which are
external, serve in the order of the requests).  An operation shares the maintenance lock
and a repair owns it; the lock of a session is held across the transactions on the
catalog that are made under it, and the lock of a command across whole operations.  The
locks of sessions and commands are made again when nobody refers to them: `current` is
the incarnation that the map refers to.  An operation may end with an error wherever it
waits for nobody; a caller may go away at any time, and its operation goes on.

**RunController, RunRecords, Replay, RunReplay.**  One run.  The controller moves
from one awaited record to the next; each record goes through the store's own
validation (`RunRecords`), so a disagreement between writer and store would show as
a refused append.  Provider and tools answer as they like.  `RunReplay` reads the
log that results, at every point at which the run can stop, with the code's
reconstruction, and compares it with `wire`, the history of what was really sent.

**RunAudit.**  The typed reads of a run's rows and the validation of a repair, over
the rows and records that `RunController` leaves at every point.  `Damaged` is every
row that differs in one column from the one the store wrote.

**Catalog.**  Operations of the store interleaved at the granularity of catalog
and session transactions, with uncertain commits, crashes, and files that other
hands damage, remove and bring back.  A repair surveys the files, inspects each
session and replaces the catalog.  `Open` makes a catalog that is missing in two steps; a
process that is lost between them leaves an empty file, which every later open refuses.

**ProviderSession.**  Callers of the control handle, the worker, the event queue
with its reserved last slot, and the consumer; with the transcript the next
request continues.  The command channel holds one command; a caller can be dropped
only while it waits for its reply.  A request that was written is kept with the
context that the provider, which is external, gives it: its input, after the context
and the output of the response that it names as parent.  The transports differ in
whether an idle socket is read and in whether a request names a parent.

**SseWire.**  A body is a sequence of letters: line ends, and lines that are told
apart only as the framing does it.  The network cuts it anywhere.  A response
without a media type is first read by a probe, and what the probe fetched is read
again by the wire.  The reference is the framing of the whole body.

**ResponseStream.**  The decoder, the finalized items and the consistency check
as pure steps over the messages of one response.  The provider follows the script of
each item, interleaves the scripts as it likes, leaves out what is optional, and
departs from them `MaxSlips` times.

**ManagedAuth.**  Tasks of any process that share the profile store.  The
directory has a visible state and the state of its last sync; a power loss leaves
every entry in either of them.  A refresh token is accepted by the provider once.

**Credentials, BrowserLogin.**  A session loads the file in three awaits while its
owner rewrites it and time passes; seconds and milliseconds keep their ratio.
Logins of one profile share one callback port; pages of logins that have ended can
still redirect to the listener of another one.  The end of a login is four steps, as in
`finish`: the guard is removed, the profile is read again, the page is told, the caller is
told; a worker may die before each of them.

**HttpRequest.**  Two pure functions, the checks in their order (`handle`) and the
preflight, over well-formed requests of which up to `MaxAltered` fields are altered.  A
preflight asks for the method, the target and the headers that the request carries
(`Ahead`); `Bare` is the request without those that no preflight grants.

**HttpCommands.**  Per request a handler, the worker it dispatched and the ticket
between them; per command the browser's pending state.  A client that goes away ends
its handler and not its worker.  The ledger stands for `Execution` as the handlers
see it.  A task is recorded as it was prepared, so that a repetition that is prepared
anew may differ from the one that was recorded and conflict with it.

**HttpService.**  The `serve` future, the owner guard, axum (external, modelled from
how `serve` uses it), sockets and one raw event stream per socket.  The host's
shutdown is an outcome here; its steps are in `RunHost`.

**Context, Frontmatter.**  Discovery over two roots in the order of the code, then
preparation, capture and `load_skill`, each reading files anew while the owner edits
them.  Events of the YAML parser (external) are folded to a JSON object with the
code's stack and compared with what the document denotes.

**ConversationFeed.**  The projection records, for the title, every block and every
entry, the sequence of the event that last changed it; what an entity shows is a
function of that revision.  Pages and batches are computed on one snapshot and
delivered at any later time, or never.  The browser's window is merged as
`display-store.ts` does it.  `Ascii` is the order of entry identities as text, which
is not the order of their numbers.

**EntryContent.**  One entry.  `saved` holds it at every revision, fields with their
generations and the epoch of their layout.  The server shows any suffix of it, as a
live update, as a content read behind a cursor, or as a refresh.  The browser merges
ranges, keeps the cursor of what is earlier, and refuses what contradicts it.
Answers are delivered at any later time or never.

## What is checked

All runs finish within five minutes on two cores.  "Live" runs use the fair
specification.  Machines that do not interact share a run: the MC module has a
variable `part` that says which of them a behaviour is about, and the others keep
their initial values.

| Run | Instance | Shows |
|---|---|---|
| `lifecycle` (live) | 2 stores, 3 guards, 2 waiters, counter limit 2 | when `close()` has answered Ok, or a healthy instance has ended, nothing is left and the lock is free; quarantine keeps it; the module implements `StoreOwnership`, so that work happens only under the lease; `close()` returns |
| `run_host` (live) | 2 dispatches, a retry and another operation, 1 reader | workers keep the store open; shutdown reports closed only when it is, and a lost run keeps the root; tickets and shutdown settle |
| `execution` | 2 callers, 2 operations with conflicting content and methods, 2 process starts; locks: 3 tasks on 1 session, 2 of them with one command, each kind of operation done by one of them or more | runs of a session execute in turn, each at most once and only after its acceptance is durable; what a caller is told, a conflict included, is what is recorded; the module implements `RunLedger`; a session and a command have one task at work at a time, and no tasks wait for each other in a circle |
| `run_controller` (live) | 2 call identities, 8 kinds of response, 3 turns | the store never refuses the controller's records; tools run at most once per call; every request carries exactly the results of the last response; replay is faithful and does not refuse what it could replay; a repair accepts what the store wrote and refuses a row changed in one column; cancellation ends the run |
| `catalog` | 2 callers, 2 commands, 2 payloads, 2 sessions in 2 buckets, one of them possibly of schema 1 or 2, 1 crash; or 1 caller, 1 command, 3 foreign changes, 2 repairs | a command creates one session, which stays; neither a session nor the catalog's view of it goes back, and no intact session is reported damaged; a repair rebuilds what the files determine |
| `catalog_empty_reservation` | 1 caller, 1 session, 1 crash, 1 repair | finding 1 |
| `provider_session` | 3 calls on a socket, 2 on an event source, 2 at once; bodies of up to 4 letters and some longer, in 3 media types; 2 outputs of up to 2 items with 1 slip | every request continues the accepted transcript; frames do not depend on how the body is cut; a response says what was streamed, and a provider that keeps to the protocol is accepted |
| `streams` (live) | 2 calls with 1 event before the terminal one, queue of 1; 2 sockets, one with a stream, pages of 2, 3 records | events in order with one terminal event; what callers are told of submission is true; every call returns; what `serve` returns is final; a raw stream sends each record once; a stream catches up and a shutdown returns |
| `managed_auth` | 2 agents, 1 profile, 3 tokens, 1 crash, 1 power loss; 36 forms of the credential file, 1 rewrite, 2 seconds; 2 logins, 2 callbacks | a profile that may be used holds a live token; a token is sent once, and only the first agent that waited renews; a session presents only current credentials and a login stores only what its own page brought; profiles come and go only by an acknowledged operation |
| `conversation_feed` | 6 events, 2 selections, 1 entry per page, 2 entities per batch; an entry of 2 fields, 2 bytes each, 3 revisions, 1 frame on its way | no update is lost between pages and stream, and a quiet stream has shown everything; nothing is unreachable; neither side finds the other's answers contradictory; content shown is content saved, all of it where it is shown as complete |
| `conversation_stale` | the feed with 7 events, 1 selection | finding 2 |
| `http` | 3 requests in 4 sets of commands; 2 altered fields; 98 trees of skills, 2 edits, 1 load; documents of depth 2 | what the browser calls rejected, accepted or conflicting is so for good; a preflight agrees with its request; discovered skills and their metadata are what the files say, and the model is given only what the catalog advertises |

**Why the bounds are enough.**  The bounds are the smallest in which the hazards
of `PROJECT.json` occur: two parties that race, a retry beside a different
command, one crash between any two steps and (in `Execution`) a second process
after it, a second block behind the newest one, an entry behind a page's boundary,
a tie within one sequence that a batch splits, a field behind the one that an answer
shows, a field replaced between two reads of it, a message of one item within the
script of another.  Counters that the code bounds
(`UsizeMax`, `Capacity`, `HistoryLimit`, `PAGE_LIMIT`, `CHANGES_LIMIT`, `PageSize`,
`MaxFrame`, `MaxProlog`, `MaxResponse`, `MaxInput`) are set so low that the limit
is reached.  `MaxWork` in `ConversationFeed` bounds events and rebases together.

**Reductions.**  Symmetry is used only in runs without liveness.  In the live runs
`NamedInOrder` fixes the first name taken, which is sound because names are only
compared: every excluded behaviour is a renaming of one that is kept.  `Reach` of
`MCCatalog` explores either several callers and commands without foreign changes, or
one caller and one command with them; their product is out of reach.  `Reach` of
`MCConversationFeed` lets the entry of `EntryContent` begin empty or with all of its
fields.
`CallsOfTransport` gives the event source two calls, because it repeats the whole
conversation in every request.  `lifecycle` and `catalog` check for deadlock; the
others disable it, because their systems come to rest when the bounded work is done.
Only properties of one part are evaluated in that part; `streams` names its fairness
part by part, as the two modules do.

**Types.**  `TypeOK` of a module states the domain of its variables.  It is proved for
`Lifecycle`, `RunHost`, `Execution` and `ManagedAuth`.  For `RunController`,
`Catalog`, `ProviderSession` and `HttpCommands` the part that the proofs need is, as
`Typed` or `Types`, a conjunct of `Invariant`.  The others hold under the configurations here and are not among the properties of the runs
(add `TypeOK` to the INVARIANTS to check one).

**Safety in place of liveness.**  That the browser catches up is the second half of
`InStep`: every batch moves the cursor forward, so a stream that is served comes to
rest, and at rest the window is at the head of the session.  That operations of the
store come to their locks is `LocksAreServed`: with no circle of tasks that wait, and
locks that serve in turn, whoever waits is served when those ahead of it have ended.

**Fairness.**  Weak fairness stands for the executor: a task whose await is ready
is polled again.  It is assumed of finishing storage calls, waiters, workers and
the shutdown coordinator (`Lifecycle`, `RunHost`), of the controller
(`RunController`; its awaits on provider and tools are raced against
cancellation), and of the worker, the consumer and the callers of a provider
session, whose network reads have timeouts.  In `HttpService` it is assumed of the
`serve` future, of the host's coordinator (which `run_host` shows to report), of
axum's return once its connections are gone, of the event stream's own steps, and
of the end of a socket once `network_close` is cancelled, because `ClosingIo` then
fails every read and write.  No fairness is assumed of idle reads, clients,
cancellation, submissions, crashes, or of losing guards.

## Findings

1. *An empty reservation does not survive a repair* (`catalog_empty_reservation`,
   `catalog_repair.rs:356`).  A crash after `create_session` made the database file
   and before it was initialised leaves an empty file that a retry would complete.
   A repair in between marks the session unavailable, and every retry is refused.
   Tests and a comment in `creation.rs` say such reservations are recovered.
2. *An older page can bring in an outdated entry* (`conversation_stale`,
   `display-store.ts:264`).  While a page of earlier activity is on its way, the
   stream passes an update of an entry on that page; the window does not hold the
   entry and ignores the update; the page then installs the earlier revision, which
   stays until the entry changes again or the reader reconnects.
   `CONVERSATION.md` says the stream synchronizes current projected state.
   `InStep`, checked in `conversation_feed`, shows that this race is the only way
   for the window to fall behind.

Observations from the models that are not failures of a documented promise, or only
in part:

- While a reconnect loads, the client would accept an older read with a cursor of the
  window about to be replaced.  Only the view's check of `observation === 'loading'`
  excludes it; without the check `NothingHidden` fails.
- An authoritative snapshot may replace the text of an earlier field that compact
  answers no longer show.  The browser then keeps the old boundary in
  `earlierContent`, content reads are refused as stale, and a refresh of the entry
  returns the same tail and keeps the cursor, until the reader reconnects.
  `ReadsAgree` characterises this: at the copy's own revision a cursor is stale only
  through a field that the copy has not seen since.  `CONVERSATION.md` line 50 says
  that a refresh replaces only the affected entry or ranges.
- A content answer that a live update overtook, or one read at a newer revision that
  no longer proves the layout, is reported as an identity mismatch though
  nothing is wrong (`display-view.ts`, lines 312 and 437).
- A task that is sent again after `AGENTS.md` or a skill has changed is prepared with
  other text under the same operation, and the browser is told of a conflict although
  its own task was recorded (`runs.rs:198`, `run_store.rs:609`).  `AnswersAreTrue` allows
  this for tasks and for nothing else.
- `Content-Encoding: identity` is accepted in a request (`input.rs:52`) and is not among
  the headers that a preflight grants (`boundary.rs:145`); the browser does not send it.
- A refresh that was overtaken by another append is refused as `storage.integrity`, like
  a damaged session (`catalog_sync.rs:90`).  `NeverGoesBack` says that this is the only
  reason for it.
- A process that is lost while it makes `catalog.sqlite3` leaves an empty file, which
  every later open refuses as `storage.integrity` (`catalog.rs:57`) until it is removed
  by hand.

## What is proved

Theorems hold for every value of the constants that satisfies the named assumption
of the module, the bounds included: any number of stores, callers, agents, crashes.
Each component has an inductive invariant `IInv`; `Invariant` states that `Spec` keeps
it, and the other theorems follow from it.  Where a run uses a fair specification, the
theorem is about `Spec`, of which the fair one is a special case.  Every action has a lemma, split by the
conjuncts that it can disturb, and what an action does not concern is a frame lemma.
`USE ZenonT(60)` at the head of a module sends the first-order steps, which are most, to
Zenon; steps with arithmetic, records or sequences cite `SMT`.

**Lifecycle** (`LifecycleProofs`; guards finite, `UsizeMax` positive).  `TypeCorrect`,
`ExclusiveWork` (`WorkOnlyUnderLease`), `EndFrees` (`EndedMeansFree`), the action
property `QuarantineHolds` (`QuarantineKeepsLease`), and `ImplementsOwnership`: `Spec`
implements `StoreOwnership!Spec` with the holder of the lock as owner and the
instances with guards or stray SQL as working.  `WorkOnlyUnderLease` is not
inductive.  `finish` decides by the counter whether it is the last one, so `CountInv`
says that the counter is the number of guards; the release happens in the drop of the
last guard, in `close()` and in the drop of the store, so `LeaseInv` says, for each
phase of an instance, whether it holds the lock: always with guards or stray SQL,
which also makes it unhealthy, and never after a healthy end; `WaiterInv` says that
what a caller told Ok has seen, a released lease of a closing instance, stays so.

**RunHost** (`RunHostProofs`; the guards of dispatches and readers finite, names
distinct).  `TypeCorrect`, `StoreClosesLast` (`WorkersKeepStoreOpen`) and
`ClosedIsTrue` (`ClosedMeansClosed`).  The proof is compositional: every step of the
host is a step of its store or leaves it alone (`HostStoreStep`), so the invariant of
`LifecycleProofs`, instantiated with the one store, is kept by its theorem and not
proved again (`StoreFacts`).  `GateInv` adds that the coordinator is spawned once,
behind a closed gate, and goes on to close the store only when it has seen every
worker go, after which none can register; `WorkerInv` says what a worker reports, and
that one lost after its acceptance had the hold whose loss made the store uncertain.

**Execution** (`ExecutionProofs`; requests well typed, the values for nothing
distinct).  `ExecutesInTurn` (`RunsInTurn`), `ReportsAreTrue` (`ReportIsTrue`) and
`ImplementsLedger`: `Spec` implements `RunLedger!Spec`.  `TableInv` relates receipts
and runs, `OrderInv` says that runs follow each other in the history, `ExecutionInv`
that a caller executes under the receipt of its own request and alone, `LockInv` what
the acceptance lock protects between the second lookup and the transaction, and
`ReportInv` that what was reported is never rewritten.

**StorageLocks** (`ExecutionProofs`; every task has a session and a command).
`LocksServed` (`LocksAreServed`), for any tasks, sessions, commands and operations.  Each
lock is a line (`Queue`: of two tasks one is ahead, and any of them have a first), which
joining at the end and leaving from anywhere keep.  `PlaceOf` says in which lines a task
is, and that it uses the incarnation that the map refers to: a lock is made again only
when nobody is in its line.  `GrantOf` says that a task has come to the head of the lines
that it has passed.  So the locks are taken in one order, command, maintenance, session,
catalog, and among any tasks the first in the last of the lines waits for none of them.

**ManagedAuth** (`ManagedAuthProofs`; bounds are numbers).
`TypeCorrect`, `LoggedInIsLive` (`UsableIsLive`), `SentOnce` (`RefreshOnce`) and the
action property `ProfilesKept` (`ProfilesAreKept`).  A power loss may bring back any
entry of the last sync, so the invariant speaks of every place where a profile can be
(`Entry`: the document, the last sync, the copy that the holder will write):
incarnations and tokens are unique over all of them (`EntryInv`), a profile without a
live token is marked or has a guard that lasts (`SoundInv`), and a renewal sends the
token only under such a guard (`TaskInv`).

**RunController** (`RunControllerProofs`; responses well typed,
bounds positive).  `StoreAgreement` (`StoreAgrees`), `EffectsHappenOnce` (`EffectsOnce`)
and `ResultsAreContinued` (`ContinuesWithResults`), for any set of responses, turns and
calls.  That the store admits the next record depends on all that it has admitted
before, so the invariant relates the controller's own state at every await to the row
of the run: its state, session and last sequence (`RunInv`, `StageInv`), the turn,
request and provider sequence that correlation has seen (`TurnInv`), and the rows of
the tool calls.  Those agree with the registry of results but for the call that is
being executed and the one whose result is not saved yet (`CacheInv`, `HeadInv`), the
calls still to come are the ones that preflight has admitted (`BatchInv`), and the
results prepared so far answer the last response in order (`WireInv`).  When the run is
over, or the process is lost, only the two histories remain.

**Catalog** (`CatalogProofs`; every session has a bucket, bounds are numbers).
`CreationsKept` (`CreationsAreKept`) and the action properties `NothingGoesBack` (`NeverGoesBack`) and `RepairIsDetermined`
(`RepairRebuilds`), for any callers, commands, sessions, crashes, repairs and foreign
changes together, which TLC explores only apart.  `CreationsAreKept` is not inductive:
a repair takes the command of a session from its database, so `EvidenceInv` speaks of
every place that knows of a creation (database, database moved away, command, answer):
all of them name one command and one payload, and the catalog has the command unless it
was lost.  `CallInv` says what a caller who waits relies on (its command is there, its
row waits, what it observed is not ahead of the database), `SessionInv` and
`CommandInv` the same for the rows and the commands, each with the exception of
sessions that other hands have touched, and `EntryInv` that outside of repairs no entry
contradicts itself.  For `RepairRebuilds`, `RebuildInv` says what the scan has made of
the sessions that it is done with: `Registered` alone, or `InConflict` with a rival
that it has met, and marked with the number of the attempt.  In the step
that registers a session, the check of `register` is shown to find a rival whenever
there is one (`NoRival`).  The lemma of an action proves four facts at once (`Kept`):
types, invariant, and that databases and rows do not go back.

**ProviderSession** (`ProviderSessionProofs`; `SessionAssumption`).  `Order`
(`EventOrder`), `Told` (`ToldTruly`) and `Continuation` (`RequestsContinue`), for any
calls, queue and replay, on both transports.  The flag `busy` is set by a caller and
cleared by the worker, so `CommandInv` and `BusyInv` follow a command from its caller
through the channel to the worker: while the flag is set, somebody who will clear it is
there.  For the events, `NumberInv` says that numbers are given in order, `OwnerInv`
and `StartInv` whose events there are and that they begin with a start, `OpenInv` that
the request being served has no terminal event yet, and `OverInv` that all others have
one, unless the consumer left.  `SentInv` and `FailureInv` relate `upstream` to what
was written.  `RequestsContinue` needs a second invariant, `TurnInv`, kept under the
first one: only one call holds the flag (`HoldInv`); a replay is installed only into a
session that nothing has used (`UsedInv`); and the stored conversation is that of all
requests between two of them, and of all but the last while that one is served
(`TalkInv`).  The context of a request does not change with later requests, so what was
right when it was written stays right (`RightInv`).

**HttpCommands** (`HttpProofs`; `CommandsAssumption`).  `Answers` (`AnswersAreTrue`),
for any commands, operations and number of requests.  Accepted and conflicting are
stable, because a row of the ledger is never rewritten; rejected is not: it is true only
if nothing that was sent can still record the command.  `OnlyBy` says which request
could, `OwnInv` what the first request of a command knows while it is served, and
`Untouched` that after a rejection no request is left; `AttemptInv` relates handler,
worker and ticket of a request, and `ItemInv` the phases of the browser to the ledger.

**HttpService** (`HttpProofs`).  `Outcome` (`OutcomeIsFinal`), from `ServeInv`: what
`serve` has waited for, network, then sockets, then host, stays so.  `EventStreams`
(`EventsExact`), from `StreamInv`: the cursor of a stream is at the last record that it
has sent.  It assumes that `None` is not the name of a stream's end.

**BrowserLogin** (`ManagedAuthProofs`; 0, the value for nothing, is not a login).
`LoginTrue` (`LoginIsTrue`, the half of `LoginsAreTrue` that is about logins), from
`LoginInv`: a code is sent once and is the one of the login's own page, whoever writes
holds the lock, a profile is replaced only by a login that was told to, and what a login
has read of its profile when its guard is gone stays so until another login replaces it.

**Credentials** (`ManagedAuthProofs`; `FilesAssumption`: expiries are numbers, a second
has a positive number of milliseconds).  `CredentialsCurrent` (`CredentialsAreCurrent`,
the other half of `LoginsAreTrue`), for any files, margin and changes of the file.  What
a wire holds at each await is not what the file says by then, so `WireInv` relates it to
the file that was read; that a file is fresh, or expired, is stated in the unit of the
file and decided by the code in seconds, after rounding, and `SecondFacts` shows
that both comparisons agree.

**HttpRequest** (`HttpProofs`).  `Preflight` (`PreflightAgrees`), for any number of
altered fields.  A list of checks answers with the first that fails (`RefusedFacts`).
Lists are joined by `ChecksJoin`, so that the answer is settled part by part: `Granted`
says when a preflight is granted, `RefusedByRoute` which requests with the owner's token
are refused for host, origin, route, method, identifiers or query, and `Reached` when a
request reaches its handler.  A request and its preflight have the same address
(`SameAddress`); the headers that are not granted do not decide an answer
(`BareReached`).

**Only model-checked**:

- `ReplayFaithful`, `AuditExact`, `FramesAreExact`, `ResponseIsStreamed` and
  `SkillsAreExact` compare what a fold or a recursive function computes with a
  reference, which needs induction over data;
- `ContentIsExact` and the half of `AnswersAgree` that is about `EntryContent` speak of
  concatenated ranges, for the same reason;
- liveness, which the prover does not cover (`CloseReturns`, `TicketsSettle`,
  `CancelEnds`, `CallsSettle`, `ServiceGoesOn`);
- `InStep`, `NothingHidden` and `NeverContradicted` of `ConversationFeed`, where pages and
  batches of any length are applied by folds: what a batch does to the window would
  need induction over its entries.

## What is not modelled

- Redacted observations of a response (`observation.rs`): counters for a report.
- Interface values and their JSON forms (`conversation/values.rs`, `wire.rs`, `dto/`,
  `web/src/api.ts`): construction and formatting without control.
- Command line, configuration and the access token: input and output.
- The offline authorization tool: no production path uses it.
- Digests and the decoding of stored payloads: their verdict is the `damaged` or
  `intact` of `Catalog` and `Replay`.
- The older client `web/src/client.ts`, the reader `web/src/sse.ts`, and the view's
  rendering.

Within the modelled parts, texts, times, character boundaries, the chunks in which a
field is stored, JSON sizes and 64-bit overflow of sequence numbers are left out;
overflow of the admission counter is kept.  `PROJECT.json` says for each component
what is left out of it.
