-------------------------- MODULE ConversationFeed --------------------------
(***************************************************************************)
(* One session's display: the projection the storage layer keeps beside    *)
(* the events, the pages and change batches the server reads from it, and   *)
(* the browser's window, fed by one latest page, by older pages the reader  *)
(* asks for, and by the live stream.                                        *)
(*                                                                          *)
(* An entity is shown by its revision, the sequence of the event that last  *)
(* changed it: text, status and layout are functions of that revision.      *)
(* Runs are numbered by acceptance.  An entry is named by the sequence of   *)
(* the event that created it.  The human entry of a run is the acceptance   *)
(* event's; it never changes afterwards.                                    *)
(***************************************************************************)
EXTENDS Integers, Sequences, FiniteSets, SequencesExt

CONSTANTS
    MaxHead,            \* bound: events of the session
    MaxEpoch,           \* bound: times the reader selects or reconnects
    MaxWork,            \* bound: events and rebases together
    WireLimit,          \* bound: frames on the connection, not yet read
    PAGE_LIMIT,         \* entries of a page (ACTIVITY_LIMIT, or what fits)
    CHANGES_LIMIT,      \* entities of a batch (ACTIVITY_LIMIT)
    Ascii(_)            \* rank of an entry's identity in ASCII order

ASSUME BoundsAssumption ==
    /\ MaxHead \in Nat \ {0}
    /\ MaxEpoch \in Nat
    /\ MaxWork \in Nat
    /\ WireLimit \in Nat \ {0}
    /\ PAGE_LIMIT \in Nat \ {0}
    /\ CHANGES_LIMIT \in Nat \ {0}
    /\ \A q \in 0..MaxHead : Ascii(q) \in Nat
    /\ \A q, s \in 0..MaxHead : Ascii(q) = Ascii(s) => q = s

VARIABLES
    p,          \* the saved projection of the session
    run,        \* the newest run: "idle", "running" or "finished"
    stream,     \* the server's side of the live stream: [on, after]
    wire,       \* frames sent and not yet read by the browser
    reads,      \* page and entry reads in flight
    epoch,      \* observationEpoch: grows with every select and reconnect
    observation,\* "none", "loading", "observing" or "disconnected"
    store,      \* the browser's window
    failed,     \* the browser has refused an answer as contradictory
    raced       \* entries paged in behind the live cursor

vars == <<p, run, stream, wire, reads, epoch, observation, store, failed, raced>>

Sequences == 1..MaxHead
Kinds == {"latest", "before", "within", "entry"}

NoStore == [loaded |-> FALSE]
NoPage == [run |-> -1]

-----------------------------------------------------------------------------
(* The saved projection and the order of its changes *)

EntryRun(proj, q) == Cardinality({r \in DOMAIN proj.acc : proj.acc[r] <= q})

\* The entries of a run other than its human anchor.
Activity(proj, r) ==
    LET last == IF r < Len(proj.acc) THEN proj.acc[r + 1] - 1 ELSE proj.head
    IN  {q \in (proj.acc[r] + 1)..last : proj.entry[q] # 0}

\* A live key or cursor is <<sequence, rank, identity>>: rank 0 for the
\* session's metadata, 1 for a block, 2 for an entry, 3 for the watermark.
Precedes(a, b) ==
    \/ a[1] < b[1]
    \/ a[1] = b[1] /\ a[2] < b[2]
    \/ a[1] = b[1] /\ a[2] = b[2] /\ Ascii(a[3]) < Ascii(b[3])

TitleKey(proj) == <<Max(proj.named), 0, 0>>
BlockKey(proj, r) == <<proj.rev[r], 1, r>>
EntryKey(proj, q) == <<proj.entry[q], 2, q>>
Watermark(proj) == <<proj.head, 3, 0>>

Keys(proj) ==
    {TitleKey(proj)}
      \cup {BlockKey(proj, r) : r \in DOMAIN proj.rev}
      \cup {EntryKey(proj, q) : q \in {e \in Sequences : proj.entry[e] # 0}}

-----------------------------------------------------------------------------
(* The writer: each committed event is projected in its own transaction *)

Room(n) == p.head + n <= MaxHead /\ p.head + n + epoch <= MaxWork

\* An event of the newest run saves the entries es, and the block when it
\* changes the block's header.
Changed(es, block) ==
    [p EXCEPT !.head = @ + 1,
              !.rev = IF block THEN [@ EXCEPT ![Len(@)] = p.head + 1] ELSE @,
              !.entry = [q \in Sequences |-> IF q \in es THEN p.head + 1 ELSE @[q]]]

Display == <<wire, reads, epoch, observation, store, failed, raced>>

Rename ==
    /\ Room(1)
    /\ p' = [p EXCEPT !.head = @ + 1, !.named = @ \cup {p.head + 1}]
    /\ UNCHANGED <<run, stream, Display>>

\* run.accepted, with its human entry, and the private history selection.
Accept ==
    /\ run = "idle"
    /\ Room(2)
    /\ p' = [p EXCEPT !.head = @ + 2,
                      !.acc = Append(@, p.head + 1),
                      !.rev = Append(@, p.head + 1),
                      !.entry[p.head + 1] = p.head + 1]
    /\ run' = "running"
    /\ UNCHANGED <<stream, Display>>

\* An event that shows nothing: the provider binding.
Private ==
    /\ run = "running"
    /\ Room(1)
    /\ p' = [p EXCEPT !.head = @ + 1]
    /\ UNCHANGED <<run, stream, Display>>

\* A runtime event saves the block and at most one entry, old or new.
Observe ==
    /\ run = "running"
    /\ Room(1)
    /\ \E es \in {{}, {p.head + 1}} \cup {{q} : q \in Activity(p, Len(p.acc))} :
          p' = Changed(es, TRUE)
    /\ UNCHANGED <<run, stream, Display>>

\* A tool's saved result changes the tool's entry and not the block.
ToolResult ==
    /\ run = "running"
    /\ Room(1)
    /\ \E q \in Activity(p, Len(p.acc)) : p' = Changed({q}, FALSE)
    /\ UNCHANGED <<run, stream, Display>>

\* run.finished settles every entry still provisional.
Finish ==
    /\ run = "running"
    /\ Room(1)
    /\ \E es \in SUBSET Activity(p, Len(p.acc)) : p' = Changed(es, TRUE)
    /\ run' = "finished"
    /\ UNCHANGED <<stream, Display>>

\* The run's result settles again what is, or still is, provisional.
Result ==
    /\ run \in {"running", "finished"}
    /\ Room(1)
    /\ \E es \in SUBSET Activity(p, Len(p.acc)) : p' = Changed(es, TRUE)
    /\ run' = "idle"
    /\ UNCHANGED <<stream, Display>>

\* The process ends and another opens the session, recording an unfinished
\* run as interrupted.  Unanswered reads and the stream are lost.
Restart ==
    /\ run # "idle"
    /\ \/ /\ run = "running"
          /\ Room(1)
          /\ \E es \in SUBSET Activity(p, Len(p.acc)) : p' = Changed(es, TRUE)
       \/ /\ run = "finished"
          /\ UNCHANGED p
    /\ run' = "idle"
    /\ stream' = [stream EXCEPT !.on = FALSE]
    /\ UNCHANGED Display

Writer ==
    \/ Rename
    \/ Accept
    \/ Private
    \/ Observe
    \/ ToolResult
    \/ Finish
    \/ Result
    \/ Restart

-----------------------------------------------------------------------------
(* The server's reads: each sees one snapshot of the projection *)

\* Fault: the entity at the cursor is sent again.
AfterInclusive(proj, after) == {k \in Keys(proj) : ~Precedes(k, after)}

After(proj, after) == {k \in Keys(proj) : Precedes(after, k)}

\* The cursor of a batch holding the first n of the waiting keys ks.
NextAfter(proj, ks, n) == IF n < Len(ks) THEN ks[n] ELSE Watermark(proj)

\* keys.sort(): the waiting keys in live order.
Sorted(ks) ==
    [i \in 1..Cardinality(ks) |->
        CHOOSE k \in ks : Cardinality({l \in ks : Precedes(l, k)}) = i - 1]

\* A batch stops at the limit, or earlier, at the first entity that does not
\* fit; the first entity always fits.
Batches(proj, after) ==
    LET ks == Sorted(After(proj, after))
    IN  {[changes |-> SubSeq(ks, 1, n), next |-> NextAfter(proj, ks, n), at |-> proj] :
            n \in {i \in 0..Min({CHANGES_LIMIT, Len(ks)}) : i = 0 => ks = <<>>}}

\* Fault: a cursor is good only while its entity keeps that revision.
ValidateExactly(proj, c) ==
    /\ c[1] <= proj.head
    /\ c[2] = 0 => c[1] \in proj.named
    /\ c[2] = 1 => c[3] \in DOMAIN proj.rev /\ c[1] = proj.rev[c[3]]
    /\ c[2] = 2 => proj.entry[c[3]] = c[1]

\* The cursors the change read accepts.
Validate(proj, c) ==
    /\ c[1] <= proj.head
    /\ c[2] = 0 => c[1] \in proj.named
    /\ c[2] = 1 => /\ c[3] \in DOMAIN proj.rev
                   /\ proj.acc[c[3]] <= c[1]
                   /\ c[1] <= proj.rev[c[3]]
    /\ c[2] = 2 => /\ proj.entry[c[3]] # 0
                   /\ c[1] <= proj.entry[c[3]]

\* The run a page query addresses, 0 when there is none.
SelectRun(proj, query) ==
    CASE query.kind = "latest" -> Len(proj.acc)
      [] query.kind = "before" ->
            Cardinality({r \in DOMAIN proj.acc : proj.acc[r] < query.cursor})
      [] OTHER -> EntryRun(proj, query.cursor)

\* The newest n of a set of entries.
Newest(ids, n) == {q \in ids : Cardinality({e \in ids : e > q}) < n}

\* The cursor of the activity a page left out, 0 when it left none.
EarlierActivity(ids, shown) == IF shown = ids THEN 0 ELSE Min(shown)

Pages(proj, query) ==
    LET r   == SelectRun(proj, query)
        ids == IF r = 0 THEN {}
               ELSE {q \in Activity(proj, r) : query.kind = "within" => q < query.cursor}
    IN  {[run |-> r,
          shown |-> Newest(ids, n),
          earlier |-> EarlierActivity(ids, Newest(ids, n)),
          previous |-> IF r > 1 THEN proj.acc[r] ELSE 0,
          at |-> proj] :
            n \in {i \in 0..Min({PAGE_LIMIT, Cardinality(ids)}) : i = 0 => ids = {}}}

EntryPage(proj, query) ==
    [run |-> EntryRun(proj, query.cursor), shown |-> {query.cursor},
     earlier |-> 0, previous |-> 0, at |-> proj]

Answers(proj, query) ==
    IF query.kind = "entry" THEN {EntryPage(proj, query)} ELSE Pages(proj, query)

ServeRead ==
    /\ \E rd \in reads :
          /\ rd.page = NoPage
          /\ \E page \in Answers(p, rd.query) :
                reads' = (reads \ {rd}) \cup {[rd EXCEPT !.page = page]}
    /\ UNCHANGED <<p, run, stream, wire, epoch, observation, store, failed, raced>>

\* Fault: a batch without entities is not sent.
ProgressShown(b) == b.changes # <<>>

\* A batch is sent when it changes or advances anything.
Progress(b) == b.changes # <<>> \/ b.next # stream.after

\* One turn of the stream's loop: read after the cursor, send, move the
\* cursor.  A cursor that is refused ends the stream with an error.
SendBatch ==
    /\ stream.on
    /\ Len(wire) < WireLimit
    /\ IF Validate(p, stream.after)
       THEN \E b \in Batches(p, stream.after) :
               /\ Progress(b)
               /\ wire' = Append(wire, [epoch |-> epoch, batch |-> b])
               /\ stream' = [stream EXCEPT !.after = b.next]
       ELSE stream' = [stream EXCEPT !.on = FALSE] /\ UNCHANGED wire
    /\ UNCHANGED <<p, run, reads, epoch, observation, store, failed, raced>>

Server == ServeRead \/ SendBatch

-----------------------------------------------------------------------------
(* The browser's window *)

\* mergeBlock, mergeEntry, metadata: an older revision changes nothing.
Newer(have, got) == IF got < have THEN have ELSE got

NoEntries == [q \in Sequences |-> 0]

putBlock(blocks, r, proj, admit) ==
    IF r \in DOMAIN blocks
    THEN [blocks EXCEPT ![r].rev = Newer(@, proj.rev[r])]
    ELSE IF admit
    THEN [i \in DOMAIN blocks \cup {r} |->
            IF i = r THEN [rev |-> proj.rev[r], entries |-> NoEntries,
                           earlier |-> 0, cut |-> 0]
                     ELSE blocks[i]]
    ELSE blocks

\* The head of the block's own page separates its unloaded history from new
\* activity; a block that arrived live has no unloaded history.
Unloaded(block, q) == block.entries[q] = 0 /\ block.cut # 0 /\ q <= block.cut

putEntry(blocks, r, q, proj, admitOlder) ==
    IF \/ r \notin DOMAIN blocks
       \/ q = proj.acc[r]
       \/ ~admitOlder /\ Unloaded(blocks[r], q)
    THEN blocks
    ELSE [blocks EXCEPT ![r].entries[q] = Newer(@, proj.entry[q])]

putEntries(blocks, r, page, admitOlder) ==
    FoldSet(LAMBDA q, bs : putEntry(bs, r, q, page.at, admitOlder), blocks, page.shown)

\* Fault: the session of an answer always replaces the one shown.
metadataIncoming(session, proj) == [head |-> proj.head, title |-> Max(proj.named)]

metadata(session, proj) ==
    IF proj.head < session.head THEN session
    ELSE [head |-> proj.head, title |-> Max(proj.named)]

\* activity: once a block's start has been reached it stays reached.
Earliest(a, b) == IF a = 0 \/ b = 0 THEN 0 ELSE Min({a, b})

replaceLatest(page) ==
    [loaded |-> TRUE,
     epoch |-> epoch,
     session |-> [head |-> page.at.head, title |-> Max(page.at.named)],
     blocks |-> IF page.run = 0 THEN <<>>
                ELSE LET bs == putEntries(putBlock(<<>>, page.run, page.at, TRUE),
                                          page.run, page, TRUE)
                     IN  [bs EXCEPT ![page.run].earlier = page.earlier,
                                    ![page.run].cut = page.at.head],
     previous |-> page.previous,
     live |-> Watermark(page.at),
     observed |-> page.at.head]

mergeConversationPage(s, page, query) ==
    LET known  == page.run \in DOMAIN s.blocks
        blocks == putEntries(putBlock(s.blocks, page.run, page.at, TRUE), page.run, page, TRUE)
        oldest == DOMAIN s.blocks = {} \/ page.run < Min(DOMAIN s.blocks)
    IN  IF page.run = 0
        THEN [s EXCEPT !.previous = IF query.kind = "before" /\ query.cursor = @ THEN 0 ELSE @,
                       !.session = metadata(@, page.at)]
        ELSE IF query.kind = "within" /\ ~known THEN s
        ELSE [s EXCEPT
                !.blocks = [blocks EXCEPT
                    ![page.run].earlier =
                        IF known THEN Earliest(@, page.earlier) ELSE page.earlier,
                    ![page.run].cut = IF known THEN @ ELSE page.at.head],
                !.previous = IF query.kind = "before" /\ oldest THEN page.previous ELSE @,
                !.session = metadata(@, page.at)]

mergeEntryPage(s, page, q) ==
    IF page.run \in DOMAIN s.blocks /\ s.blocks[page.run].entries[q] # 0
    THEN [s EXCEPT !.blocks = putEntry(putBlock(@, page.run, page.at, FALSE),
                                       page.run, q, page.at, TRUE)]
    ELSE s

Admit(blocks, r) == DOMAIN blocks = {} \/ r > Max(DOMAIN blocks)

applyChange(s, key, proj) ==
    LET r == IF key[2] = 1 THEN key[3] ELSE EntryRun(proj, key[3])
        blocks == putBlock(s.blocks, r, proj, Admit(s.blocks, r))
    IN  CASE key[2] = 0 -> [s EXCEPT !.session = metadata(@, proj)]
          [] key[2] = 1 -> [s EXCEPT !.blocks = blocks]
          [] key[2] = 2 -> [s EXCEPT !.blocks = putEntry(blocks, r, key[3], proj, FALSE)]

\* The whole batch is applied, or, when it contradicts the window, nothing.
Contradicts(s, b) ==
    \/ Precedes(b.next, s.live)
    \/ b.changes # <<>> /\ b.next = s.live
    \/ b.at.head < s.observed
    \/ \E i \in DOMAIN b.changes : b.changes[i][2] # 0 /\ ~Precedes(s.live, b.changes[i])

applyConversationChanges(s, b) ==
    [FoldLeft(LAMBDA t, key : applyChange(t, key, b.at), s, b.changes)
        EXCEPT !.observed = b.at.head, !.live = b.next]

-----------------------------------------------------------------------------
(* The browser's client *)

Ask(kind, cursor) ==
    [epoch |-> epoch', query |-> [kind |-> kind, cursor |-> cursor], page |-> NoPage]

\* stopSelection and the read of the latest page.
Rebase ==
    /\ epoch < MaxEpoch
    /\ p.head + epoch < MaxWork
    /\ epoch' = epoch + 1
    /\ observation' = "loading"
    /\ reads' = reads \cup {Ask("latest", 0)}
    /\ stream' = [stream EXCEPT !.on = FALSE]
    /\ UNCHANGED <<p, run, wire, failed>>

selectSession == Rebase /\ store' = NoStore /\ raced' = {}

reconnectLatest == observation # "none" /\ Rebase /\ UNCHANGED <<store, raced>>

\* An answer counts only in the epoch that asked for it.
current(e) == e = epoch

\* The latest page replaces the window and the stream starts at its head.
latest ==
    /\ \E rd \in reads :
          /\ rd.query.kind = "latest"
          /\ rd.page # NoPage
          /\ reads' = reads \ {rd}
          /\ IF current(rd.epoch)
             THEN /\ store' = replaceLatest(rd.page)
                  /\ stream' = [on |-> TRUE, after |-> Watermark(rd.page.at)]
                  /\ observation' = "observing"
                  /\ raced' = {}
             ELSE UNCHANGED <<store, stream, observation, raced>>
    /\ UNCHANGED <<p, run, wire, epoch, failed>>

\* A read is lost or answered with an error.
readFails ==
    /\ \E rd \in reads :
          /\ reads' = reads \ {rd}
          /\ observation' = IF current(rd.epoch) /\ rd.query.kind = "latest"
                            THEN "disconnected" ELSE observation
    /\ UNCHANGED <<p, run, stream, wire, epoch, store, failed, raced>>

\* Only one older read at a time.
OlderIdle == \A rd \in reads : rd.epoch # epoch \/ rd.query.kind = "latest"

\* The one older read the window calls for: the start of its oldest block,
\* then the block before it.
olderRead ==
    IF DOMAIN store.blocks = {} THEN {}
    ELSE LET oldest == store.blocks[Min(DOMAIN store.blocks)]
         IN  IF oldest.earlier # 0 THEN {<<"within", oldest.earlier>>}
             ELSE IF store.previous # 0 THEN {<<"before", store.previous>>}
             ELSE {}

LoadedOf(s, r) == {q \in Sequences : s.blocks[r].entries[q] # 0}

Loaded(r) == LoadedOf(store, r)

AskOlder(asked) ==
    /\ store.loaded
    /\ OlderIdle
    /\ epoch' = epoch
    /\ \E a \in asked : reads' = reads \cup {Ask(a[1], a[2])}
    /\ UNCHANGED <<p, run, stream, wire, observation, store, failed, raced>>

\* Fault: the view asks for older activity while the latest page loads.
AdmitsOlderAlways == TRUE

\* The view asks for nothing older while a latest page is on its way, though
\* the previous window is still shown; the client itself would.
AdmitsOlder == observation # "loading"

loadOlder == store.loaded /\ AdmitsOlder /\ AskOlder(olderRead)

refreshEntry ==
    /\ store.loaded
    /\ AskOlder({<<"entry", q>> : q \in UNION {Loaded(r) : r \in DOMAIN store.blocks}})

\* An older page must move the boundary it was asked for.
MakesProgress(s, t, query) ==
    LET o == Min(DOMAIN s.blocks)
    IN  IF query.kind = "before"
        THEN s.previous # t.previous \/ DOMAIN s.blocks # DOMAIN t.blocks
        ELSE \/ s.blocks[o].earlier # t.blocks[o].earlier
             \/ LoadedOf(s, o) # LoadedOf(t, o)

older ==
    /\ \E rd \in reads :
          /\ rd.query.kind # "latest"
          /\ rd.page # NoPage
          /\ reads' = reads \ {rd}
          /\ IF ~current(rd.epoch) \/ ~store.loaded
             THEN UNCHANGED <<store, failed, raced>>
             ELSE IF rd.query.kind = "entry"
             THEN /\ store' = mergeEntryPage(store, rd.page, rd.query.cursor)
                  /\ UNCHANGED <<failed, raced>>
             ELSE LET next == mergeConversationPage(store, rd.page, rd.query)
                  IN  IF MakesProgress(store, next, rd.query)
                      THEN /\ store' = next
                           /\ raced' = IF rd.page.at.head < store.live[1]
                                       THEN raced \cup rd.page.shown ELSE raced
                           /\ UNCHANGED failed
                      ELSE failed' = TRUE /\ UNCHANGED <<store, raced>>
    /\ UNCHANGED <<p, run, stream, wire, epoch, observation>>

\* The parser hands over one whole frame.
receive ==
    /\ wire # <<>>
    /\ wire' = Tail(wire)
    /\ LET frame == Head(wire)
       IN  IF ~current(frame.epoch) \/ observation # "observing"
           THEN UNCHANGED <<store, failed, observation, stream>>
           ELSE IF Contradicts(store, frame.batch)
           THEN /\ failed' = TRUE
                /\ observation' = "disconnected"
                /\ stream' = [stream EXCEPT !.on = FALSE]
                /\ UNCHANGED store
           ELSE /\ store' = applyConversationChanges(store, frame.batch)
                /\ UNCHANGED <<failed, observation, stream>>
    /\ UNCHANGED <<p, run, reads, epoch, raced>>

\* The stream is over after its last frame, or it ends (the service closes, a
\* read of the projection fails) or its connection is lost with what it still
\* carried.
observeEnds ==
    /\ observation = "observing"
    /\ \/ ~stream.on /\ wire = <<>> /\ UNCHANGED <<wire, stream>>
       \/ wire' = <<>> /\ stream' = [stream EXCEPT !.on = FALSE]
    /\ observation' = "disconnected"
    /\ UNCHANGED <<p, run, reads, epoch, store, failed, raced>>

Browser ==
    \/ selectSession
    \/ reconnectLatest
    \/ latest
    \/ readFails
    \/ loadOlder
    \/ refreshEntry
    \/ older
    \/ receive
    \/ observeEnds

-----------------------------------------------------------------------------
Init ==
    /\ p = [head |-> 1, named |-> {1}, acc |-> <<>>, rev |-> <<>>,
            entry |-> [q \in Sequences |-> 0]]
    /\ run = "idle"
    /\ stream = [on |-> FALSE, after |-> <<0, 0, 0>>]
    /\ wire = <<>>
    /\ reads = {}
    /\ epoch = 0
    /\ observation = "none"
    /\ store = NoStore
    /\ failed = FALSE
    /\ raced = {}

Next == Writer \/ Server \/ Browser

Spec == Init /\ [][Next]_vars

-----------------------------------------------------------------------------
(* Properties *)

Cursor == (0..MaxHead) \X (0..3) \X (0..MaxHead)

\* The types of the projection, of the stream and of the browser's state;
\* every block was accepted before it changed, and no entity is newer than
\* the head of its session.
TypeOK ==
    /\ p.head \in Sequences
    /\ p.named \subseteq 1..p.head /\ 1 \in p.named
    /\ Len(p.acc) = Len(p.rev)
    /\ \A r \in DOMAIN p.acc : p.acc[r] <= p.rev[r] /\ p.rev[r] <= p.head
    /\ \A q \in Sequences : p.entry[q] = 0 \/ (q <= p.entry[q] /\ p.entry[q] <= p.head)
    /\ run \in {"idle", "running", "finished"}
    /\ stream.on \in BOOLEAN /\ stream.after \in Cursor
    /\ Len(wire) <= WireLimit
    /\ \A rd \in reads : rd.epoch \in 1..MaxEpoch /\ rd.query.kind \in Kinds
    /\ epoch \in 0..MaxEpoch
    /\ observation \in {"none", "loading", "observing", "disconnected"}
    /\ store.loaded \in BOOLEAN
    /\ store.loaded => /\ store.live \in Cursor
                       /\ store.observed \in Sequences
                       /\ DOMAIN store.blocks \subseteq DOMAIN p.acc
    /\ failed \in BOOLEAN
    /\ raced \subseteq Sequences

\* What the browser shows of an entity is what is saved, or the entity's
\* change is still ahead of the live cursor.
CurrentOrComing(shown, key) == shown = key[1] \/ Precedes(store.live, key)

\* The window as the stream keeps it, but for the entries in "except".
InStepBut(except) ==
    store.loaded =>
        /\ CurrentOrComing(store.session.title, TitleKey(p))
        /\ \A r \in DOMAIN store.blocks :
              /\ CurrentOrComing(store.blocks[r].rev, BlockKey(p, r))
              /\ \A q \in Loaded(r) \ except :
                    CurrentOrComing(store.blocks[r].entries[q], EntryKey(p, q))

\* When the stream finds nothing more to send and every frame has been read,
\* the window has reached the head of the session, past the events that show
\* nothing too.
QuietMeansCaughtUp ==
    /\ observation = "observing" /\ stream.on /\ wire = <<>>
    /\ ~\E b \in Batches(p, stream.after) : Progress(b)
    => store.live = Watermark(p)

\* applyConversationChanges, mergeConversationPage, stream_response: no update
\* is lost between the latest page, the older pages and the stream.  Title,
\* block headers and entries are either current or will still be sent, with
\* the one exception of entries an older page brought in after the stream had
\* passed it; and what is to be sent is sent.
InStep == InStepBut(raced) /\ QuietMeansCaughtUp

\* CONVERSATION.md, "The stream synchronizes current projected state": the
\* same for every entry of the window.
WindowIsCurrent == InStepBut({})

\* putEntry, putBlock, EarlierActivity: what the window does not hold, the
\* reader can still page back to, or the stream will still send.  No entry or
\* block falls between the page's boundary and the live cursor.
NothingHidden ==
    store.loaded =>
        \A r \in DOMAIN p.acc :
            IF r \in DOMAIN store.blocks
            THEN \A q \in Activity(p, r) \ Loaded(r) :
                    \/ store.blocks[r].earlier > q
                    \/ Precedes(store.live, EntryKey(p, q))
            ELSE \/ store.previous > p.acc[r]
                 \/ Precedes(store.live, BlockKey(p, r))

\* changes.rs: "a previously issued cursor survives a newer revision".  Every
\* cursor the browser or the stream holds is one the server still accepts; and
\* however pages and batches of this server interleave, the browser never finds
\* them contradictory (conflict(), identity_mismatch).
NeverContradicted ==
    /\ ~failed
    /\ stream.on => Validate(p, stream.after)
    /\ store.loaded =>
        /\ Validate(p, store.live)
        /\ store.previous # 0 => \E r \in DOMAIN p.acc : store.previous = p.acc[r] /\ r > 1
        /\ \A r \in DOMAIN store.blocks :
              store.blocks[r].earlier # 0 => store.blocks[r].earlier \in Activity(p, r)

=============================================================================
