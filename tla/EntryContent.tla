---------------------------- MODULE EntryContent ----------------------------
(***************************************************************************)
(* The content of one entry: the fields the projection saves as the run's  *)
(* events change them, the parts of it the server's answers have room for, *)
(* and the browser's copy, pieced together from live updates and from reads*)
(* of what is still missing.                                               *)
(*                                                                         *)
(* Fields are named by their place in the entry's order.  A byte of text is*)
(* the sequence of the event that wrote it.  What fits into an answer is   *)
(* left open: any suffix of the content with at least one byte, or one empty*)
(* field, can be what is sent.                                             *)
(***************************************************************************)
EXTENDS Integers, Sequences, FiniteSets, FiniteSetsExt

CONSTANTS
    Fields,         \* bound: fields an entry may have, 1..Fields
    MaxRevision,    \* bound: events that save the entry
    MaxText,        \* bound: bytes of one field
    Frames          \* bound: live updates sent and not yet read

VARIABLES
    saved,      \* the entry as saved at each of its revisions
    human,      \* the entry is the run's human text, which never changes
    wire,       \* views on the live stream
    sent,       \* the revision the stream has passed
    asked,      \* the one read in flight, with its answer
    entry,      \* the browser's copy
    changed,    \* the last read was refused: the content has changed
    refused     \* the browser has found an answer contradictory

vars == <<saved, human, wire, sent, asked, entry, changed, refused>>

Slots == 1..Fields
Nothing == [loaded |-> FALSE]
NoCursor == [field |-> 0]
Idle == [kind |-> "none", overtaken |-> FALSE]

Now == Len(saved)
Current == saved[Now]

-----------------------------------------------------------------------------
(* The projection *)

Kinds == {"text", "refusal"}
Field(kind, q, n) == [kind |-> kind, generation |-> q, text |-> [i \in 1..n |-> q]]
insert(fields, s, f) == [t \in DOMAIN fields \cup {s} |-> IF t = s THEN f ELSE fields[t]]
append(f, q) == [f EXCEPT !.text = Append(@, q)]
replace(f, q, text) == [f EXCEPT !.generation = q, !.text = text]

\* A new field before others moves the epoch: an older cursor must not gain a
\* newly inserted preceding field.
InsertedEpoch(old, q, s) == IF \E t \in DOMAIN old.fields : t > s THEN q ELSE old.epoch

delta(old, q, s, kind) ==
    IF s \notin DOMAIN old.fields
    THEN [epoch |-> InsertedEpoch(old, q, s), fields |-> insert(old.fields, s, Field(kind, q, 1))]
    ELSE IF kind # old.fields[s].kind
    THEN [epoch |-> q, fields |-> insert(old.fields, s, Field(kind, q, 1))]
    ELSE [old EXCEPT !.fields[s] = append(@, q)]

\* An authoritative part: its text keeps the generation only when unchanged.
Settled(f, q, part) ==
    IF f.text = part.text THEN f ELSE replace(f, q, part.text)

\* The fields "range" become exactly "parts"; adding or removing a field
\* changes the layout.
snapshot(old, q, range, parts) ==
    LET retained == {s \in range \cap DOMAIN old.fields \cap DOMAIN parts :
                        old.fields[s].kind = parts[s].kind}
        layoutChanged == \/ range \cap DOMAIN old.fields # retained
                         \/ DOMAIN parts # retained
    IN  [epoch |-> IF layoutChanged THEN q ELSE old.epoch,
         fields |-> [s \in (DOMAIN old.fields \ range) \cup DOMAIN parts |->
                        IF s \in retained THEN Settled(old.fields[s], q, parts[s])
                        ELSE IF s \in DOMAIN parts THEN parts[s] ELSE old.fields[s]]]

Save(e) ==
    /\ saved' = Append(saved, e)
    /\ UNCHANGED <<human, wire, sent, asked, entry, changed, refused>>

Room == ~human /\ Now < MaxRevision

\* An event of the stream adds to a field, or starts one.
Delta ==
    /\ Room
    /\ \E s \in Slots, kind \in Kinds :
          LET e == delta(Current, Now + 1, s, kind)
          IN  Len(e.fields[s].text) <= MaxText /\ Save(e)

\* The fields of one output item, or of the whole response.
Ranges == {Slots} \cup {{s} : s \in Slots}

\* An authoritative text is the one saved, or another: empty, or the longest.
PartsOf(s) ==
    {Field("text", Now + 1, n) : n \in {0, MaxText}}
      \cup {Current.fields[t] : t \in {s} \cap DOMAIN Current.fields}

Snapshot ==
    /\ Room
    /\ \E range \in Ranges : \E present \in SUBSET range :
          \E parts \in [present -> UNION {PartsOf(s) : s \in present}] :
             /\ \A s \in present : parts[s] \in PartsOf(s)
             /\ Save(snapshot(Current, Now + 1, range, parts))

\* An event that saves the entry's state and leaves its content.
Settle == Room /\ Save(Current)

-----------------------------------------------------------------------------
(* What the server sends *)

Total(e, s) == Len(e.fields[s].text)

\* The fields a read may show and where each ends.
Below(e, c) ==
    {s \in DOMAIN e.fields :
        c = NoCursor \/ s < c.field \/ (s = c.field /\ c.upper > 0)}

End(e, c, s) == IF c # NoCursor /\ s = c.field THEN c.upper ELSE Total(e, s)

\* compact_entry, fit, minimum: the newest contiguous part that fits, from
\* byte "from" of field f to the boundary.
view(r, c, f, from) ==
    LET e == saved[r]
        whole == from = 0 /\ \A s \in Below(e, c) : s >= f
        fragments == [s \in {t \in Below(e, c) : t >= f} |->
            [kind |-> e.fields[s].kind, generation |-> e.fields[s].generation,
             total |-> Total(e, s), from |-> IF s = f THEN from ELSE 0, to |-> End(e, c, s),
             bytes |-> [i \in (IF s = f THEN from + 1 ELSE 1)..End(e, c, s) |-> e.fields[s].text[i]]]]
    IN  [revision |-> r, epoch |-> e.epoch, fragments |-> fragments,
         earlier |-> IF whole THEN NoCursor
                     ELSE [field |-> f, epoch |-> e.epoch,
                           generation |-> e.fields[f].generation, upper |-> from]]

Views(c) ==
    IF Below(Current, c) = {} THEN {view(Now, c, 0, 0)}
    ELSE UNION {{view(Now, c, f, from) : from \in 0..Max({0, End(Current, c, f) - 1})} :
                    f \in Below(Current, c)}

\* The error a content cursor meets, if any.
CursorError(c) ==
    LET e == Current
    IN  IF c = NoCursor THEN "none"
        ELSE IF c.epoch > e.epoch THEN "invalid"
        ELSE IF c.epoch < e.epoch THEN "stale"
        ELSE IF c.field \notin DOMAIN e.fields THEN "invalid"
        ELSE IF c.generation > e.fields[c.field].generation THEN "invalid"
        ELSE IF c.generation < e.fields[c.field].generation THEN "stale"
        ELSE IF c.upper > Total(e, c.field) \/ Below(e, c) = {} THEN "invalid"
        ELSE "none"

-----------------------------------------------------------------------------
(* The browser's copy: display-store.ts *)

Compare(a, b) == IF a < b THEN -1 ELSE IF a > b THEN 1 ELSE 0

\* mergeRanges: overlapping bytes must agree.
RangesConflict(have, got) == \E i \in DOMAIN have \cap DOMAIN got : have[i] # got[i]

JoinRanges(have, got) ==
    [i \in DOMAIN have \cup DOMAIN got |-> IF i \in DOMAIN have THEN have[i] ELSE got[i]]

\* mergeField, its refusals: f is the loaded field, g the fragment, seen at
\* revision r.
FieldConflict(f, g, r) ==
    LET order == Compare(r, f.revision)
        growth == Compare(g.total, f.total)
    IN  \/ order = 0 /\ g.generation # f.generation
        \/ order < 0 /\ g.generation > f.generation
        \/ order > 0 /\ g.generation < f.generation
        \/ /\ g.generation = f.generation
           /\ \/ g.kind # f.kind
              \/ order = 0 /\ growth # 0
              \/ order * growth < 0
              \/ RangesConflict(f.bytes, g.bytes)

NewField(g, r) ==
    [kind |-> g.kind, generation |-> g.generation, revision |-> r,
     total |-> g.total, bytes |-> g.bytes]

\* Fault: the bytes of the replaced text stay.
mergeFieldKeeping(f, g, r) ==
    IF g.generation < f.generation THEN f
    ELSE [NewField(g, r) EXCEPT !.revision = Max({f.revision, r}),
                                !.bytes = JoinRanges(f.bytes, @)]

mergeField(f, g, r) ==
    IF g.generation < f.generation THEN f
    ELSE IF g.generation > f.generation
    THEN NewField(g, r)
    ELSE [f EXCEPT !.revision = Max({@, r}),
                   !.total = Max({@, g.total}),
                   !.bytes = JoinRanges(@, g.bytes)]

\* Every byte of field s from "from" to "to" is loaded.
Covers(fields, s, from, to) == (from + 1)..to \subseteq DOMAIN fields[s].bytes

\* Of two boundaries, the lower one when all between them is loaded.
earlierContent(a, b, fields) ==
    IF a = NoCursor THEN b
    ELSE IF b = NoCursor THEN a
    ELSE IF {a.field, b.field} \subseteq DOMAIN fields
    THEN LET aFirst == a.field < b.field \/ (a.field = b.field /\ a.upper <= b.upper)
             early == IF aFirst THEN a ELSE b
             late == IF aFirst THEN b ELSE a
             covered == \A s \in DOMAIN fields \cap (early.field..late.field) :
                Covers(fields, s, IF s = early.field THEN early.upper ELSE 0,
                                  IF s = late.field THEN late.upper ELSE fields[s].total)
         IN  IF covered THEN early ELSE late
    ELSE a

\* What of the copy a view may still build on: nothing across epochs.
Base(have, e) == IF have = Nothing \/ e.epoch > have.epoch THEN Nothing ELSE have

FieldsOf(base) == IF base = Nothing THEN <<>> ELSE base.fields

\* The loaded fields with the view's fragments merged in.
MergedFields(base, e) ==
    LET have == FieldsOf(base)
    IN  [s \in DOMAIN have \cup DOMAIN e.fragments |->
            IF s \notin DOMAIN e.fragments THEN have[s]
            ELSE IF s \notin DOMAIN have THEN NewField(e.fragments[s], e.revision)
            ELSE mergeField(have[s], e.fragments[s], e.revision)]

\* Revision and epoch move together.
EpochConflict(have, e) ==
    /\ have # Nothing
    /\ \/ e.revision = have.revision /\ e.epoch # have.epoch
       \/ e.epoch < have.epoch /\ e.revision >= have.revision
       \/ e.epoch > have.epoch /\ e.revision <= have.revision

\* A traversal of the current revision fixes which fields exist above its
\* frontier.
InventoryConflict(base, e) ==
    /\ base # Nothing
    /\ e.revision <= base.revision
    /\ base.traversal # <<>>
    /\ LET c == base.traversal[1]
       IN  IF c = NoCursor
           THEN ~human /\ ~(DOMAIN e.fragments \subseteq DOMAIN base.fields)
           ELSE /\ c.epoch = base.epoch
                /\ c.field \in DOMAIN base.fields
                /\ base.fields[c.field].generation = c.generation
                /\ \E s \in DOMAIN e.fragments :
                      /\ s >= c.field
                      /\ ~(s \in DOMAIN base.fields /\ base.fields[s].revision = base.revision)

FragmentConflict(base, e) ==
    /\ base # Nothing
    /\ \E s \in DOMAIN e.fragments :
          \/ e.revision < base.revision /\ e.fragments[s].generation > base.revision
          \/ s \in DOMAIN base.fields /\ FieldConflict(base.fields[s], e.fragments[s], e.revision)

\* Fault: a boundary outlives the text it lies in.
VoidNever(c, fields) == FALSE

\* A boundary is void once the field it lies in has another generation.
Void(c, fields) ==
    c # NoCursor /\ c.field \in DOMAIN fields /\ fields[c.field].generation # c.generation

Incoming(e, fields) == IF Void(e.earlier, fields) THEN NoCursor ELSE e.earlier

\* Whether the beginning of the content is loaded.
StartLoaded(base, e) ==
    IF base = Nothing \/ e.revision > base.revision THEN e.earlier = NoCursor
    ELSE base.start \/ (e.revision = base.revision /\ e.earlier = NoCursor)

\* Where to read on for what is missing.
Continuation(base, e, fields) ==
    LET joined == IF base = Nothing THEN Incoming(e, fields)
                  ELSE IF Void(base.earlier, fields)
                  THEN IF e.revision >= base.revision THEN Incoming(e, fields) ELSE NoCursor
                  ELSE earlierContent(base.earlier, Incoming(e, fields), fields)
        reached == /\ joined # NoCursor
                   /\ StartLoaded(base, e)
                   /\ joined.field \in DOMAIN fields
                   /\ \A s \in DOMAIN fields : s <= joined.field =>
                         Covers(fields, s, 0, IF s = joined.field THEN joined.upper ELSE fields[s].total)
    IN  IF reached THEN NoCursor ELSE joined

First(e) == Min(DOMAIN e.fragments)
Last(e) == Max(DOMAIN e.fragments)

\* The fragments are one piece of the content, from the view's boundary up.
Contiguous(e) ==
    /\ \A s \in DOMAIN e.fragments :
          /\ s # First(e) => e.fragments[s].from = 0
          /\ s # Last(e) => e.fragments[s].to = e.fragments[s].total
    /\ IF e.earlier = NoCursor
       THEN DOMAIN e.fragments # {} => e.fragments[First(e)].from = 0
       ELSE /\ DOMAIN e.fragments # {}
            /\ e.earlier.field = First(e)
            /\ e.earlier.generation = e.fragments[First(e)].generation
            /\ e.earlier.upper = e.fragments[First(e)].from

\* The chain of reads at the current revision, as far as it goes.
Chain(base, e) ==
    IF base = Nothing \/ e.revision > base.revision THEN <<>> ELSE base.traversal

CertifiedTail(e, c) ==
    /\ c = NoCursor
    /\ Contiguous(e)
    /\ DOMAIN e.fragments # {} => e.fragments[Last(e)].to = e.fragments[Last(e)].total

\* The view continues the chain downwards from its frontier c.
CertifiedLink(base, e, c) ==
    /\ c # NoCursor
    /\ Contiguous(e)
    /\ Chain(base, e) = <<c>>
    /\ c.epoch = e.epoch
    /\ base # Nothing
    /\ c.field \in DOMAIN base.fields
    /\ base.fields[c.field].generation = c.generation
    /\ DOMAIN e.fragments # {}
    /\ LET last == e.fragments[Last(e)]
       IN  IF c.upper = 0
           THEN Last(e) < c.field /\ last.to = last.total
           ELSE Last(e) = c.field /\ last.generation = c.generation /\ last.to = c.upper

Fresh(base, e) == base = Nothing \/ e.revision >= base.revision

Certified(base, e, c) ==
    Fresh(base, e) /\ (CertifiedTail(e, c) \/ CertifiedLink(base, e, c))

\* A certified piece cannot omit a field already seen at its revision.
OmissionConflict(base, e, c) ==
    /\ base # Nothing
    /\ e.revision = base.revision
    /\ Certified(base, e, c)
    /\ \E s \in DOMAIN base.fields \ DOMAIN e.fragments :
          /\ base.fields[s].revision = e.revision
          /\ e.earlier # NoCursor => s >= First(e)
          /\ c # NoCursor => s < c.field \/ (c.upper # 0 /\ s = c.field)

\* A wider tail shortens what remains of the chain; a narrower one does not
\* lengthen it.
Wider(e, upper) ==
    \/ e.earlier = NoCursor
    \/ /\ upper.epoch = e.epoch
       /\ upper.field \in DOMAIN e.fragments
       /\ e.fragments[upper.field].generation = upper.generation
       /\ First(e) < upper.field \/ (First(e) = upper.field /\ e.earlier.upper < upper.upper)

Traversal(base, e, c) ==
    LET chain == Chain(base, e)
        further == \/ c # NoCursor
                   \/ chain = <<>>
                   \/ chain # <<>> /\ chain[1] # NoCursor /\ Wider(e, chain[1])
    IN  IF Certified(base, e, c) /\ further THEN <<e.earlier>> ELSE chain

\* mergeEntry, its refusals.
Conflict(have, e, c) ==
    \/ EpochConflict(have, e)
    \/ /\ have # Nothing => e.epoch >= have.epoch
       /\ \/ InventoryConflict(Base(have, e), e)
          \/ FragmentConflict(Base(have, e), e)
          \/ OmissionConflict(Base(have, e), e, c)

\* The copy after a view arrives, read below cursor c or, with none, from the
\* end of the content.
mergeEntry(have, e, c) ==
    LET base == Base(have, e)
        fields == MergedFields(base, e)
        traversal == Traversal(base, e, c)
        laidOut == IF human THEN StartLoaded(base, e) ELSE traversal = <<NoCursor>>
    IN  IF have # Nothing /\ e.epoch < have.epoch THEN have
        ELSE [loaded |-> TRUE,
              revision |-> IF base = Nothing THEN e.revision ELSE Max({base.revision, e.revision}),
              epoch |-> e.epoch,
              fields |-> fields,
              earlier |-> Continuation(base, e, fields),
              start |-> StartLoaded(base, e),
              traversal |-> traversal,
              complete |-> laidOut /\ \A s \in DOMAIN fields : Covers(fields, s, 0, fields[s].total)]

-----------------------------------------------------------------------------
(* The stream and the reader *)

Reader == <<asked, entry, changed, refused>>

\* The latest page shows the entry; the stream goes on from there.
open ==
    /\ entry = Nothing
    /\ \E e \in Views(NoCursor) : entry' = mergeEntry(Nothing, e, NoCursor)
    /\ sent' = Now
    /\ UNCHANGED <<saved, human, wire, asked, changed, refused>>

\* A live update of the entry.  The human text comes again with every change
\* of its block.
send ==
    /\ entry # Nothing
    /\ sent < Now \/ human
    /\ Len(wire) < Frames
    /\ \E e \in Views(NoCursor) : wire' = Append(wire, e)
    /\ sent' = Now
    /\ UNCHANGED <<saved, human, Reader>>

receive ==
    /\ wire # <<>>
    /\ wire' = Tail(wire)
    /\ \E e \in {Head(wire)} :
          IF Conflict(entry, e, NoCursor)
          THEN refused' = TRUE /\ UNCHANGED entry
          ELSE entry' = mergeEntry(entry, e, NoCursor) /\ UNCHANGED refused
    /\ asked' = [asked EXCEPT !.overtaken = asked # Idle]
    /\ UNCHANGED <<saved, human, sent, changed>>

\* The cursor of the next read, none for a read from the end.
olderRead ==
    IF entry.earlier # NoCursor THEN entry.earlier
    ELSE IF entry.traversal # <<>> THEN entry.traversal[1] ELSE NoCursor

Ask(cursor, refresh) ==
    /\ asked = Idle
    /\ asked' = [kind |-> "sent", cursor |-> cursor, refresh |-> refresh, overtaken |-> FALSE]
    /\ UNCHANGED <<saved, human, wire, sent, entry, changed, refused>>

loadOlder ==
    /\ entry # Nothing
    /\ ~entry.complete
    /\ ~changed
    /\ Ask(olderRead, FALSE)

refreshEntry == entry # Nothing /\ Ask(NoCursor, TRUE)

\* The answer to a read, at the revision the server finds: the views to
\* merge, the human text's own first, or an error.
serve ==
    /\ asked.kind = "sent"
    /\ LET error == CursorError(asked.cursor)
       IN  IF error # "none"
           THEN asked' = [asked EXCEPT !.kind = error]
           ELSE \E e \in Views(asked.cursor) :
                \E views \in IF human THEN {<<h, e>> : h \in Views(NoCursor)} ELSE {<<e>>} :
                   asked' = [kind |-> "answered", cursor |-> asked.cursor, refresh |-> asked.refresh,
                             overtaken |-> asked.overtaken, views |-> views]
    /\ UNCHANGED <<saved, human, wire, sent, entry, changed, refused>>

\* A read that is not a refresh must have brought something.
MakesProgress(before, after) ==
    \/ after.epoch # before.epoch
    \/ DOMAIN after.fields # DOMAIN before.fields
    \/ \E s \in DOMAIN after.fields :
          [after.fields[s] EXCEPT !.revision = 0] # [before.fields[s] EXCEPT !.revision = 0]
    \/ after.earlier # before.earlier
    \/ after.start # before.start
    \/ after.complete # before.complete
    \/ after.traversal # <<>> /\ after.traversal # before.traversal

\* A conflict, or an answer without progress, leaves the copy as it is.
older ==
    /\ asked.kind \in {"answered", "stale", "invalid"}
    /\ asked' = Idle
    /\ IF asked.kind # "answered"
       THEN /\ changed' = (asked.kind = "stale")
            /\ refused' = (refused \/ asked.kind = "invalid")
            /\ UNCHANGED entry
       ELSE \E e \in {asked.views[Len(asked.views)]} :
            \E block \in {IF human THEN mergeEntry(entry, asked.views[1], NoCursor) ELSE entry} :
            \E next \in {mergeEntry(block, e, asked.cursor)} :
            \E conflict \in {(human /\ Conflict(entry, asked.views[1], NoCursor))
                             \/ Conflict(block, e, asked.cursor)} :
            \E idle \in {~asked.refresh /\ e.revision >= entry.revision /\ ~MakesProgress(entry, next)} :
                /\ changed' = FALSE
                /\ IF conflict \/ idle
                   THEN /\ refused' = (refused \/ conflict \/ (~asked.overtaken /\ e.revision = entry.revision))
                        /\ UNCHANGED entry
                   ELSE entry' = next /\ UNCHANGED refused
    /\ UNCHANGED <<saved, human, wire, sent>>

\* A read is lost or answered with another error.
readFails ==
    /\ asked # Idle
    /\ asked' = Idle
    /\ changed' = FALSE
    /\ UNCHANGED <<saved, human, wire, sent, entry, refused>>

Init ==
    /\ human \in BOOLEAN
    /\ \E present \in IF human THEN {{1}} ELSE SUBSET Slots :
          saved = <<[epoch |-> 1, fields |-> [s \in present |-> Field("text", 1, MaxText)]]>>
    /\ wire = <<>>
    /\ sent = 0
    /\ asked = Idle
    /\ entry = Nothing
    /\ changed = FALSE
    /\ refused = FALSE

Next ==
    \/ Delta
    \/ Snapshot
    \/ Settle
    \/ open
    \/ send
    \/ receive
    \/ loadOlder
    \/ refreshEntry
    \/ serve
    \/ older
    \/ readFails

Spec == Init /\ [][Next]_vars

-----------------------------------------------------------------------------
(* Properties *)

\* What is loaded of field s is what was saved at the revision it is known at.
FieldIsTrue(f, s) ==
    /\ s \in DOMAIN saved[f.revision].fields
    /\ LET g == saved[f.revision].fields[s]
       IN  /\ f.kind = g.kind /\ f.generation = g.generation /\ f.total = Len(g.text)
           /\ \A i \in DOMAIN f.bytes : i \in DOMAIN g.text /\ f.bytes[i] = g.text[i]

\* mergeEntry, mergeField, mergeRanges: whatever appends, insertions and
\* replacements the pieces of an entry straddle, and in whichever order they
\* arrive, no loaded field mixes two texts; and an entry shown as complete is
\* the whole of what was saved at its revision, no field more or less.
ContentIsExact ==
    entry # Nothing =>
        /\ \A s \in DOMAIN entry.fields : FieldIsTrue(entry.fields[s], s)
        /\ entry.complete =>
              LET e == saved[entry.revision]
              IN  /\ DOMAIN entry.fields = DOMAIN e.fields
                  /\ \A s \in DOMAIN e.fields :
                        /\ entry.fields[s].generation = e.fields[s].generation
                        /\ entry.fields[s].bytes = e.fields[s].text

\* conflict(), api.conversation_cursor_invalid: the browser never finds the
\* server's answers contradictory nor the server the browser's cursor, and a
\* read that nothing overtook makes progress.  A cursor goes stale at the
\* copy's own revision only through a field the copy has not seen since.
ReadsAgree ==
    /\ ~refused
    /\ entry # Nothing /\ entry.revision = Now /\ CursorError(olderRead) = "stale" =>
          /\ olderRead.field \in DOMAIN entry.fields
          /\ entry.fields[olderRead.field].revision < Now

=============================================================================
