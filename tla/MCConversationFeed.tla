------------------------ MODULE MCConversationFeed ------------------------
(***************************************************************************)
(* Instances of ConversationFeed and EntryContent for TLC.  "part" says    *)
(* which of the two a behaviour is about; the other stays as it is.        *)
(***************************************************************************)
EXTENDS ConversationFeed

\* Identities are compared as text: "10-0" comes before "9-0".
MCAscii(q) == MaxHead - q

VARIABLES
    part,
    saved, human, live, sent, asked, entry, changed, refused

Feed == <<p, run, stream, wire, reads, epoch, observation, store, failed, raced>>
Content == <<saved, human, live, sent, asked, entry, changed, refused>>

\* Two fields of up to two bytes, saved by three events.
E == INSTANCE EntryContent
        WITH Fields <- 2, MaxRevision <- 3, MaxText <- 2, Frames <- 1, wire <- live

Nowhere ==
    /\ saved = 0 /\ human = 0 /\ live = 0 /\ sent = 0
    /\ asked = 0 /\ entry = 0 /\ changed = 0 /\ refused = 0

MCInit ==
    /\ Init
    /\ \/ part = "feed" /\ Nowhere
       \/ part = "content" /\ E!Init

MCNext ==
    \/ part = "feed" /\ Next /\ UNCHANGED <<part, Content>>
    \/ part = "content" /\ E!Next /\ UNCHANGED <<part, Feed>>

MCSpec == MCInit /\ [][MCNext]_<<part, Feed, Content>>

\* An entry starts empty or with all its fields, which events then remove and
\* insert one by one.
Reach == part = "content" => human \/ DOMAIN saved[1].fields \in {{}, {1, 2}}

\* display-store.ts, conflict(): however pages, batches and content reads of
\* this server interleave, neither side finds the other's answers or cursors
\* contradictory.
AnswersAgree == NeverContradicted /\ (part = "content" => E!ReadsAgree)

\* mergeEntry: what is shown of an entry's content is what was saved, and all
\* of it where it is shown as complete.
ContentIsExact == part = "content" => E!ContentIsExact

===========================================================================
