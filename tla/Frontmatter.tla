---------------------------- MODULE Frontmatter ----------------------------
(***************************************************************************)
(* The metadata at the head of a skill (context/frontmatter.rs): read      *)
(* takes the lines between two "---", and parse turns the events of the    *)
(* YAML parser into a JSON object with a stack of open collections,        *)
(* refusing what JSON cannot say.  Checked against what a document means.  *)
(***************************************************************************)
EXTENDS Naturals, Sequences, SequencesExt

CONSTANTS Roots,      \* nodes of YAML documents
          Texts,      \* sequences of lines
          MaxInput,   \* MAX_INPUT_BYTES
          KeyOrder    \* keys in the order of a BTreeMap

VARIABLES lines,      \* the lines of a file: [text, size]
          documents   \* the documents of its metadata

\* A node: kids are the items of a sequence, or keys and values in turn.
Tree(t, text, plain, marked, kids) ==
    [t |-> t, text |-> text, plain |-> plain, marked |-> marked, kids |-> kids]

Concat(parts) ==
    LET f[i \in 0..Len(parts)] == IF i = 0 THEN <<>> ELSE f[i - 1] \o parts[i] IN f[Len(parts)]

\* The text and the documents are explored apart: YAML is an external parser's.
FrontInit ==
    \/ lines \in Texts /\ documents = <<>>
    \/ /\ lines = <<>>
       /\ \E r \in Roots :
            documents \in {<<r>>} \cup (IF r.kids = <<>> THEN {<<r, r>>} ELSE {})

-----------------------------------------------------------------------------
(***************************************************************************)
(* read.                                                                   *)
(***************************************************************************)

\* line: the next line, if the metadata stays within the limit.
Consumed[k \in Nat] == IF k = 0 THEN 0 ELSE Consumed[k - 1] + lines[k].size

\* The lines that are read, up to and with the second "---".
read ==
    LET f[k \in 1..(Len(lines) + 1)] ==
          IF k > Len(lines) THEN [result |-> "invalid_frontmatter", through |-> 0]
          ELSE IF Consumed[k] > MaxInput THEN [result |-> "input_too_large", through |-> 0]
          ELSE IF k = 1 /\ lines[1].text # "---"
          THEN [result |-> "invalid_frontmatter", through |-> 0]
          ELSE IF k > 1 /\ lines[k].text = "---" THEN [result |-> "yaml", through |-> k]
          ELSE f[k + 1]
    IN  f[1]

-----------------------------------------------------------------------------
(***************************************************************************)
(* parse.  A value is written as the sequence of its tokens.               *)
(***************************************************************************)

Event(ev, node) == [ev |-> ev, text |-> node.text, plain |-> node.plain, marked |-> node.marked]
Mark(ev) == [ev |-> ev, text |-> "", plain |-> FALSE, marked |-> FALSE]

\* The events of a node; an anchor, a tag or an alias marks its first event.
RECURSIVE Events(_)
Events(node) ==
    IF node.t = "scalar" THEN <<Event("scalar", node)>>
    ELSE <<Event(node.t \o "_start", node)>>
           \o Concat([i \in DOMAIN node.kids |-> Events(node.kids[i])])
           \o <<Mark(node.t \o "_end")>>

Stream ==
    <<Mark("stream_start")>>
      \o Concat([i \in DOMAIN documents |->
            <<Mark("document_start")>> \o Events(documents[i]) \o <<Mark("document_end")>>])
      \o <<Mark("stream_end")>>

Invalid == <<"invalid">>

\* scalar: a plain scalar is what the core schema says it is.
scalar(text, plain) ==
    IF ~plain THEN <<"string", text>>
    ELSE IF text = ".nan" THEN Invalid
    ELSE IF text = "1" THEN <<"number", text>>
    ELSE IF text = "~" THEN <<"null">>
    ELSE <<"string", text>>

ArrayOf(values) == <<"[">> \o Concat(values) \o <<"]">>
ObjectOf(fields) ==
    LET Keyed(k) == IF k \in DOMAIN fields THEN <<k, ":">> \o fields[k] ELSE <<>>
    IN  <<"{">> \o Concat([i \in DOMAIN KeyOrder |-> Keyed(KeyOrder[i])]) \o <<"}">>

Frame(kind) == [kind |-> kind, values |-> <<>>, fields |-> <<>>, key |-> ""]
Parser(stack, root, docs, ok) == [stack |-> stack, root |-> root, documents |-> docs, ok |-> ok]
Refuse(p) == [p EXCEPT !.ok = FALSE]

\* Fault: a key that is repeated replaces the earlier one.
KeyReplaces(fields, key) == TRUE

KeyIsNew(fields, key) == key \notin DOMAIN fields

\* A finished value goes to the collection that is open, or is the root.
Place(p, stack, value) ==
    IF value = Invalid THEN Refuse(p)
    ELSE IF stack = <<>>
    THEN IF p.root # <<>> THEN Refuse(p) ELSE [p EXCEPT !.stack = stack, !.root = value]
    ELSE LET top == Last(stack)
             With(frame) == [p EXCEPT !.stack = Append(Front(stack), frame)]
         IN  IF top.kind = "sequence" THEN With([top EXCEPT !.values = Append(@, value)])
             ELSE IF top.key = ""
             THEN IF value[1] # "string" THEN Refuse(p) ELSE With([top EXCEPT !.key = value[2]])
             ELSE IF ~KeyIsNew(top.fields, top.key) THEN Refuse(p)
             ELSE With([top EXCEPT !.fields = [k \in DOMAIN @ \cup {top.key} |->
                                                 IF k = top.key THEN value ELSE @[k]],
                                   !.key = ""])

Closes(p, value) == Place(p, Front(p.stack), value)

ParseEvent(p, e) ==
    LET top == Last(p.stack)
        merge == /\ e.plain /\ e.text = "<<" /\ p.stack # <<>>
                 /\ top.kind = "mapping" /\ top.key = ""
    IN  CASE e.ev \in {"stream_start", "stream_end", "document_end"} -> p
          [] e.ev = "document_start" ->
                IF p.documents = 0 THEN [p EXCEPT !.documents = 1] ELSE Refuse(p)
          [] e.marked -> Refuse(p)
          [] e.ev = "scalar" /\ ~e.marked ->
                IF merge THEN Refuse(p) ELSE Place(p, p.stack, scalar(e.text, e.plain))
          [] e.ev \in {"sequence_start", "mapping_start"} /\ ~e.marked ->
                [p EXCEPT !.stack = Append(@, Frame(IF e.ev = "mapping_start" THEN "mapping"
                                                   ELSE "sequence"))]
          [] e.ev = "sequence_end" -> Closes(p, ArrayOf(top.values))
          [] e.ev = "mapping_end" -> Closes(p, ObjectOf(top.fields))

parse(events) ==
    LET f[i \in 0..Len(events)] ==
          IF i = 0 THEN Parser(<<>>, <<>>, 0, TRUE)
          ELSE LET p == f[i - 1] IN IF p.ok THEN ParseEvent(p, events[i]) ELSE p
        end == f[Len(events)]
    IN  IF end.ok /\ end.documents = 1 /\ end.root # <<>> /\ end.root[1] = "{" THEN end.root
        ELSE Invalid

-----------------------------------------------------------------------------
(***************************************************************************)
(* What a document means.                                                  *)
(***************************************************************************)

IsKey(node) == node.t = "scalar" /\ ~node.marked /\ scalar(node.text, node.plain)[1] = "string"
               /\ ~(node.plain /\ node.text = "<<")

RECURSIVE Plain(_)
Plain(node) ==
    LET n == Len(node.kids)
    IN  /\ ~node.marked
        /\ CASE node.t = "scalar" -> scalar(node.text, node.plain) # Invalid
             [] node.t = "sequence" -> \A i \in 1..n : Plain(node.kids[i])
             [] node.t = "mapping" ->
                  /\ \A i \in 1..n : IF i % 2 = 1 THEN IsKey(node.kids[i]) ELSE Plain(node.kids[i])
                  /\ \A i, j \in 1..n : i % 2 = 1 /\ j % 2 = 1 /\ i < j =>
                                          node.kids[i].text # node.kids[j].text

RECURSIVE Meaning(_)
Meaning(node) ==
    CASE node.t = "scalar" -> scalar(node.text, node.plain)
      [] node.t = "sequence" -> ArrayOf([i \in DOMAIN node.kids |-> Meaning(node.kids[i])])
      [] node.t = "mapping" ->
           LET keys == {node.kids[i].text : i \in {j \in DOMAIN node.kids : j % 2 = 1}}
               Of(k) == CHOOSE i \in DOMAIN node.kids : i % 2 = 1 /\ node.kids[i].text = k
           IN  ObjectOf([k \in keys |-> Meaning(node.kids[Of(k) + 1])])

\* The metadata of a skill is what its text says: the lines between the first two
\* "---", if they are within the limit, and of their one document the object that
\* it denotes, in which no key is lost to a repetition, a merge or an alias (read,
\* line, parse).
FrontmatterExact ==
    /\ read.result = "yaml" <=>
          \E k \in 2..Len(lines) :
             /\ lines[1].text = "---" /\ lines[k].text = "---"
             /\ \A j \in 2..(k - 1) : lines[j].text # "---"
             /\ Consumed[k] <= MaxInput
    /\ parse(Stream) =
          IF Len(documents) = 1 /\ documents[1].t = "mapping" /\ Plain(documents[1])
          THEN Meaning(documents[1]) ELSE Invalid
=============================================================================
