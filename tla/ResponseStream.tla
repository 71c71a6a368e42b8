---------------------------- MODULE ResponseStream ----------------------------
(* The stream of one response: the decoder that turns the provider's messages *)
(* into events and the terminal response (providers/openai_codex/codec.rs),   *)
(* the recovery of an output that the terminal message leaves out             *)
(* (finalized.rs), the comparison of what was streamed with what the response *)
(* says (consistency.rs), and the check that a stored response passes before  *)
(* it is replayed (replay.rs, provider/replay.rs).                            *)
(*                                                                            *)
(* Texts are short sequences of letters.  What makes an item ordinary apart   *)
(* from its parts (role, status, shape of the arguments, caller, namespace)   *)
(* is one flag.  The provider streams a response in any order that the        *)
(* protocol allows, leaves out what is optional, and errs MaxSlips times.     *)
EXTENDS Naturals, FiniteSets, Sequences, SequencesExt

CONSTANTS
    Targets,     \* outputs that the provider may stream
    MaxSlips,    \* messages that are not the ones of the target
    MaxMessages, \* messages about items in one stream
    MaxEvents,   \* events of one response that are tracked; 4096 in the code
    MaxItems,    \* output items; 512 in the code
    None         \* no identity, no item, no response

VARIABLES
    target,      \* the output being streamed
    position,    \* of the provider in the script of each item
    slips,       \* messages so far that depart from the scripts
    log,         \* messages that the decoder accepted
    dec,         \* ResponseDecoder with its FinalizedItems
    life,        \* Lifecycle
    phase,       \* "open", "finished", "failed"
    response     \* the response that was returned, or None

vars == <<target, position, slips, log, dec, life, phase, response>>

\* Families of parts: those of the content, the summaries of a reasoning item and
\* the arguments of a call.
Content == {"output_text", "refusal", "reasoning_text"}
Families == Content \cup {"summary", "arguments"}
Nobody == [type |-> "none", id |-> None, call |-> None, parts |-> <<>>, ordinary |-> FALSE]

\* A message; fields that a kind does not have hold a neutral value.
Message(kind, index, id, family, part, text, item) ==
    [kind |-> kind, index |-> index, id |-> id, family |-> family, part |-> part,
     text |-> text, item |-> item, response |-> None]

-----------------------------------------------------------------------------
(* FinalizedItems: evidence for an output that the terminal message omits.    *)

OfItem == {"added", "done"}
OfPart == {"delta", "field", "part_added", "part_done"}
associated(e) == e.kind \in OfItem \cup OfPart
known(e) == e.kind \in OfItem \/ e.family \in Families

\* Nothing follows the end of an item, and it starts once.
duplicate(old, e) ==
    /\ old.index = e.index
    /\ old.kind = "done" \/ (old.kind = "added" /\ e.kind = "added")

\* What finalized items and replayed items must be; recovered ones have an identity.
ordinary_item(item) ==
    item.ordinary /\ item.type \in {"message", "reasoning", "function_call"}
complete(item) == item.id # None /\ ordinary_item(item)

observe_finalized(f, e) ==
    LET bad == \/ f.invalid
               \/ f.count + 1 > MaxEvents
               \/ associated(e) /\ \/ ~known(e)
                                   \/ e.index >= MaxItems
                                   \/ \E i \in 1..Len(f.events) : duplicate(f.events[i], e)
                                   \/ e.kind = "done" /\ ~complete(e.item)
    IN  [count |-> f.count + 1,
         evidence |-> f.evidence \/ associated(e),
         invalid |-> bad,
         events |-> IF bad THEN <<>>
                    ELSE IF associated(e) THEN Append(f.events, e) ELSE f.events]

Key(e) == <<e.index, IF e.family \in Content THEN "content" ELSE e.family, e.part>>

\* The part of an item that a message is about; parts are numbered within the
\* content, the summary and the arguments.
PartOf(item, e) ==
    LET Same(p) == IF e.family \in Content THEN p.family \in Content ELSE p.family = e.family
        own == SelectSeq(item.parts, Same)
    IN  IF e.part \in 1..Len(own) THEN own[e.part] ELSE None

\* The fragments of a part so far are the beginning of its text.
Grows(events, j, final) ==
    LET own == SelectSeq(SubSeq(events, 1, j),
                         LAMBDA e : e.kind = "delta" /\ Key(e) = Key(events[j]))
    IN  IsPrefix(FlattenSeq([i \in 1..Len(own) |-> own[i].text]), final)

\* One message about a part agrees with the finalized item and with the messages
\* about that part before it.
PartAgrees(events, j, item) ==
    LET e == events[j]
        part == PartOf(item, e)
        Before(kinds) == \E i \in 1..(j - 1) :
                            events[i].kind \in kinds /\ Key(events[i]) = Key(e) IN
    /\ e.id = item.id
    /\ part # None
    /\ part.family = e.family
    /\ CASE e.kind = "delta" -> ~Before({"field", "part_done"}) /\ Grows(events, j, part.text)
         [] e.kind = "part_added" -> /\ ~Before({"part_added", "part_done"})
                                     /\ IsPrefix(e.text, part.text)
         [] OTHER -> ~Before({e.kind}) /\ e.text = part.text

\* The start of an item names the same call, and its text is a beginning.
ItemAgrees(e, item) ==
    /\ e.item.id = item.id /\ e.item.type = item.type
    /\ e.item.call \in {None, item.call}
    /\ Len(e.item.parts) <= Len(item.parts)
    /\ \A p \in 1..Len(e.item.parts) :
          /\ e.item.parts[p].family = item.parts[p].family
          /\ IsPrefix(e.item.parts[p].text, item.parts[p].text)

\* The output made of the finished items, or None.
validate_finalized(events, id) ==
    LET done == {i \in 1..Len(events) : events[i].kind = "done"}
        Items(S) == {events[i].item : i \in S}
        At(index) == events[CHOOSE i \in done : events[i].index = index].item
        calls == {i \in done : events[i].item.type = "function_call"}
        good == /\ \A i \in 1..Len(events) : events[i].response \in {None, id}
                /\ done # {}
                /\ {events[i].index : i \in done} = 0..(Cardinality(done) - 1)
                /\ Cardinality({item.id : item \in Items(done)}) = Cardinality(done)
                /\ Cardinality({item.call : item \in Items(calls)}) = Cardinality(calls)
                /\ \A j \in 1..Len(events) :
                      LET e == events[j] IN
                      /\ e.index < Cardinality(done)
                      /\ \A i \in 1..(j - 1) : ~(i \in done /\ events[i].index = e.index)
                      /\ IF e.kind \in OfItem THEN ItemAgrees(e, At(e.index))
                                              ELSE PartAgrees(events, j, At(e.index))
    IN  IF good THEN [n \in 1..Cardinality(done) |-> At(n - 1)] ELSE None

recover(f, id) == IF f.invalid THEN None
                  ELSE IF ~f.evidence THEN <<>>
                  ELSE validate_finalized(f.events, id)

-----------------------------------------------------------------------------
(* ResponseDecoder.                                                           *)

Text(output) ==
    LET shown(item) == SelectSeq(item.parts, LAMBDA p : p.family \in {"output_text", "refusal"})
        of(item) == IF item.type = "message"
                      THEN FlattenSeq([p \in 1..Len(shown(item)) |-> shown(item)[p].text])
                      ELSE <<>>
    IN  FlattenSeq([i \in 1..Len(output) |-> of(output[i])])

parse_response(e) ==
    [id |-> e.response, outcome |-> e.item.status, native |-> e.item.output,
     output |-> e.item.output, text |-> Text(e.item.output), recovered |-> FALSE]

\* The outcome of one message: how many events it yields, and the response if it ends.
Error(d) == [dec |-> d, ok |-> FALSE, events |-> 0, finished |-> None]
Decoded(d) == [dec |-> d, ok |-> TRUE, events |-> 1, finished |-> None]

\* A terminal message; that it came is known even if its output cannot be trusted.
terminal(d, e) ==
    LET parsed == parse_response(e)
        received == [d EXCEPT !.response_id = e.response, !.terminal_received = TRUE]
        omitted == e.kind = "completed" /\ parsed.outcome = "completed" /\ parsed.native = <<>>
        items == IF omitted THEN recover(d.finalized, e.response) ELSE parsed.output IN
    IF \/ e.kind # "completed" /\ parsed.outcome = "completed"
       \/ d.response_id \notin {None, e.response}
    THEN Error(d)
    ELSE IF items = None THEN Error(received)
    ELSE [dec |-> [received EXCEPT !.finished = TRUE], ok |-> TRUE,
          events |-> IF d.response_id = None THEN 2 ELSE 1,
          finished |-> [parsed EXCEPT !.output = items, !.text = Text(items),
                                      !.recovered = omitted /\ items # <<>>]]

apply(d0, e) ==
    LET d == [d0 EXCEPT !.finalized = observe_finalized(@, e)]
        ours == d.response_id # None /\ e.response \in {None, d.response_id} IN
    IF d0.finished THEN Error(d0)
    ELSE
    CASE e.kind = "created" -> IF d.response_id # None THEN Error(d)
                               ELSE Decoded([d EXCEPT !.response_id = e.response])
      [] e.kind \in {"status", "added", "done", "delta"} -> IF ours THEN Decoded(d) ELSE Error(d)
      [] e.kind \in {"completed", "incomplete"} -> terminal(d, e)
      [] e.kind = "error" -> Error(d)
      [] OTHER -> Decoded(d)

-----------------------------------------------------------------------------
(* Lifecycle: what was shown while the response was streamed.                 *)

Named(l, index, id) == [l EXCEPT !.identities = @ \cup {<<index, id>>}]
Typed(l, index, type) == [l EXCEPT !.kinds = @ \cup {<<index, type>>}]

\* One identity and one kind for each item, one item for each identity.
Coherent(l) ==
    /\ \A x \in l.identities : x[1] < MaxItems /\ x[2] # None
    /\ \A x, y \in l.identities : x[1] = y[1] <=> x[2] = y[2]
    /\ \A x, y \in l.kinds : x[1] = y[1] => x[2] = y[2]
    /\ \A x, y \in l.finalized : x[1] = y[1] => x[2] = y[2]
    /\ \A x, y \in l.parts : x.index = y.index /\ x.part = y.part => x = y
    /\ l.events <= MaxEvents

Shown == {"output_text", "refusal"}

\* A fragment is added to the text of its part.
Streamed(parts, e) ==
    LET Same(p) == p.index = e.index /\ p.part = e.part /\ p.family = e.family
        before == {p \in parts : Same(p)}
        text == IF before = {} THEN <<>> ELSE (CHOOSE p \in before : TRUE).text
    IN  (parts \ before) \cup
        {[index |-> e.index, part |-> e.part, family |-> e.family, text |-> text \o e.text]}

observe_lifecycle(l0, e, events) ==
    LET l == [l0 EXCEPT !.events = @ + events]
        typed == Typed(l, e.index, e.item.type)
        named == Named(typed, e.index, e.item.id) IN
    CASE e.kind \in OfItem ->
           IF e.item.type \notin {"message", "function_call"} THEN typed
           ELSE IF e.kind = "done" THEN [named EXCEPT !.finalized = @ \cup {<<e.index, e.item>>}]
           ELSE named
      [] e.kind = "delta" /\ e.family \in Shown /\ e.text # <<>> ->
           [Named(Typed(l, e.index, "message"), e.index, e.id)
              EXCEPT !.parts = Streamed(@, e)]
      [] OTHER -> l

\* Fault: the identity of an item is not compared.
SameText(l, p, item) ==
    LET part == PartOf(item, p) IN
    part # None /\ part.family = p.family /\ IsPrefix(p.text, part.text)

\* What was streamed of a part is the beginning of the part of the same item.
Continues(l, p, item) ==
    LET part == PartOf(item, p) IN
    /\ item.type = "message" /\ <<p.index, item.id>> \in l.identities
    /\ part # None /\ part.family = p.family /\ IsPrefix(p.text, part.text)

validate_lifecycle(l, r) ==
    r.outcome = "completed" =>
        /\ \A x \in l.finalized : x[1] < Len(r.output) /\ r.output[x[1] + 1] = x[2]
        /\ \A p \in l.parts : p.index < Len(r.output) /\ Continues(l, p, r.output[p.index + 1])

-----------------------------------------------------------------------------
(* Replay of a stored response.                                               *)

\* Native items may lack an identity, but none is given twice; calls are distinct.
Distinct(names) ==
    \A i, j \in DOMAIN names : names[i] # None /\ names[i] = names[j] => i = j
CallsOf(items) == [i \in DOMAIN items |-> items[i].call]

validate_response(r) ==
    /\ r.outcome = "completed"
    /\ r.recovered => /\ r.native = <<>> /\ r.output # <<>>
                      /\ \A i \in 1..Len(r.output) : complete(r.output[i])
    /\ ~r.recovered => r.output = r.native
    /\ \A i \in 1..Len(r.output) : ordinary_item(r.output[i])
    /\ Distinct([i \in DOMAIN r.output |-> r.output[i].id])
    /\ Distinct(CallsOf(r.output))
    /\ r.text = Text(r.output)

\* settle: the calls of a response that is continued are distinct.
settles(r) ==
    LET calls == SelectSeq(r.output, LAMBDA i : i.type = "function_call" /\ i.ordinary)
    IN  r.outcome = "completed" => Distinct(CallsOf(calls))

-----------------------------------------------------------------------------
(* The provider.                                                              *)

\* Everything that may be said of one item, in order.
PartScript(i, p) ==
    LET item == target[i]
        part == item.parts[p]
        number == Cardinality({q \in 1..p : (item.parts[q].family \in Content)
                                              <=> (part.family \in Content)})
        Say(kind, text) == Message(kind, i - 1, item.id, part.family, number, text, Nobody)
    IN  <<Say("part_added", <<>>)>>
        \o [c \in 1..Len(part.text) |-> Say("delta", <<part.text[c]>>)]
        \o <<Say("field", part.text), Say("part_done", part.text)>>

Script(i) ==
    LET item == target[i]
        Say(kind, what) == Message(kind, i - 1, None, "none", 0, <<>>, what)
    IN  <<Say("added", [item EXCEPT !.parts = <<>>, !.ordinary = FALSE])>>
        \o FlattenSeq([p \in 1..Len(item.parts) |-> PartScript(i, p)])
        \o <<Say("done", item)>>

\* The next message about an item: optional ones are left out, the rest of the
\* fragments of a part too, but never one before another.
MaySay(i, script, k) ==
    /\ Len(log) <= MaxMessages
    /\ position[i] < k
    /\ \A j \in (position[i] + 1)..(k - 1) :
          script[j].kind = "delta" => Key(script[j]) # Key(script[k]) \/ script[k].kind # "delta"

Init ==
    /\ target \in Targets
    /\ position = [i \in 1..Len(target) |-> 0]
    /\ slips = 0 /\ log = <<>>
    /\ dec = [response_id |-> None, finished |-> FALSE, terminal_received |-> FALSE,
              finalized |-> [events |-> <<>>, count |-> 0, invalid |-> FALSE,
                             evidence |-> FALSE]]
    /\ life = [events |-> 0, identities |-> {}, kinds |-> {}, parts |-> {}, finalized |-> {}]
    /\ phase = "open" /\ response = None

\* A message and, if it ends the response, the response are in order.
accepts(decoded, seen) ==
    /\ decoded.ok /\ Coherent(seen)
    /\ decoded.finished # None => /\ validate_lifecycle(seen, decoded.finished)
                                  /\ settles(decoded.finished)

\* drive: decode a message, note what it shows, and return the terminal response
\* after the comparison.
Handle(e) ==
    /\ phase = "open"
    /\ UNCHANGED target
    /\ \E decoded \in {apply(dec, e)} : \E seen \in {observe_lifecycle(life, e, decoded.events)} :
       \E fails \in {~accepts(decoded, seen)} :
          /\ dec' = decoded.dec
          /\ phase' = IF fails THEN "failed"
                      ELSE IF decoded.finished = None THEN "open" ELSE "finished"
          /\ life' = IF decoded.ok THEN seen ELSE life
          /\ log' = IF fails THEN log ELSE Append(log, e)
          /\ response' = IF fails THEN None ELSE decoded.finished

Created(id) == [Message("created", 0, None, "none", 0, <<>>, Nobody) EXCEPT !.response = id]

Terminal(kind, id, status, output) ==
    [Message(kind, 0, None, "none", 0, <<>>, [status |-> status, output |-> output])
        EXCEPT !.response = id]

Start ==
    /\ log = <<>> /\ slips = 0
    /\ Handle(Created("r"))
    /\ UNCHANGED <<position, slips>>

\* The provider goes on with an item.
Say(i, script, k) ==
    /\ dec.response_id # None /\ MaySay(i, script, k)
    /\ Handle(script[k])
    /\ position' = [position EXCEPT ![i] = k]
    /\ UNCHANGED slips

\* The response ends, with its output or, when all items were finished, without.
End(omit) ==
    /\ omit => dec.response_id # None /\ \A i \in 1..Len(target) : position[i] = Len(Script(i))
    /\ Handle(Terminal("completed", "r", "completed", IF omit THEN <<>> ELSE target))
    /\ UNCHANGED <<position, slips>>

\* Ways in which a message can differ from the one that was due.
Altered(e) ==
    {[e EXCEPT !.index = 1 - @], [e EXCEPT !.response = "other"], [e EXCEPT !.id = "other"],
     [e EXCEPT !.text = Append(@, "z")], [e EXCEPT !.kind = "error"],
     [e EXCEPT !.item.id = "other"], [e EXCEPT !.item.call = "other"],
     [e EXCEPT !.item.ordinary = FALSE],
     [e EXCEPT !.family = IF @ \in Families THEN "custom" ELSE @]} \ {e}

SlipSay(i, script, k) ==
    /\ slips < MaxSlips /\ MaySay(i, script, k)
    /\ \E e \in Altered(script[k]) : Handle(e)
    /\ position' = [position EXCEPT ![i] = k]
    /\ slips' = slips + 1

\* A message comes twice, late or early.
SlipRepeat(i, script, k) ==
    /\ slips < MaxSlips /\ Len(log) <= MaxMessages /\ ~MaySay(i, script, k)
    /\ Handle(script[k])
    /\ slips' = slips + 1
    /\ UNCHANGED position

AlteredOutput ==
    {Tail(target), target \o target, Reverse(target)}
      \cup {[target EXCEPT ![i].parts[p].text = Append(@, "z")] :
               i \in {j \in 1..Len(target) : target[j].parts # <<>>}, p \in {1}}
      \cup {[target EXCEPT ![i].call = "other"] : i \in 1..Len(target)}
      \cup {[target EXCEPT ![i].id = "other"] : i \in 1..Len(target)}

\* The end comes early, under another identity or status, or with another output.
SlipEnd ==
    /\ slips < MaxSlips
    /\ \/ Handle(Terminal("completed", "r", "completed", <<>>))
       \/ \E output \in AlteredOutput : Handle(Terminal("completed", "r", "completed", output))
       \/ Handle(Terminal("completed", "other", "completed", target))
       \/ \E kind \in {"completed", "incomplete"}, status \in {"completed", "incomplete"} :
             /\ <<kind, status>> # <<"completed", "completed">>
             /\ Handle(Terminal(kind, "r", status, target))
    /\ slips' = slips + 1
    /\ UNCHANGED position

Next ==
    \/ Start
    \/ \E i \in 1..Len(target) : \E script \in {Script(i)} : \E k \in 1..Len(script) :
          Say(i, script, k) \/ SlipSay(i, script, k) \/ SlipRepeat(i, script, k)
    \/ \E omit \in BOOLEAN : End(omit)
    \/ SlipEnd

Spec == Init /\ [][Next]_vars

-----------------------------------------------------------------------------
(* Properties.                                                                *)

\* All fragments of a part, in the order of their arrival.
Fragments(e) ==
    LET own == SelectSeq(log, LAMBDA m : m.kind = "delta" /\ Key(m) = Key(e))
    IN  FlattenSeq([i \in 1..Len(own) |-> own[i].text])

\* Nothing that was shown contradicts the completed response: each finished item is
\* in it unchanged, and each text is continued in the part of the item that it was
\* shown for.  An omitted output is made of finished items only.
SaysWhatWasShown ==
    response # None /\ response.outcome = "completed" =>
        LET output == response.output IN
        /\ \A j \in 1..Len(log) :
              LET e == log[j]
                  within == e.index < Len(output)
                  item == output[e.index + 1]
                  part == PartOf(item, e) IN
              /\ e.kind = "done" /\ e.item.type \in {"message", "function_call"} =>
                    within /\ item = e.item
              /\ e.kind = "delta" /\ (e.family \in Shown \/ response.recovered) =>
                    /\ within /\ item.id = e.id
                    /\ part # None /\ part.family = e.family /\ IsPrefix(Fragments(e), part.text)
              /\ e.kind = "added" /\ response.recovered =>
                    within /\ item.id = e.item.id /\ e.item.call \in {None, item.call}
              /\ e.kind \in {"field", "part_done"} /\ response.recovered =>
                    within /\ part # None /\ e.text = part.text
        /\ response.recovered =>
              \A n \in 1..Len(output) : \E j \in 1..Len(log) :
                  log[j].kind = "done" /\ log[j].index = n - 1 /\ log[j].item = output[n]

\* A provider that keeps to the protocol is not refused, and its response is complete.
FaithfulIsAccepted ==
    slips = 0 /\ life.events <= MaxEvents /\ dec.finalized.count <= MaxEvents =>
        /\ phase # "failed"
        /\ phase = "finished" =>
              /\ response.output = target /\ response.text = Text(target)
              /\ (\A i \in 1..Len(target) : complete(target[i])) => validate_response(response)

\* A completed response says what the consumer was shown while it was streamed, also
\* one whose output the terminal message omitted (FinalizedItems::recover,
\* Lifecycle::validate).  And a provider that keeps to the protocol is never refused, in
\* whatever order it streams its items and whatever optional messages it leaves out: its
\* response passes the check before a replay too (ResponseDecoder::apply, Lifecycle,
\* replay::validate_response).
ResponseIsStreamed == SaysWhatWasShown /\ FaithfulIsAccepted
==============================================================================
