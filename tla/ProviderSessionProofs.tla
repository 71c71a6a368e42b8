------------------------ MODULE ProviderSessionProofs ------------------------
(***************************************************************************)
(* Theorems about ProviderSession for any number of calls, any capacity of *)
(* the event queue, and any responses of the provider.                     *)
(***************************************************************************)
EXTENDS ProviderSession, SequenceTheorems, TLAPS

\* Most steps are first-order; the ones with records, sequences or numbers cite SMT.
USE ZenonT(60)

-----------------------------------------------------------------------------
(***************************************************************************)
(* The invariant.                                                          *)
(***************************************************************************)

\* The worker holds a command without a receipt; serves a request; ends.
Taken == {"install", "installed", "invalid", "generate", "refuse", "receipt"}
Requesting == Driving \cup {"free", "fail", "finish", "failed"}
Ending == {"exit", "drain", "drop", "done"}

CallPcs == Left \cup {"unborn", "reserve", "send", "wait"}
Responses == [id : ResponseIds \cup {None}, completed : BOOLEAN, calls : SUBSET CallIds,
              advanced : BOOLEAN]
Asked == [kind : {"none", "generate", "install"}, results : SUBSET CallIds, pc : CallPcs]

Requests == [call : Calls, context : Seq(Entry)]

Types ==
    /\ calls \in [Calls -> Asked]
    /\ commands = <<>> \/ \E k \in Calls : commands = <<k>>
    /\ cur \in 0..MaxCalls
    /\ pc \in {"select"} \cup Taken \cup Requesting \cup Ending
    /\ conversation.history \in Seq(Entry)
    /\ conversation.last_response \in ResponseIds \cup {None}
    /\ answers \in [Calls -> Responses]
    /\ upstream \in {"not_submitted", "unknown", "terminal_received"}
    /\ sent \in Seq(Requests)
    /\ seen \in Seq(Event) /\ queue \in Seq(Event) /\ final_slot \in Seq(Event)
    /\ sequence \in Nat

\* The call that waits in the channel and the one that the worker has taken
\* are different ones and have not been answered.
Unanswered(k) == calls[k].pc \in {"wait", "abandoned"}

CommandInv ==
    /\ \A k \in Calls : calls[k].kind = "none" => calls[k].pc = "unborn"
    /\ \A k \in Calls : commands = <<k>> =>
          /\ Unanswered(k) /\ calls[k].kind # "none"
          /\ pc \in Taken => k # cur
    /\ pc \in Taken => cur \in Calls /\ Unanswered(cur)
    /\ pc = "install" => calls[cur].kind = "install"
    /\ \A k \in Calls : calls[k].kind = "install" /\ calls[k].pc = "abandoned" => cancel

\* Whoever set the flag is still there to clear it.
BusyInv ==
    /\ busy /\ ~closed /\ ~cancel =>
          \/ \E k \in Calls : calls[k].pc = "send"
          \/ commands # <<>>
          \/ pc \in {"install", "generate", "receipt", "free", "fail"} \cup Driving
    /\ pc \in {"drain", "drop", "done"} => closed

\* A request whose upstream is "not_submitted" has not been sent.
SentInv ==
    /\ \A j \in 1..Len(sent) : calls[sent[j].call].pc = "receipt"
    /\ pc \in {"write", "receive", "emit"} => upstream # "not_submitted"
    /\ pc \in Requesting /\ upstream = "not_submitted" =>
          \A j \in 1..Len(sent) : sent[j].call # cur

Events == 1..Len(Published)

\* Numbers are given in order, and no event waits in the final slot while the
\* worker can publish another.
NumberInv ==
    /\ \A i \in Events : Published[i].sequence <= sequence
    /\ final_slot # <<>> => pc \in Ending

\* An event belongs to a call with a receipt; only the end of the session does not.
OwnerInv ==
    \A i \in Events :
        /\ Published[i].call \in Calls => calls[Published[i].call].pc = "receipt"
        /\ Ends(Published[i]) \/ pc \notin Ending => Published[i].call \in Calls

\* The request that is being served has no terminal event.
OpenInv ==
    pc \in Requesting =>
        /\ cur \in Calls /\ calls[cur].pc = "receipt"
        /\ \A i \in Events : Published[i].call = cur => ~Ends(Published[i])

\* The others have one, unless the consumer left.
Over(events, i) ==
    \E m \in i..Len(events) : events[m].call = events[i].call /\ Ends(events[m])
OverInv ==
    stream = "open" /\ pc \notin Ending =>
        \A i \in Events : (pc \in Requesting /\ Published[i].call = cur) \/ Over(Published, i)

\* Content and the end of a response come after its start.
Started == \E i \in Events : Published[i].call = cur /\ Published[i].kind = "started"
StartInv ==
    /\ pc \in {"send", "write"} => decoder = None
    /\ pc = "emit" =>
          pending \in {<<"started">>, <<"content">>, <<"extension">>, <<"finished">>,
                       <<"started", "finished">>}
    /\ stream = "open" =>
          /\ pc = "receive" /\ decoder # None => Started
          /\ pc = "emit" /\ pending \in {<<"content">>, <<"finished">>} => Started
          /\ pc = "emit" /\ pending = <<"extension">> /\ decoder # None => Started
          /\ pc \in {"free", "finish"} => Started

\* No failure of a request that was sent says that it was not.
FailureInv ==
    \A i \in Events, j \in 1..Len(sent) :
        ~(/\ Published[i].call = sent[j].call /\ Published[i].kind = "failed"
          /\ Published[i].upstream = "not_submitted")

IInv ==
    /\ Types /\ CommandInv /\ BusyInv /\ SentInv
    /\ EventOrder /\ NumberInv /\ OwnerInv /\ OpenInv /\ OverInv /\ StartInv /\ FailureInv

-----------------------------------------------------------------------------
(***************************************************************************)
(* The published events.                                                   *)
(***************************************************************************)

\* The events are those that were received, then the queue, then the final slot.
LEMMA PublishedFacts ==
    ASSUME Types
    PROVE  /\ Published \in Seq(Event) /\ Len(Published) \in Nat
           /\ Len(Published) = Len(seen) + Len(queue) + Len(final_slot)
           /\ \A i \in 1..Len(seen) : i \in Events /\ Published[i] = seen[i]
           /\ \A i \in Events : Published[i] \in Event
<1>1. seen \in Seq(Event) /\ queue \in Seq(Event) /\ final_slot \in Seq(Event)
  BY DEF Types
<1>2. seen \o queue \in Seq(Event) /\ Len(seen \o queue) = Len(seen) + Len(queue)
  BY <1>1, SMT
<1>3. \A i \in 1..Len(seen) : (seen \o queue)[i] = seen[i]
  BY <1>1, SMT
<1>4. PICK q \in Seq(Event) : q = seen \o queue
  BY <1>2
<1>5. Published = q \o final_slot
  BY <1>4 DEF Published
<1>6. /\ Published \in Seq(Event) /\ Len(Published) = Len(q) + Len(final_slot)
      /\ \A i \in 1..Len(q) : Published[i] = q[i]
  BY <1>1, <1>5, SMT
<1>7. Len(seen) \in Nat /\ Len(queue) \in Nat /\ Len(final_slot) \in Nat
  BY <1>1, SMT
<1>8. Len(Published) = Len(seen) + Len(queue) + Len(final_slot) /\ Len(Published) \in Nat
  BY <1>2, <1>4, <1>6, <1>7, SMT
<1>9. \A i \in 1..Len(seen) : i \in 1..Len(q) /\ i \in 1..Len(Published)
  BY <1>2, <1>4, <1>7, <1>8, SMT
<1>10. \A i \in 1..Len(Published) : Published[i] \in Event
  BY <1>6, SMT
<1> QED
  BY <1>3, <1>4, <1>6, <1>8, <1>9, <1>10 DEF Events

\* A request that was sent is one of a call.
LEMMA SentFacts ==
    ASSUME Types
    PROVE  \A j \in 1..Len(sent) : sent[j].call \in Calls
<1>1. \A b \in Requests : b.call \in Calls
  BY SMT DEF Requests
<1>2. sent \in Seq(Requests)
  BY DEF Types
<1>3. \A j \in 1..Len(sent) : sent[j] \in Requests
  BY <1>2, SMT
<1> QED
  BY <1>1, <1>3

\* One more event at the end.
LEMMA AppendFacts ==
    ASSUME Types, NEW e, e \in Event, final_slot = <<>>, seen' = seen,
           \/ queue' = Append(queue, e) /\ final_slot' = <<>>
           \/ queue' = queue /\ final_slot' = <<e>>
    PROVE  Published' = Append(Published, e)
<1>1. seen \in Seq(Event) /\ queue \in Seq(Event) /\ <<e>> \in Seq(Event)
  BY SMT DEF Types
<1>2. seen \o queue \in Seq(Event)
  BY <1>1, ConcatProperties
<1>3. Published = seen \o queue
  BY <1>2, ConcatEmptySeq DEF Published
<1>4. Append(seen \o queue, e) = (seen \o queue) \o <<e>>
  BY <1>2, AppendIsConcat
<1>5. CASE queue' = queue /\ final_slot' = <<e>>
  BY <1>3, <1>4, <1>5 DEF Published
<1>6. CASE queue' = Append(queue, e) /\ final_slot' = <<>>
  <2>1. queue' = queue \o <<e>>
    BY <1>1, <1>6, AppendIsConcat
  <2>2. seen \o (queue \o <<e>>) = (seen \o queue) \o <<e>>
    BY <1>1, ConcatAssociative, SMT
  <2>3. (seen \o queue) \o <<e>> \in Seq(Event)
    BY <1>1, <1>2, ConcatProperties
  <2>4. ((seen \o queue) \o <<e>>) \o <<>> = (seen \o queue) \o <<e>>
    BY <2>3, ConcatEmptySeq
  <2> QED
    BY <1>3, <1>4, <1>6, <2>1, <2>2, <2>4 DEF Published
<1> QED
  BY <1>5, <1>6

\* The consumer takes an event of the queue, or the final one at the end.
LEMMA ReceiveFacts ==
    ASSUME Types, queue # <<>>, seen' = Append(seen, Head(queue)), queue' = Tail(queue),
           final_slot' = final_slot
    PROVE  Published' = Published
<1>1. seen \in Seq(Event) /\ queue \in Seq(Event)
  BY DEF Types
<1>2. Head(queue) \in Event /\ Tail(queue) \in Seq(Event) /\ <<Head(queue)>> \in Seq(Event)
  BY <1>1, SMT
<1>3. queue = <<Head(queue)>> \o Tail(queue)
  BY <1>1, SMT
<1>4. Append(seen, Head(queue)) = seen \o <<Head(queue)>>
  BY <1>1, <1>2, AppendIsConcat
<1>5. (seen \o <<Head(queue)>>) \o Tail(queue) = seen \o (<<Head(queue)>> \o Tail(queue))
  BY <1>1, <1>2, ConcatAssociative, SMT
<1> QED
  BY <1>3, <1>4, <1>5 DEF Published

LEMMA EndFacts ==
    ASSUME Types, queue = <<>>, seen' = seen \o final_slot, queue' = <<>>, final_slot' = <<>>
    PROVE  Published' = Published
<1>1. seen \in Seq(Event) /\ final_slot \in Seq(Event)
  BY DEF Types
<1>2. seen \o final_slot \in Seq(Event)
  BY <1>1, ConcatProperties
<1>3. /\ seen \o <<>> = seen /\ (seen \o final_slot) \o <<>> = seen \o final_slot
  BY <1>1, <1>2, ConcatEmptySeq
<1> QED
  BY <1>3 DEF Published

\* Where an event is placed depends on it and on the events before it.
LEMMA PlacedSame ==
    ASSUME NEW P, NEW Q, NEW j, j \in Nat, \A i \in 1..j : P[i] = Q[i], j >= 1, Placed(P, j)
    PROVE  Placed(Q, j)
<1>1. P[j] = Q[j] /\ \A i \in 1..(j - 1) : P[i] = Q[i] /\ i \in 1..j
  BY SMT
<1>2. \A i \in 1..(j - 1) : \A m \in i..(j - 1) : m \in 1..(j - 1)
  BY SMT
<1> QED
  BY <1>1, <1>2, SMT DEF Placed

\* Steps that publish nothing.
LEMMA QuietStep ==
    ASSUME IInv, Published' = Published, sequence' \in Nat, sequence' >= sequence,
           stream' = "open" => stream = "open",
           final_slot' \in {final_slot, <<>>},
           \A k \in Calls : calls[k].pc = "receipt" => calls'[k].pc = "receipt",
           pc \in Ending => pc' \in Ending,
           pc \in Requesting => pc' \in Requesting \/ stream' # "open",
           pc' \in Requesting =>
              /\ cur' = cur /\ cur \in Calls /\ calls'[cur].pc = "receipt"
              /\ pc \in Requesting \/ calls[cur].pc # "receipt",
           Types', CommandInv', BusyInv', SentInv', StartInv', FailureInv'
    PROVE  IInv'
<1>1. Types /\ EventOrder /\ NumberInv /\ OwnerInv /\ OpenInv /\ OverInv /\ Events' = Events
  BY DEF IInv, Events
<1>2. EventOrder'
  BY <1>1 DEF EventOrder
<1>3. NumberInv'
  <2>1. \A i \in Events : Published[i].sequence \in Nat
    BY <1>1, PublishedFacts, SMT DEF Event
  <2>2. sequence \in Nat
    BY <1>1 DEF Types
  <2>3. \A i \in Events : Published[i].sequence <= sequence'
    BY <1>1, <2>1, <2>2, SMT DEF NumberInv
  <2> QED
    BY <1>1, <2>3 DEF NumberInv
<1>4. OwnerInv'
  BY <1>1 DEF OwnerInv
<1>5. OpenInv'
  BY <1>1 DEF OpenInv, OwnerInv
<1>6. OverInv'
  BY <1>1 DEF OverInv
<1> QED
  BY <1>2, <1>3, <1>4, <1>5, <1>6 DEF IInv

\* The consumer drops the stream: what it has received is a prefix.
LEMMA CutStep ==
    ASSUME IInv, seen' = seen, queue' = <<>>, final_slot' = <<>>, stream' # "open",
           UNCHANGED <<pc, cur, calls, sequence, sent>>,
           Types', CommandInv', BusyInv', SentInv', StartInv'
    PROVE  IInv'
<1>1. Types /\ EventOrder /\ NumberInv /\ OwnerInv /\ OpenInv /\ FailureInv
  BY DEF IInv
<1>2. PICK n : n = Len(seen)
  OBVIOUS
<1>3. Published' = seen /\ n \in Nat
  <2>1. seen \in Seq(Event)
    BY <1>1 DEF Types
  <2>2. seen \o <<>> = seen
    BY <2>1, ConcatEmptySeq
  <2> QED
    BY <1>2, <2>1, <2>2, SMT DEF Published
<1>4. /\ Events' = 1..n /\ 1..n \subseteq Events
      /\ \A i \in 1..n : Published'[i] = Published[i]
  BY <1>1, <1>2, <1>3, PublishedFacts DEF Events
<1>5. EventOrder'
  <2> SUFFICES ASSUME NEW j \in 1..n PROVE Placed(Published', j)
    BY <1>2, <1>3 DEF EventOrder
  <2>1. j \in Nat /\ j >= 1 /\ \A i \in 1..j : i \in 1..n
    BY <1>3, SMT
  <2>2. Placed(Published, j)
    BY <1>1, <1>4 DEF EventOrder, Events
  <2> QED
    BY <1>4, <2>1, <2>2, PlacedSame
<1>6. NumberInv'
  BY <1>1, <1>4 DEF NumberInv
<1>7. OwnerInv'
  BY <1>1, <1>4 DEF OwnerInv
<1>8. OpenInv'
  BY <1>1, <1>4 DEF OpenInv
<1>9. OverInv'
  BY DEF OverInv
<1>10. FailureInv'
  BY <1>1, <1>4 DEF FailureInv
<1> QED
  BY <1>5, <1>6, <1>7, <1>8, <1>9, <1>10 DEF IInv

\* One event more, of the request that is being served or of the session's end.
LEMMA AppendStep ==
    ASSUME IInv, NEW e, e \in Event, Published' = Append(Published, e),
           e.sequence = sequence + 1, sequence' = sequence + 1, stream = "open",
           calls' = calls, cur' = cur, sent' = sent,
           \/ pc \in Requesting /\ e.call = cur /\ (Ends(e) <=> pc' \notin Requesting)
           \/ pc = "select" /\ e.call = 0 /\ e.kind = "closed" /\ pc' \in Ending,
           e.kind \in {"content", "finished"} => Started,
           final_slot' # <<>> => pc' \in Ending,
           e.kind = "failed" /\ e.upstream = "not_submitted" =>
              \A j \in 1..Len(sent) : sent[j].call # e.call,
           Types', CommandInv', BusyInv', SentInv', StartInv'
    PROVE  IInv'
<1>1. Types /\ EventOrder /\ NumberInv /\ OwnerInv /\ OpenInv /\ OverInv /\ FailureInv
  BY DEF IInv
<1>2. Requesting \cap Ending = {} /\ "select" \notin Requesting \cup Ending
  BY DEF Requesting, Ending, Driving
<1>3. PICK n : n = Len(Published)
  OBVIOUS
<1>4. n \in Nat /\ Published \in Seq(Event) /\ (\A i \in 1..n : Published[i].sequence \in Nat)
  <2>1. /\ n \in Nat /\ Published \in Seq(Event)
        /\ \A i \in 1..n : Published[i] \in Event
    BY <1>1, <1>3, PublishedFacts DEF Events
  <2> QED
    BY <2>1, SMT DEF Event
<1>5. /\ Len(Published') = n + 1 /\ Published'[n + 1] = e
      /\ \A i \in 1..n : Published'[i] = Published[i]
  BY <1>3, <1>4, SMT
<1>6. /\ Events = 1..n /\ Events' = 1..(n + 1)
      /\ \A i \in 1..(n + 1) : i \in 1..n \/ i = n + 1
      /\ 1..n \subseteq 1..(n + 1) /\ n + 1 \in 1..(n + 1)
  BY <1>3, <1>4, <1>5, SMT DEF Events
<1>7. 0 \notin Calls /\ sequence \in Nat
  BY <1>1, SMT DEF Calls, Types
<1>8. ASSUME NEW i \in 1..n
      PROVE  /\ Published[i].sequence < e.sequence
             /\ Ends(Published[i]) => e.call # Published[i].call
             /\ e.call # Published[i].call => Over(Published, i)
  <2>1. Published[i].sequence < e.sequence
    <3>1. Published[i].sequence <= sequence
      BY <1>1, <1>6 DEF NumberInv
    <3> QED
      BY <1>4, <1>7, <3>1, SMT
  <2>2. Ends(Published[i]) => e.call # Published[i].call
    BY <1>1, <1>6, <1>7 DEF OpenInv, OwnerInv
  <2>3. e.call # Published[i].call => Over(Published, i)
    BY <1>1, <1>2, <1>6 DEF OverInv
  <2> QED
    BY <2>1, <2>2, <2>3
<1>9. EventOrder'
  <2> SUFFICES ASSUME NEW j \in 1..(n + 1) PROVE Placed(Published', j)
    BY <1>5 DEF EventOrder
  <2>1. CASE j \in 1..n
    <3>1. j \in Nat /\ j >= 1 /\ \A i \in 1..j : i \in 1..n
      BY <1>4, <2>1, SMT
    <3>2. Placed(Published, j)
      BY <1>1, <1>3, <2>1 DEF EventOrder
    <3> QED
      BY <1>5, <3>1, <3>2, PlacedSame
  <2>2. CASE j = n + 1
    <3>1. j - 1 = n /\ Published'[j] = e
      BY <1>4, <1>5, <2>2, SMT
    <3>2. e.kind \in {"content", "finished"} =>
             \E m \in 1..n : Published'[m].call = e.call /\ Published'[m].kind = "started"
      BY <1>5, <1>6 DEF Started
    <3>3. ASSUME NEW i \in 1..n
          PROVE  /\ Published'[i].sequence < e.sequence
                 /\ Ends(Published'[i]) => e.call # Published'[i].call
                 /\ e.call # Published'[i].call =>
                      \E m \in i..n : Published'[m].call = Published'[i].call /\ Ends(Published'[m])
      <4>1. \A m \in i..n : m \in 1..n
        BY <1>4, SMT
      <4> QED
        BY <1>3, <1>5, <1>8, <4>1 DEF Over
    <3>4. PICK P : P = Published'
      OBVIOUS
    <3>5. Placed(P, j)
      <4>1. P[j] = e
        BY <3>1, <3>4
      <4>2. P[j].kind \in {"content", "finished"} =>
               \E m \in 1..(j - 1) : P[m].call = P[j].call /\ P[m].kind = "started"
        BY <3>1, <3>2, <3>4, <4>1
      <4>3. ASSUME NEW i \in 1..(j - 1)
            PROVE  /\ P[i].sequence < P[j].sequence
                   /\ Ends(P[i]) => P[j].call # P[i].call
                   /\ P[j].call # P[i].call =>
                        \E m \in i..(j - 1) : P[m].call = P[i].call /\ Ends(P[m])
        BY <3>1, <3>3, <3>4, <4>1
      <4> QED
        BY <4>2, <4>3 DEF Placed
    <3> QED
      BY <3>4, <3>5
  <2> QED
    BY <1>6, <2>1, <2>2
<1>10. NumberInv'
  <2>1. \A i \in 1..n : Published[i].sequence <= sequence + 1
    BY <1>1, <1>4, <1>6, <1>7, SMT DEF NumberInv
  <2>2. e.sequence <= sequence'
    BY <1>7, SMT
  <2> QED
    BY <1>5, <1>6, <2>1, <2>2 DEF NumberInv
<1>11. OwnerInv'
  <2>1. ASSUME NEW i \in 1..n PROVE Published[i].call \in Calls /\ calls[Published[i].call].pc = "receipt"
    BY <1>1, <1>2, <1>6 DEF OwnerInv
  <2>2. /\ e.call \in Calls => calls[e.call].pc = "receipt"
        /\ Ends(e) \/ pc' \notin Ending => e.call \in Calls
    BY <1>1, <1>7 DEF OpenInv, Ends
  <2> QED
    BY <1>5, <1>6, <2>1, <2>2 DEF OwnerInv
<1>12. OpenInv'
  BY <1>1, <1>2, <1>5, <1>6 DEF OpenInv
<1>13. OverInv'
  <2>1. ASSUME NEW i \in 1..n, Over(Published, i) PROVE Over(Published', i)
    <3>1. \A m \in i..n : m \in 1..n /\ m \in i..(n + 1)
      BY <1>4, SMT
    <3> QED
      BY <1>3, <1>5, <2>1, <3>1 DEF Over
  <2>2. ASSUME NEW i \in 1..(n + 1), Ends(e), Published'[i].call = e.call PROVE Over(Published', i)
    <3>1. n + 1 \in i..(n + 1)
      BY <1>4, SMT
    <3> QED
      BY <1>5, <2>2, <3>1 DEF Over
  <2> QED
    BY <1>1, <1>2, <1>5, <1>6, <2>1, <2>2 DEF OverInv
<1>14. FailureInv'
  <2> SUFFICES ASSUME NEW i \in 1..(n + 1), NEW j \in 1..Len(sent)
               PROVE  ~(/\ Published'[i].call = sent[j].call /\ Published'[i].kind = "failed"
                        /\ Published'[i].upstream = "not_submitted")
    BY <1>6 DEF FailureInv
  <2> QED
    BY <1>1, <1>5, <1>6 DEF FailureInv
<1> QED
  BY <1>9, <1>10, <1>11, <1>12, <1>13, <1>14 DEF IInv

-----------------------------------------------------------------------------
(***************************************************************************)
(* The callers of the control handle.                                      *)
(***************************************************************************)

\* Steps that change neither the events nor the requests that were sent.
LEMMA SilentStep ==
    ASSUME IInv, sent' = sent, queue' = queue, final_slot' = final_slot, sequence' = sequence,
           stream' = stream, seen' = seen,
           \A k \in Calls : calls[k].pc = "receipt" => calls'[k].pc = "receipt",
           pc \in Ending => pc' \in Ending,
           pc \in Requesting => pc' \in Requesting,
           pc' \in Requesting =>
              /\ cur' = cur /\ cur \in Calls /\ calls'[cur].pc = "receipt"
              /\ pc \in Requesting \/ calls[cur].pc # "receipt",
           Types', CommandInv', BusyInv', SentInv', StartInv'
    PROVE  IInv'
<1>1. Published' = Published /\ Events' = Events
  BY DEF Published, Events
<1>2. FailureInv'
  BY <1>1 DEF IInv, FailureInv
<1>3. sequence' \in Nat /\ sequence' >= sequence
  <2>1. sequence \in Nat
    BY DEF IInv, Types
  <2> QED
    BY <2>1, SMT
<1> QED
  BY <1>1, <1>2, <1>3, QuietStep

\* Only one call moves.
LEMMA BecomesFacts ==
    ASSUME Types, NEW k \in Calls, NEW w \in CallPcs, calls' = [calls EXCEPT ![k].pc = w]
    PROVE  /\ calls' \in [Calls -> Asked]
           /\ calls'[k].pc = w
           /\ \A j \in Calls : calls'[j].kind = calls[j].kind /\ calls'[j].results = calls[j].results
           /\ \A j \in Calls : j # k => calls'[j] = calls[j]
<1>1. calls \in [Calls -> Asked] /\ calls[k] \in Asked
  BY DEF Types
<1>2. PICK c : c = [calls[k] EXCEPT !.pc = w]
  OBVIOUS
<1>3. c \in Asked /\ c.pc = w /\ c.kind = calls[k].kind /\ c.results = calls[k].results
  BY <1>1, <1>2, SMT DEF Asked
<1>4. calls' = [calls EXCEPT ![k] = c]
  BY <1>2
<1> QED
  BY <1>1, <1>3, <1>4

\* A step of a caller: the worker and the consumer stay where they are.
LEMMA CallerStep ==
    ASSUME IInv, UNCHANGED <<pc, cur, workVars, sinkVars, readVars>>,
           calls' \in [Calls -> Asked], commands' = <<>> \/ \E k \in Calls : commands' = <<k>>,
           \A k \in Calls : calls[k].pc = "receipt" => calls'[k].pc = "receipt",
           CommandInv', BusyInv'
    PROVE  IInv'
<1>1. /\ pc' = pc /\ cur' = cur /\ sent' = sent /\ queue' = queue /\ final_slot' = final_slot
      /\ sequence' = sequence /\ stream' = stream /\ seen' = seen /\ upstream' = upstream
      /\ decoder' = decoder /\ pending' = pending /\ conversation' = conversation
      /\ answers' = answers
  BY DEF workVars, sinkVars, readVars
<1>2. Types /\ SentInv /\ StartInv /\ OpenInv
  BY DEF IInv
<1>3. Types'
  BY <1>1, <1>2 DEF Types
<1>4. SentInv'
  <2>1. \A j \in 1..Len(sent) : sent[j].call \in Calls
    BY <1>2, SentFacts
  <2> QED
    BY <1>1, <1>2, <2>1 DEF SentInv
<1>5. StartInv'
  BY <1>1, <1>2 DEF StartInv, Started, Events, Published
<1>6. pc \in Requesting => cur \in Calls /\ calls'[cur].pc = "receipt"
  BY <1>2 DEF OpenInv
<1> QED
  BY <1>1, <1>3, <1>4, <1>5, <1>6, SilentStep

LEMMA CallStep ==
    ASSUME IInv, NEW k \in Calls, NEW kind \in {"generate", "install"},
           NEW results \in SUBSET CallIds, Call(k, kind, results)
    PROVE  IInv'
<1>1. PICK c : c = [kind |-> kind, results |-> results,
                    pc |-> IF closed \/ cancel THEN "closed" ELSE "reserve"]
  OBVIOUS
<1>2. /\ calls' = [calls EXCEPT ![k] = c] /\ calls[k].kind = "none"
      /\ commands' = commands /\ busy' = busy /\ closed' = closed /\ cancel' = cancel
      /\ UNCHANGED <<pc, cur, workVars, sinkVars, readVars>>
  BY <1>1 DEF Call, Unborn
<1>3. Types /\ CommandInv /\ BusyInv
  BY DEF IInv
<1>4. c \in Asked /\ c.kind = kind /\ c.pc \in {"closed", "reserve"}
  <2>1. (IF closed \/ cancel THEN "closed" ELSE "reserve") \in {"closed", "reserve"}
    OBVIOUS
  <2> QED
    BY <1>1, <2>1, SMT DEF Asked, CallPcs, Left, Returned
<1>5. /\ calls' \in [Calls -> Asked] /\ calls'[k] = c /\ calls[k].pc = "unborn"
      /\ \A j \in Calls : j # k => calls'[j] = calls[j]
  BY <1>2, <1>3, <1>4 DEF Types, CommandInv
<1>6. pc' = pc /\ cur' = cur
  BY <1>2
<1>7. CommandInv'
  <2>1. \A j \in Calls : commands' = <<j>> => j # k
    BY <1>2, <1>3 DEF CommandInv
  <2>2. pc \in Taken => cur # k /\ cur \in Calls
    BY <1>3, <1>5 DEF CommandInv, Unanswered
  <2>3. \A j \in Calls : commands' = <<j>> =>
          /\ calls'[j].pc \in {"wait", "abandoned"} /\ calls'[j].kind # "none"
          /\ pc' \in Taken => j # cur'
    BY <1>2, <1>3, <1>5, <1>6, <2>1 DEF CommandInv, Unanswered
  <2>4. /\ pc' \in Taken => cur' \in Calls /\ calls'[cur'].pc \in {"wait", "abandoned"}
        /\ pc' = "install" => calls'[cur'].kind = "install"
    BY <1>3, <1>5, <1>6, <2>2 DEF CommandInv, Unanswered, Taken
  <2>5. /\ \A j \in Calls : calls'[j].kind = "none" => calls'[j].pc = "unborn"
        /\ \A j \in Calls : calls'[j].kind = "install" /\ calls'[j].pc = "abandoned" => cancel'
    BY <1>2, <1>3, <1>4, <1>5 DEF CommandInv
  <2> QED
    BY <2>3, <2>4, <2>5 DEF CommandInv, Unanswered
<1>8. BusyInv'
  BY <1>2, <1>3, <1>5, <1>6 DEF BusyInv
<1>9. \A j \in Calls : calls[j].pc = "receipt" => calls'[j].pc = "receipt"
  BY <1>5
<1>10. commands' = <<>> \/ \E j \in Calls : commands' = <<j>>
  BY <1>2, <1>3 DEF Types
<1> QED
  BY <1>2, <1>5, <1>7, <1>8, <1>9, <1>10, CallerStep

\* A caller that has been asked for moves on, without a receipt.
LEMMA CallerMoves ==
    ASSUME IInv, NEW k \in Calls, NEW w \in CallPcs \ {"unborn"},
           calls[k].pc \in {"reserve", "send", "wait"},
           Becomes(k, w), UNCHANGED <<pc, cur, workVars, sinkVars, readVars>>,
           commands' = commands \/ (commands' = <<k>> /\ calls[k].pc = "send"),
           commands' = <<k>> => w \in {"wait", "abandoned"},
           calls[k].pc = "wait" => w = "abandoned",
           cancel => cancel', w = "abandoned" /\ calls[k].kind = "install" => cancel',
           BusyInv'
    PROVE  IInv'
<1>1. Types /\ CommandInv /\ BusyInv
  BY DEF IInv
<1>2. /\ calls' \in [Calls -> Asked] /\ calls'[k].pc = w
      /\ \A j \in Calls : calls'[j].kind = calls[j].kind
      /\ \A j \in Calls : j # k => calls'[j] = calls[j]
  BY <1>1, BecomesFacts DEF Becomes
<1>3. pc' = pc /\ cur' = cur
  OBVIOUS
<1>4. CommandInv'
  <2>1. calls[k].kind # "none"
    BY <1>1 DEF CommandInv
  <2>2. pc \in Taken => cur \in Calls /\ (calls'[cur].pc \in {"wait", "abandoned"})
    BY <1>1, <1>2 DEF CommandInv, Unanswered
  <2>3. \A j \in Calls : <<j>> = <<k>> => j = k
    BY SMT
  <2>4. ASSUME NEW j \in Calls, commands' = <<j>>
        PROVE  /\ calls'[j].pc \in {"wait", "abandoned"} /\ calls'[j].kind # "none"
               /\ pc' \in Taken => j # cur'
    <3>1. CASE commands' = commands
      BY <1>1, <1>2, <1>3, <2>4, <3>1 DEF CommandInv, Unanswered
    <3>2. CASE commands' = <<k>> /\ calls[k].pc = "send"
      <4>1. j = k
        BY <2>3, <2>4, <3>2
      <4>2. pc \in Taken => k # cur
        BY <1>1, <3>2 DEF CommandInv, Unanswered
      <4> QED
        BY <1>2, <1>3, <2>1, <3>2, <4>1, <4>2
    <3> QED
      BY <3>1, <3>2
  <2>5. \A j \in Calls : calls'[j].kind = "none" => calls'[j].pc = "unborn"
    BY <1>1, <1>2, <2>1 DEF CommandInv
  <2>6. \A j \in Calls : calls'[j].kind = "install" /\ calls'[j].pc = "abandoned" => cancel'
    BY <1>1, <1>2 DEF CommandInv
  <2>7. pc' = "install" => calls'[cur'].kind = "install"
    BY <1>1, <1>2, <1>3 DEF CommandInv, Taken
  <2> QED
    BY <1>3, <2>2, <2>4, <2>5, <2>6, <2>7 DEF CommandInv, Unanswered
<1>5. \A j \in Calls : calls[j].pc = "receipt" => calls'[j].pc = "receipt"
  BY <1>2
<1>6. commands' = <<>> \/ \E j \in Calls : commands' = <<j>>
  BY <1>1 DEF Types
<1> QED
  BY <1>2, <1>4, <1>5, <1>6, CallerStep

\* Each step of a call, up to its future being dropped.
LEMMA CallerSteps ==
    ASSUME IInv, NEW k \in Calls, Caller(k) \/ Abandon(k)
    PROVE  IInv'
<1>1. Types /\ CommandInv /\ BusyInv
  BY DEF IInv
<1>2. {"busy", "send", "invalid", "wait", "closed", "abandoned"} \subseteq CallPcs \ {"unborn"}
  BY DEF CallPcs, Left, Returned
<1>3. ASSUME NEW w \in CallPcs, Becomes(k, w)
      PROVE  calls'[k].pc = w /\ \A j \in Calls : j # k => calls'[j] = calls[j]
  BY <1>1, <1>3, BecomesFacts DEF Becomes
<1>4. CASE Reserve(k)
  <2>1. PICK w \in {"busy", "send"} : Becomes(k, w) /\ (~busy => w = "send")
    BY <1>4 DEF Reserve
  <2>2. /\ calls[k].pc = "reserve" /\ commands' = commands /\ closed' = closed /\ cancel' = cancel
        /\ pc' = pc
    BY <1>4 DEF Reserve
  <2>3. BusyInv'
    <3>1. calls'[k].pc = w /\ \A j \in Calls : j # k => calls'[j] = calls[j]
      BY <1>2, <1>3, <2>1
    <3> QED
      BY <1>1, <2>1, <2>2, <3>1 DEF BusyInv
  <2>4. commands' # <<k>>
    BY <1>1, <2>2 DEF CommandInv, Unanswered
  <2> QED
    BY <1>2, <1>4, <2>1, <2>2, <2>3, <2>4, CallerMoves, SMT DEF Reserve
<1>5. CASE InstallRefused(k)
  <2>1. /\ calls[k].pc = "send" /\ commands' = commands /\ closed' = closed /\ cancel' = cancel
        /\ pc' = pc /\ busy' = FALSE /\ Becomes(k, "invalid")
    BY <1>5 DEF InstallRefused
  <2>2. BusyInv'
    BY <1>1, <2>1 DEF BusyInv
  <2>3. commands' # <<k>>
    BY <1>1, <2>1 DEF CommandInv, Unanswered
  <2> QED
    BY <1>2, <1>5, <2>1, <2>2, <2>3, CallerMoves, SMT DEF InstallRefused
<1>6. CASE Submit(k)
  <2>1. /\ calls[k].pc = "send" /\ commands' = <<k>> /\ closed' = closed /\ cancel' = cancel
        /\ pc' = pc /\ Becomes(k, "wait")
    BY <1>6 DEF Submit
  <2>2. <<k>> # <<>>
    BY SMT
  <2>3. BusyInv'
    BY <1>1, <2>1, <2>2 DEF BusyInv
  <2> QED
    BY <1>2, <1>6, <2>1, <2>3, CallerMoves, SMT DEF Submit
<1>7. CASE SubmitFails(k)
  <2>1. /\ calls[k].pc = "send" /\ commands' = commands /\ (closed => closed') /\ (cancel => cancel')
        /\ pc' = pc /\ Becomes(k, "closed") /\ (busy' = FALSE \/ closed' = TRUE)
    BY <1>7 DEF SubmitFails
  <2>2. BusyInv'
    BY <1>1, <2>1 DEF BusyInv
  <2>3. commands' # <<k>>
    BY <1>1, <2>1 DEF CommandInv, Unanswered
  <2> QED
    BY <1>2, <1>7, <2>1, <2>2, <2>3, CallerMoves DEF SubmitFails
<1>8. CASE Abandon(k)
  <2>1. /\ calls[k].pc = "wait" /\ commands' = commands /\ closed' = closed /\ busy' = busy
        /\ cancel' = (cancel \/ calls[k].kind = "install") /\ pc' = pc /\ Becomes(k, "abandoned")
    BY <1>8 DEF Abandon
  <2>2. BusyInv'
    <3>1. \A j \in Calls : j # k => calls'[j] = calls[j]
      BY <1>2, <1>3, <2>1
    <3> QED
      BY <1>1, <2>1, <3>1 DEF BusyInv
  <2> QED
    BY <1>2, <1>8, <2>1, <2>2, CallerMoves DEF Abandon
<1> QED
  BY <1>4, <1>5, <1>6, <1>7, <1>8 DEF Caller

\* The session is closed, or its last handle dropped.
LEMMA ControlSteps ==
    ASSUME IInv, Close \/ DropControl
    PROVE  IInv'
<1>1. /\ calls' = calls /\ commands' = commands /\ busy' = busy /\ pc' = pc /\ cur' = cur
      /\ cancel' = TRUE /\ (closed => closed') /\ UNCHANGED <<pc, cur, workVars, sinkVars, readVars>>
  <2>1. CASE Close
    BY <2>1 DEF Close, callVars
  <2>2. CASE DropControl
    BY <2>2 DEF DropControl
  <2> QED
    BY <2>1, <2>2
<1>2. Types /\ CommandInv /\ BusyInv
  BY DEF IInv
<1>3. CommandInv' /\ BusyInv'
  BY <1>1, <1>2 DEF CommandInv, BusyInv, Unanswered
<1>4. /\ calls' \in [Calls -> Asked] /\ (commands' = <<>> \/ \E k \in Calls : commands' = <<k>>)
      /\ \A k \in Calls : calls[k].pc = "receipt" => calls'[k].pc = "receipt"
  BY <1>1, <1>2 DEF Types
<1> QED
  BY <1>1, <1>3, <1>4, CallerStep

-----------------------------------------------------------------------------
(***************************************************************************)
(* The consumer of the event stream.                                       *)
(***************************************************************************)

LEMMA ConsumerSteps ==
    ASSUME IInv, Consumer \/ DropStream
    PROVE  IInv'
<1>1. /\ calls' = calls /\ commands' = commands /\ busy' = busy /\ pc' = pc /\ cur' = cur
      /\ closed' = closed /\ (cancel => cancel') /\ conversation' = conversation
      /\ answers' = answers /\ upstream' = upstream /\ sent' = sent /\ sequence' = sequence
      /\ decoder' = decoder /\ pending' = pending /\ stream = "open"
      /\ stream' = stream \/ stream' # "open"
  <2>1. CASE Receive
    BY <2>1 DEF Receive, callVars, workVars
  <2>2. CASE EndStream
    BY <2>2 DEF EndStream, callVars, workVars
  <2>3. CASE DropStream
    BY <2>3 DEF DropStream, callVars, workVars
  <2> QED
    BY <2>1, <2>2, <2>3 DEF Consumer
<1>2. /\ Types /\ CommandInv /\ BusyInv /\ SentInv /\ StartInv /\ FailureInv /\ OpenInv /\ NumberInv
      /\ seen \in Seq(Event) /\ queue \in Seq(Event) /\ final_slot \in Seq(Event)
      /\ sequence \in Nat
  BY DEF IInv, Types
<1>3. CommandInv' /\ BusyInv' /\ SentInv'
  BY <1>1, <1>2 DEF CommandInv, BusyInv, SentInv, Unanswered
<1>4. <<>> \in Seq(Event)
  BY SMT
<1>5. seen' \in Seq(Event) /\ queue' \in Seq(Event) /\ final_slot' \in Seq(Event)
  <2>1. CASE Receive
    BY <1>2, <2>1, SMT DEF Receive
  <2>2. CASE EndStream
    BY <1>2, <1>4, <2>2, SMT DEF EndStream, FinalEvent
  <2>3. CASE DropStream
    BY <1>2, <1>4, <2>3 DEF DropStream
  <2> QED
    BY <2>1, <2>2, <2>3 DEF Consumer
<1>6. Types'
  BY <1>1, <1>2, <1>5 DEF Types
<1>7. CASE Consumer
  <2>1. Published' = Published
    <3>1. CASE Receive
      BY <1>2, <3>1, ReceiveFacts DEF Receive
    <3>2. CASE EndStream
      BY <1>2, <3>2, EndFacts DEF EndStream, FinalEvent
    <3> QED
      BY <1>7, <3>1, <3>2 DEF Consumer
  <2>2. final_slot' \in {final_slot, <<>>} /\ sequence' \in Nat /\ sequence' >= sequence
    <3>1. final_slot' \in {final_slot, <<>>}
      BY <1>7 DEF Consumer, Receive, EndStream
    <3> QED
      BY <1>1, <1>2, <3>1, SMT
  <2>3. StartInv' /\ FailureInv'
    BY <1>1, <1>2, <2>1 DEF StartInv, FailureInv, Started, Events
  <2>4. pc \in Requesting => cur \in Calls /\ calls[cur].pc = "receipt"
    BY <1>2 DEF OpenInv
  <2> QED
    BY <1>1, <1>3, <1>6, <2>1, <2>2, <2>3, <2>4, QuietStep
<1>8. CASE DropStream
  <2>1. seen' = seen /\ queue' = <<>> /\ final_slot' = <<>> /\ stream' # "open"
    BY <1>8 DEF DropStream
  <2>2. StartInv'
    BY <1>1, <1>2, <2>1 DEF StartInv
  <2> QED
    BY <1>1, <1>3, <1>6, <2>1, <2>2, CutStep
<1> QED
  BY <1>7, <1>8

-----------------------------------------------------------------------------
(***************************************************************************)
(* The worker: its loop, commands and their replies.                       *)
(***************************************************************************)

\* Steps before and after a request.
LEMMA LoopStep ==
    ASSUME IInv, pc \notin Requesting, pc' \in {"select"} \cup Taken \cup Ending,
           pc \in Ending => pc' \in Ending,
           UNCHANGED <<sent, answers, upstream, sinkVars, readVars>>,
           conversation'.history \in Seq(Entry),
           conversation'.last_response \in ResponseIds \cup {None},
           cur' \in 0..MaxCalls, calls' \in [Calls -> Asked],
           commands' = <<>> \/ \E k \in Calls : commands' = <<k>>,
           \A k \in Calls : calls[k].pc = "receipt" => calls'[k].pc = "receipt",
           CommandInv', BusyInv'
    PROVE  IInv'
<1>1. /\ sent' = sent /\ queue' = queue /\ final_slot' = final_slot /\ answers' = answers
      /\ sequence' = sequence /\ stream' = stream /\ seen' = seen /\ upstream' = upstream
  BY DEF sinkVars, readVars
<1>2. Types /\ SentInv
  BY DEF IInv
<1>3. Types'
  BY <1>1, <1>2 DEF Types
<1>4. pc' \notin Requesting
  BY DEF Requesting, Driving, Taken, Ending
<1>5. SentInv' /\ StartInv'
  <2>1. pc' \notin {"send", "write", "receive", "emit", "free", "finish"}
    BY <1>4 DEF Requesting, Driving
  <2>2. \A j \in 1..Len(sent) : sent[j].call \in Calls
    BY <1>2, SentFacts
  <2>3. SentInv'
    BY <1>1, <1>2, <1>4, <2>1, <2>2 DEF SentInv
  <2> QED
    BY <2>1, <2>3 DEF StartInv
<1> QED
  BY <1>1, <1>3, <1>4, <1>5, SilentStep

\* The reply to the call that the worker has taken.
LEMMA ReplyFacts ==
    ASSUME IInv, pc \in Taken, NEW w \in Returned, Reply(w)
    PROVE  /\ calls' \in [Calls -> Asked] /\ cur \in Calls
           /\ \A j \in Calls : calls'[j].kind = calls[j].kind
           /\ \A j \in Calls : j # cur => calls'[j] = calls[j]
           /\ IF Abandoned THEN calls' = calls ELSE calls'[cur].pc = w
           /\ \A j \in Calls : calls[j].pc = "receipt" => calls'[j].pc = "receipt"
           /\ \A j \in Calls : calls[j].pc = "send" => calls'[j].pc = "send"
           /\ \A j \in Calls : calls'[j].kind = "none" => calls'[j].pc = "unborn"
           /\ \A j \in Calls : calls'[j].kind = "install" /\ calls'[j].pc = "abandoned" => cancel
           /\ \A j \in Calls : commands = <<j>> =>
                 calls'[j].pc \in {"wait", "abandoned"} /\ calls'[j].kind # "none"
<1>1. Types /\ CommandInv /\ cur \in Calls /\ calls[cur].pc \in {"wait", "abandoned"}
  BY DEF IInv, CommandInv, Unanswered
<1>2. CASE Abandoned
  <2>1. calls' = calls
    BY <1>2 DEF Reply
  <2> QED
    BY <1>1, <1>2, <2>1 DEF Types, CommandInv, Unanswered
<1>3. CASE ~Abandoned
  <2>1. calls' = [calls EXCEPT ![cur].pc = w]
    BY <1>3 DEF Reply, Becomes
  <2>2. w \in CallPcs /\ w # "abandoned"
    BY DEF CallPcs, Left, Returned
  <2>3. /\ calls' \in [Calls -> Asked] /\ calls'[cur].pc = w
        /\ \A j \in Calls : calls'[j].kind = calls[j].kind
        /\ \A j \in Calls : j # cur => calls'[j] = calls[j]
    BY <1>1, <2>1, <2>2, BecomesFacts
  <2>4. calls[cur].kind # "none"
    BY <1>1 DEF CommandInv
  <2> QED
    BY <1>1, <1>3, <2>2, <2>3, <2>4 DEF CommandInv, Unanswered
<1> QED
  BY <1>2, <1>3

LEMMA ReplySteps ==
    ASSUME IInv, Acknowledge \/ Refuse
    PROVE  IInv'
<1>1. /\ pc \in {"installed", "invalid", "refuse"} /\ pc' \in {"select", "exit"}
      /\ cur' = cur /\ busy' = busy /\ commands' = commands /\ closed' = closed /\ cancel' = cancel
      /\ UNCHANGED <<sent, answers, upstream, sinkVars, readVars>> /\ conversation' = conversation
  <2>1. CASE Acknowledge
    BY <2>1 DEF Acknowledge, workVars
  <2>2. CASE Refuse
    BY <2>2 DEF Refuse, workVars
  <2> QED
    BY <2>1, <2>2
<1>2. PICK w \in Returned : Reply(w)
  <2>1. CASE Acknowledge
    BY <2>1 DEF Acknowledge, Returned
  <2>2. CASE Refuse
    BY <2>2 DEF Refuse, Returned
  <2> QED
    BY <2>1, <2>2
<1>3. pc \in Taken /\ pc \notin Requesting /\ pc \notin Ending
  BY <1>1 DEF Taken, Requesting, Driving, Ending
<1>4. /\ calls' \in [Calls -> Asked] /\ cur \in Calls
      /\ \A j \in Calls : calls[j].pc = "receipt" => calls'[j].pc = "receipt"
      /\ \A j \in Calls : calls[j].pc = "send" => calls'[j].pc = "send"
      /\ \A j \in Calls : calls'[j].kind = "none" => calls'[j].pc = "unborn"
      /\ \A j \in Calls : calls'[j].kind = "install" /\ calls'[j].pc = "abandoned" => cancel
      /\ \A j \in Calls : commands = <<j>> =>
            calls'[j].pc \in {"wait", "abandoned"} /\ calls'[j].kind # "none"
  BY <1>2, <1>3, ReplyFacts
<1>5. Types /\ BusyInv
  BY DEF IInv
<1>6. pc' \notin Taken /\ pc' \in {"select"} \cup Taken \cup Ending /\ pc' # "install"
  BY <1>1 DEF Taken, Ending
<1>7. CommandInv'
  BY <1>1, <1>4, <1>6 DEF CommandInv, Unanswered
<1>8. BusyInv'
  BY <1>1, <1>4, <1>5 DEF BusyInv, Driving
<1>9. /\ conversation'.history \in Seq(Entry) /\ cur' \in 0..MaxCalls
      /\ conversation'.last_response \in ResponseIds \cup {None}
      /\ commands' = <<>> \/ \E k \in Calls : commands' = <<k>>
  BY <1>1, <1>5 DEF Types
<1> QED
  BY <1>1, <1>3, <1>4, <1>6, <1>7, <1>8, <1>9, LoopStep

\* The worker stops, or goes through its end.
LEMMA EndSteps ==
    ASSUME IInv, Stop \/ Exit \/ Drain \/ DropSink
    PROVE  IInv'
<1>1. Types /\ CommandInv /\ BusyInv /\ calls \in [Calls -> Asked]
  BY DEF IInv, Types
<1>2. /\ pc \in {"select", "exit", "drain", "drop"} /\ pc' \in {"exit", "drain", "drop", "done"}
      /\ cur' = cur /\ cancel' = cancel /\ conversation' = conversation
      /\ UNCHANGED <<sent, answers, upstream, sinkVars, readVars>>
      /\ commands' = commands \/ commands' = <<>>
  <2>1. CASE Stop
    BY <2>1 DEF Stop, workVars, callVars
  <2>2. CASE Exit
    BY <2>2 DEF Exit, workVars
  <2>3. CASE Drain
    BY <2>3 DEF Drain, workVars
  <2>4. CASE DropSink
    BY <2>4 DEF DropSink, workVars, callVars
  <2> QED
    BY <2>1, <2>2, <2>3, <2>4
<1>3. BusyInv'
  <2>1. CASE Stop
    <3>1. /\ pc = "select" /\ pc' = "exit" /\ busy' = busy /\ closed' = closed /\ cancel' = cancel
          /\ calls' = calls /\ commands' = commands
      BY <2>1 DEF Stop, callVars
    <3> QED
      BY <1>1, <3>1 DEF BusyInv, Driving
  <2>2. CASE Exit
    BY <2>2 DEF Exit, BusyInv
  <2>3. CASE Drain
    BY <1>1, <2>3 DEF Drain, BusyInv
  <2>4. CASE DropSink
    BY <1>1, <2>4 DEF DropSink, BusyInv
  <2> QED
    BY <2>1, <2>2, <2>3, <2>4
<1>4. /\ calls' \in [Calls -> Asked]
      /\ \A k \in Calls : calls[k].pc = "receipt" => calls'[k].pc = "receipt"
      /\ \A k \in Calls : calls'[k].kind = "none" => calls'[k].pc = "unborn"
      /\ \A k \in Calls : calls'[k].kind = "install" /\ calls'[k].pc = "abandoned" => cancel
      /\ \A k \in Calls : commands' = <<k>> =>
            calls'[k].pc \in {"wait", "abandoned"} /\ calls'[k].kind # "none"
  <2>1. CASE calls' = calls /\ commands' = commands
    BY <1>1, <2>1 DEF CommandInv, Unanswered
  <2>2. CASE Drain
    <3>1. ASSUME NEW k \in Calls
          PROVE  /\ calls'[k] \in Asked /\ calls'[k].kind = calls[k].kind
                 /\ calls[k].pc = "wait" => calls'[k].pc = "closed"
                 /\ calls[k].pc # "wait" => calls'[k].pc = calls[k].pc
      <4>1. calls[k] \in Asked
        BY <1>1
      <4>2. calls'[k] = [calls[k] EXCEPT !.pc = Drained(k)]
        BY <2>2 DEF Drain
      <4>3. PICK w : w = Drained(k)
        OBVIOUS
      <4>4. /\ w \in CallPcs /\ (calls[k].pc = "wait" => w = "closed")
            /\ (calls[k].pc # "wait" => w = calls[k].pc)
        <5>1. calls[k].pc \in CallPcs
          BY <4>1, SMT DEF Asked
        <5> QED
          BY <4>3, <5>1 DEF Drained, CallPcs, Left, Returned
      <4> QED
        BY <4>1, <4>2, <4>3, <4>4, SMT DEF Asked
    <3>2. calls' = [k \in Calls |-> calls'[k]] /\ commands' = <<>>
      BY <2>2 DEF Drain
    <3>3. \A k \in Calls : <<>> # <<k>>
      BY SMT
    <3>4. calls' \in [Calls -> Asked]
      BY <3>1, <3>2
    <3> QED
      BY <1>1, <3>1, <3>2, <3>3, <3>4 DEF CommandInv
  <2> QED
    BY <2>1, <2>2 DEF Stop, Exit, DropSink, callVars
<1>5. /\ pc \notin Requesting /\ pc' \notin Taken /\ pc' \in Ending
      /\ pc' \in {"select"} \cup Taken \cup Ending /\ pc' # "install"
  BY <1>2 DEF Requesting, Driving, Taken, Ending
<1>6. CommandInv'
  BY <1>2, <1>4, <1>5 DEF CommandInv, Unanswered
<1>7. /\ conversation'.history \in Seq(Entry) /\ cur' \in 0..MaxCalls
      /\ conversation'.last_response \in ResponseIds \cup {None}
      /\ commands' = <<>> \/ \E k \in Calls : commands' = <<k>>
  BY <1>1, <1>2 DEF Types
<1> QED
  BY <1>2, <1>3, <1>4, <1>5, <1>6, <1>7, LoopStep

\* A command is taken from the channel.
LEMMA TakeCommandStep ==
    ASSUME IInv, TakeCommand
    PROVE  IInv'
<1>1. Types /\ CommandInv /\ BusyInv
  BY DEF IInv
<1>2. PICK k \in Calls : commands = <<k>>
  BY <1>1 DEF Types, TakeCommand
<1>3. Head(commands) = k /\ Tail(commands) = <<>> /\ (\A j \in Calls : <<>> # <<j>>) /\ k \in 0..MaxCalls
  <2>1. k \in 0..MaxCalls
    BY SessionAssumption, SMT DEF Calls
  <2> QED
    BY <1>2, <2>1, SMT
<1>4. /\ pc = "select" /\ cur' = k /\ commands' = <<>> /\ pc' = calls[k].kind
      /\ calls' = calls /\ cancel' = cancel /\ closed' = closed /\ busy' = busy
      /\ conversation' = conversation
      /\ UNCHANGED <<sent, answers, upstream, sinkVars, readVars>>
  BY <1>3 DEF TakeCommand, workVars
<1>5. /\ calls[k].kind \in {"generate", "install"} /\ calls[k].pc \in {"wait", "abandoned"}
  <2>1. calls[k].kind \in {"none", "generate", "install"}
    BY <1>1, SMT DEF Types, Asked
  <2> QED
    BY <1>1, <1>2, <2>1 DEF CommandInv, Unanswered
<1>6. /\ pc \notin Requesting /\ pc \notin Ending /\ pc' \in Taken
      /\ pc' \in {"select"} \cup Taken \cup Ending /\ pc' \in {"generate", "install"}
  BY <1>4, <1>5 DEF Requesting, Driving, Taken, Ending
<1>7. CommandInv'
  BY <1>1, <1>3, <1>4, <1>5, <1>6 DEF CommandInv, Unanswered
<1>8. BusyInv'
  BY <1>4, <1>6 DEF BusyInv
<1>9. /\ conversation'.history \in Seq(Entry) /\ cur' \in 0..MaxCalls /\ calls' \in [Calls -> Asked]
      /\ conversation'.last_response \in ResponseIds \cup {None}
      /\ \A j \in Calls : calls[j].pc = "receipt" => calls'[j].pc = "receipt"
  BY <1>1, <1>3, <1>4 DEF Types
<1> QED
  BY <1>4, <1>6, <1>7, <1>8, <1>9, LoopStep

\* An installation is given up only with a session that was cancelled.
LEMMA InstallReplayStep ==
    ASSUME IInv, NEW valid \in BOOLEAN, InstallReplay(valid)
    PROVE  IInv'
<1>1. Types /\ CommandInv /\ BusyInv
  BY DEF IInv
<1>2. /\ pc = "install" /\ pc' \in {"exit", "installed", "invalid"}
      /\ cur' = cur /\ calls' = calls /\ commands' = commands /\ cancel' = cancel /\ closed' = closed
      /\ UNCHANGED <<sent, answers, upstream, sinkVars, readVars>>
      /\ conversation' \in {conversation, Restored}
      /\ (pc' = "exit" /\ (cancel \/ Abandoned)) \/ busy' = FALSE
  BY DEF InstallReplay
<1>3. /\ pc \notin Requesting /\ pc \notin Ending /\ pc \in Taken /\ pc' # "install"
      /\ pc' \in {"select"} \cup Taken \cup Ending /\ pc' \notin {"drain", "drop", "done"}
  BY <1>2 DEF Requesting, Driving, Taken, Ending
<1>4. cur \in Calls /\ (Abandoned => cancel)
  BY <1>1, <1>2, <1>3 DEF CommandInv, Abandoned
<1>5. CommandInv' /\ BusyInv'
  BY <1>1, <1>2, <1>3, <1>4 DEF CommandInv, BusyInv, Unanswered
<1>6. Restored.history \in Seq(Entry) /\ Restored.last_response = None
  <2>1. <<"replay", 0>> \in Entry
    BY SessionAssumption, SMT DEF Entry
  <2>2. << <<"replay", 0>> >> \in Seq(Entry)
    BY <2>1, SMT
  <2>3. Restored.history = << <<"replay", 0>> >> /\ Restored.last_response = None
    BY SMT DEF Restored, Fresh
  <2> QED
    BY <2>2, <2>3
<1>7. /\ conversation'.history \in Seq(Entry) /\ cur' \in 0..MaxCalls /\ calls' \in [Calls -> Asked]
      /\ conversation'.last_response \in ResponseIds \cup {None}
      /\ commands' = <<>> \/ \E k \in Calls : commands' = <<k>>
      /\ \A j \in Calls : calls[j].pc = "receipt" => calls'[j].pc = "receipt"
  BY <1>1, <1>2, <1>6 DEF Types
<1> QED
  BY <1>2, <1>3, <1>5, <1>7, LoopStep

LEMMA PrepareStep ==
    ASSUME IInv, Prepare
    PROVE  IInv'
<1>1. Types /\ CommandInv /\ BusyInv
  BY DEF IInv
<1>2. /\ pc = "generate" /\ pc' \in {"receipt", "refuse"}
      /\ cur' = cur /\ calls' = calls /\ commands' = commands /\ cancel' = cancel /\ closed' = closed
      /\ UNCHANGED <<sent, answers, upstream, sinkVars, readVars>> /\ conversation' = conversation
      /\ pc' = "receipt" \/ busy' = FALSE
  BY DEF Prepare, workVars
<1>3. /\ pc \notin Requesting /\ pc \notin Ending /\ pc \in Taken /\ pc' # "install"
      /\ pc' \in {"select"} \cup Taken \cup Ending /\ pc' \notin {"drain", "drop", "done"}
  BY <1>2 DEF Requesting, Driving, Taken, Ending
<1>4. CommandInv' /\ BusyInv'
  BY <1>1, <1>2, <1>3 DEF CommandInv, BusyInv, Unanswered
<1>5. /\ conversation'.history \in Seq(Entry) /\ cur' \in 0..MaxCalls /\ calls' \in [Calls -> Asked]
      /\ conversation'.last_response \in ResponseIds \cup {None}
      /\ commands' = <<>> \/ \E k \in Calls : commands' = <<k>>
      /\ \A j \in Calls : calls[j].pc = "receipt" => calls'[j].pc = "receipt"
  BY <1>1, <1>2 DEF Types
<1> QED
  BY <1>2, <1>3, <1>4, <1>5, LoopStep

\* A call that gets its receipt becomes the request that is served.
LEMMA ReceiptStep ==
    ASSUME IInv, Receipt
    PROVE  IInv'
<1>1. Types /\ CommandInv /\ BusyInv /\ SentInv
  BY DEF IInv
<1>2. /\ pc = "receipt" /\ Reply("receipt") /\ cur' = cur /\ commands' = commands
      /\ cancel' = cancel /\ closed' = closed /\ conversation' = conversation
      /\ sent' = sent /\ answers' = answers /\ upstream' = "not_submitted"
      /\ queue' = queue /\ final_slot' = final_slot /\ sequence' = sequence
      /\ stream' = stream /\ seen' = seen /\ decoder' = None
      /\ IF Abandoned THEN pc' = "select" /\ busy' = FALSE ELSE pc' = "send" /\ busy' = busy
  BY DEF Receipt, Declined, sinkVars, readVars
<1>3. /\ pc \notin Requesting /\ pc \notin Ending /\ pc \in Taken /\ "send" \in Requesting
      /\ pc' \notin Taken /\ pc' # "install" /\ pc' \in {"select"} \cup Requesting
      /\ "select" \notin Requesting /\ pc' \in {"select", "send"} /\ "receipt" \in Returned
  BY <1>2 DEF Requesting, Driving, Taken, Ending, Returned
<1>4. /\ calls' \in [Calls -> Asked] /\ cur \in Calls
      /\ IF Abandoned THEN calls' = calls ELSE calls'[cur].pc = "receipt"
      /\ \A j \in Calls : calls[j].pc = "receipt" => calls'[j].pc = "receipt"
      /\ \A j \in Calls : calls'[j].kind = "none" => calls'[j].pc = "unborn"
      /\ \A j \in Calls : calls'[j].kind = "install" /\ calls'[j].pc = "abandoned" => cancel
      /\ \A j \in Calls : commands = <<j>> =>
            calls'[j].pc \in {"wait", "abandoned"} /\ calls'[j].kind # "none"
  BY <1>2, <1>3, ReplyFacts
<1>5. calls[cur].pc # "receipt"
  BY <1>1, <1>3 DEF CommandInv, Unanswered
<1>6. CommandInv'
  BY <1>2, <1>3, <1>4 DEF CommandInv, Unanswered
<1>7. BusyInv'
  BY <1>2, <1>3 DEF BusyInv, Driving
<1>8. Types'
  BY <1>1, <1>2, <1>3, <1>4 DEF Types
<1>9. SentInv' /\ StartInv'
  <2>1. \A j \in 1..Len(sent) : sent[j].call \in Calls /\ calls[sent[j].call].pc = "receipt"
    BY <1>1, SentFacts DEF SentInv
  <2>2. SentInv'
    BY <1>2, <1>3, <1>4, <1>5, <2>1 DEF SentInv
  <2> QED
    BY <1>2, <1>3, <2>2 DEF StartInv
<1>10. pc' \in Requesting => calls'[cur].pc = "receipt"
  BY <1>2, <1>3, <1>4
<1> QED
  BY <1>2, <1>3, <1>4, <1>5, <1>6, <1>7, <1>8, <1>9, <1>10, SilentStep

-----------------------------------------------------------------------------
(***************************************************************************)
(* The worker: one request on the connection.                              *)
(***************************************************************************)

\* The events that are decoded at once tell what is the first and what follows.
LEMMA PendingFacts ==
    /\ \A a, b \in {"started", "content", "extension", "finished"} : <<a>> = <<b>> => a = b
    /\ \A a \in {"started", "content", "extension", "finished"} :
          /\ <<a>> # <<"started", "finished">> /\ Head(<<a>>) = a /\ Len(<<a>>) = 1
          /\ Tail(<<a>>) = <<>>
    /\ Head(<<"started", "finished">>) = "started" /\ Len(<<"started", "finished">>) = 2
    /\ Tail(<<"started", "finished">>) = <<"finished">>
<1>1. \A a, b \in {"started", "content", "extension", "finished"} : <<a>> = <<b>> => a = b
  BY SMT
<1>2. \A a \in {"started", "content", "extension", "finished"} :
        /\ Head(<<a>>) = a /\ Len(<<a>>) = 1 /\ Tail(<<a>>) = <<>>
  BY SMT
<1>3. /\ Head(<<"started", "finished">>) = "started" /\ Len(<<"started", "finished">>) = 2
      /\ Tail(<<"started", "finished">>) = <<"finished">>
  BY SMT
<1>4. \A a \in {"started", "content", "extension", "finished"} : <<a>> # <<"started", "finished">>
  BY <1>2, <1>3, SMT
<1> QED
  BY <1>1, <1>2, <1>3, <1>4

\* Steps within a request that publish nothing.
LEMMA RequestStep ==
    ASSUME IInv, pc \in Requesting, pc' \in Requesting, cur' = cur, calls' = calls,
           commands' = commands, cancel' = cancel, sent' = sent,
           UNCHANGED <<sinkVars, readVars>>,
           conversation'.history \in Seq(Entry),
           conversation'.last_response \in ResponseIds \cup {None},
           answers' \in [Calls -> Responses],
           upstream' \in {"not_submitted", "unknown", "terminal_received"},
           upstream' \in {upstream, "unknown", "terminal_received"},
           pc' \in {"write", "receive", "emit"} => upstream' # "not_submitted",
           closed => closed', busy' => busy,
           closed' \/ ~busy' \/ pc' \in Driving \cup {"free", "fail"},
           StartInv'
    PROVE  IInv'
<1>1. /\ queue' = queue /\ final_slot' = final_slot /\ sequence' = sequence
      /\ stream' = stream /\ seen' = seen
  BY DEF sinkVars, readVars
<1>2. /\ Types /\ CommandInv /\ BusyInv /\ SentInv /\ cur \in Calls
      /\ calls[cur].pc = "receipt"
  BY DEF IInv, OpenInv
<1>3. /\ pc \notin Ending /\ pc' \notin Taken /\ pc' # "install"
      /\ pc' \notin {"drain", "drop", "done"}
  BY DEF Requesting, Driving, Taken, Ending
<1>4. Types'
  BY <1>1, <1>2 DEF Types
<1>5. CommandInv'
  BY <1>2, <1>3 DEF CommandInv, Unanswered
<1>6. BusyInv'
  BY <1>2, <1>3 DEF BusyInv
<1>7. SentInv'
  BY <1>2 DEF SentInv
<1> QED
  BY <1>1, <1>2, <1>3, <1>4, <1>5, <1>6, <1>7, SilentStep

LEMMA RequestSteps ==
    ASSUME IInv, Preflight \/ Abort \/ Free
    PROVE  IInv'
<1>1. Types /\ SentInv /\ StartInv /\ BusyInv
  BY DEF IInv
<1>2. /\ conversation.history \in Seq(Entry) /\ answers \in [Calls -> Responses]
      /\ conversation.last_response \in ResponseIds \cup {None}
      /\ upstream \in {"not_submitted", "unknown", "terminal_received"}
  BY <1>1 DEF Types
<1>3. CASE Preflight
  <2>1. /\ pc = "send" /\ pc' = "write" /\ upstream' = "unknown" /\ calls' = calls /\ busy' = busy
        /\ commands' = commands /\ cur' = cur /\ cancel' = cancel /\ closed' = closed
        /\ sent' = sent /\ conversation' = conversation /\ answers' = answers
        /\ UNCHANGED <<sinkVars, readVars>> /\ decoder' = decoder
    BY <1>3 DEF Preflight, Submitted, callVars
  <2>2. pc \in Requesting /\ pc' \in Requesting /\ pc' \in Driving
    BY <2>1 DEF Requesting, Driving
  <2>3. StartInv'
    BY <1>1, <2>1 DEF StartInv
  <2> QED
    BY <1>2, <2>1, <2>2, <2>3, RequestStep
<1>4. CASE Abort
  <2>1. /\ pc \in Driving /\ pc' = "fail" /\ closed' = TRUE /\ calls' = calls /\ busy' = busy
        /\ commands' = commands /\ cur' = cur /\ cancel' = cancel /\ upstream' = upstream
        /\ sent' = sent /\ conversation' = conversation /\ answers' = answers
        /\ UNCHANGED <<sinkVars, readVars>>
    BY <1>4 DEF Abort, callVars, workVars
  <2>2. pc \in Requesting /\ pc' \in Requesting
    BY <2>1 DEF Requesting, Driving
  <2>3. StartInv'
    BY <2>1 DEF StartInv
  <2> QED
    BY <1>2, <2>1, <2>2, <2>3, RequestStep
<1>5. CASE Free
  <2>1. /\ pc \in {"free", "fail"} /\ pc' = (IF pc = "free" THEN "finish" ELSE "failed")
        /\ busy' = FALSE /\ closed' = closed /\ calls' = calls
        /\ commands' = commands /\ cur' = cur /\ cancel' = cancel /\ upstream' = upstream
        /\ sent' = sent /\ conversation' = conversation /\ answers' = answers
        /\ UNCHANGED <<sinkVars, readVars>>
    BY <1>5 DEF Free, Freed, workVars
  <2>2. pc \in Requesting /\ pc' \in Requesting /\ pc' \in {"finish", "failed"}
    BY <2>1 DEF Requesting, Driving
  <2>3. StartInv'
    <3>1. Published' = Published /\ stream' = stream
      BY <2>1 DEF sinkVars, readVars, Published
    <3> QED
      BY <1>1, <2>1, <2>2, <3>1 DEF StartInv, Started, Events
  <2> QED
    BY <1>2, <2>1, <2>2, <2>3, RequestStep
<1> QED
  BY <1>3, <1>4, <1>5

LEMMA MessageStep ==
    ASSUME IInv, NEW kind \in {"started", "content", "extension"}, NEW id,
           kind = "started" => id # None, Message(kind, id)
    PROVE  IInv'
<1>1. Types /\ SentInv /\ StartInv
  BY DEF IInv
<1>2. /\ conversation.history \in Seq(Entry) /\ answers \in [Calls -> Responses]
      /\ conversation.last_response \in ResponseIds \cup {None}
      /\ upstream \in {"not_submitted", "unknown", "terminal_received"}
  BY <1>1 DEF Types
<1>3. /\ pc = "receive" /\ pc' = "emit" /\ upstream' = upstream /\ calls' = calls /\ busy' = busy
      /\ commands' = commands /\ cur' = cur /\ cancel' = cancel /\ closed' = closed
      /\ sent' = sent /\ conversation' = conversation /\ answers' = answers
      /\ UNCHANGED <<sinkVars, readVars>>
      /\ pending' = <<kind>> /\ (kind = "content" => decoder # None)
      /\ kind # "started" => decoder' = decoder
  BY DEF Message, Accepts, callVars
<1>4. pc \in Requesting /\ pc' \in Requesting /\ pc' \in Driving
  BY <1>3 DEF Requesting, Driving
<1>5. upstream # "not_submitted"
  BY <1>1, <1>3 DEF SentInv
<1>6. StartInv'
  <2>1. Published' = Published /\ stream' = stream
    BY <1>3 DEF sinkVars, readVars, Published
  <2>2. Started' <=> Started
    BY <1>3, <2>1 DEF Started, Events
  <2>3. \A a \in {"started", "content", "extension", "finished"} : pending' = <<a>> => a = kind
    BY <1>3, PendingFacts
  <2>4. stream = "open" /\ decoder # None => Started
    BY <1>1, <1>3 DEF StartInv
  <2> QED
    BY <1>3, <2>1, <2>2, <2>3, <2>4 DEF StartInv
<1> QED
  BY <1>2, <1>3, <1>4, <1>5, <1>6, RequestStep

LEMMA TerminalMessageStep ==
    ASSUME IInv, NEW answer \in Answer, TerminalMessage(answer)
    PROVE  IInv'
<1>1. Types /\ SentInv /\ StartInv /\ cur \in 0..MaxCalls
  BY DEF IInv, Types
<1>2. /\ conversation.history \in Seq(Entry) /\ answers \in [Calls -> Responses]
      /\ conversation.last_response \in ResponseIds \cup {None}
      /\ upstream \in {"not_submitted", "unknown", "terminal_received"}
  BY <1>1 DEF Types
<1>3. /\ pc = "receive" /\ pc' = "emit" /\ upstream' = "terminal_received" /\ calls' = calls
      /\ commands' = commands /\ cur' = cur /\ cancel' = cancel /\ closed' = closed
      /\ sent' = sent /\ conversation' = conversation /\ busy' = busy
      /\ answers' = [answers EXCEPT ![cur] = answer]
      /\ UNCHANGED <<sinkVars, readVars>>
      /\ pending' = IF decoder = None THEN <<"started", "finished">> ELSE <<"finished">>
  BY DEF TerminalMessage, callVars
<1>4. pc \in Requesting /\ pc' \in Requesting /\ pc' \in Driving
  BY <1>3 DEF Requesting, Driving
<1>5. answers' \in [Calls -> Responses]
  <2>1. answer \in Responses
    BY SMT DEF Answer, Responses
  <2> QED
    BY <1>2, <1>3, <2>1
<1>6. StartInv'
  <2>1. Published' = Published /\ stream' = stream
    BY <1>3 DEF sinkVars, readVars, Published
  <2>2. Started' <=> Started
    BY <1>3, <2>1 DEF Started, Events
  <2>3. stream = "open" /\ decoder # None => Started
    BY <1>1, <1>3 DEF StartInv
  <2>4. /\ pending' \in {<<"finished">>, <<"started", "finished">>}
        /\ pending' = <<"finished">> => decoder # None
        /\ pending' \notin {<<"content">>, <<"extension">>}
    BY <1>3, PendingFacts
  <2> QED
    BY <1>3, <2>1, <2>2, <2>3, <2>4 DEF StartInv
<1> QED
  BY <1>2, <1>3, <1>4, <1>5, <1>6, RequestStep

LEMMA SettleStep ==
    ASSUME IInv, Settle
    PROVE  IInv'
<1>1. Types /\ SentInv /\ StartInv /\ BusyInv /\ OpenInv
  BY DEF IInv
<1>2. /\ conversation.history \in Seq(Entry) /\ answers \in [Calls -> Responses]
      /\ conversation.last_response \in ResponseIds \cup {None} /\ cur \in 0..MaxCalls
      /\ upstream \in {"not_submitted", "unknown", "terminal_received"}
  BY <1>1 DEF Types
<1>3. /\ pc = "emit" /\ pc' = "free" /\ upstream' = upstream /\ calls' = calls /\ busy' = busy
      /\ commands' = commands /\ cur' = cur /\ cancel' = cancel /\ (closed => closed')
      /\ sent' = sent /\ answers' = answers /\ UNCHANGED <<sinkVars, readVars>>
      /\ Head(pending) = "finished"
      /\ conversation' = conversation \/ conversation' = Settled(answers[cur])
  BY DEF Settle, callVars
<1>4. pc \in Requesting /\ pc' \in Requesting /\ pc' \in Driving \cup {"free", "fail"}
  BY <1>3 DEF Requesting, Driving
<1>5. /\ conversation'.history \in Seq(Entry)
      /\ conversation'.last_response \in ResponseIds \cup {None}
  <2>1. PICK r : r = answers[cur]
    OBVIOUS
  <2>2. r.id \in ResponseIds \cup {None}
    <3>1. r \in Responses
      BY <1>1, <1>2, <1>4, <2>1 DEF OpenInv
    <3> QED
      BY <3>1, SMT DEF Responses
  <2>3. PICK h : h = Append(Full(cur), <<"out", cur>>)
    OBVIOUS
  <2>4. h \in Seq(Entry)
    <3>1. <<"in", cur>> \in Entry /\ <<"out", cur>> \in Entry
      BY <1>2, SMT DEF Entry
    <3> QED
      BY <1>2, <2>3, <3>1, SMT DEF Full, Delta
  <2>5. Settled(r).history = h /\ Settled(r).last_response = r.id
    BY <2>3, SMT DEF Settled
  <2> QED
    BY <1>2, <1>3, <2>1, <2>2, <2>4, <2>5
<1>6. StartInv'
  <2>1. Published' = Published /\ stream' = stream
    BY <1>3 DEF sinkVars, readVars, Published
  <2>2. Started' <=> Started
    BY <1>3, <2>1 DEF Started, Events
  <2>3. pending = <<"finished">>
    BY <1>1, <1>3, PendingFacts DEF StartInv
  <2>4. stream = "open" => Started
    BY <1>1, <1>3, <2>3 DEF StartInv
  <2> QED
    BY <1>3, <2>1, <2>2, <2>4 DEF StartInv
<1>7. upstream # "not_submitted"
  BY <1>1, <1>3 DEF SentInv
<1> QED
  BY <1>2, <1>3, <1>4, <1>5, <1>6, <1>7, RequestStep

\* What is sent is a request of the call that is served.
LEMMA BodyFacts ==
    ASSUME Types, cur \in Calls
    PROVE  /\ Delta(cur) \in Seq(Entry) /\ Full(cur) \in Seq(Entry)
           /\ Body(cur).input \in {Delta(cur), Full(cur)}
<1>1. conversation.history \in Seq(Entry) /\ cur \in 0..MaxCalls
  BY DEF Types
<1>2. <<"in", cur>> \in Entry
  BY <1>1, SMT DEF Entry
<1>3. Delta(cur) \in Seq(Entry) /\ Full(cur) \in Seq(Entry)
  BY <1>1, <1>2, SMT DEF Delta, Full
<1>4. Body(cur).input \in {Delta(cur), Full(cur)}
  BY DEF Body
<1> QED
  BY <1>3, <1>4

LEMMA ContextFacts ==
    ASSUME Types, cur \in Calls
    PROVE  ProviderContext(Body(cur)) \in Seq(Entry)
<1>1. PICK b : b = Body(cur)
  OBVIOUS
<1>2. b.input \in Seq(Entry)
  BY <1>1, BodyFacts
<1>3. PICK known : known = {j \in 1..Len(sent) : b.parent # None /\ answers[sent[j].call].id = b.parent}
  OBVIOUS
<1>4. CASE known = {}
  BY <1>1, <1>2, <1>3, <1>4 DEF ProviderContext
<1>5. CASE known # {}
  <2>1. PICK j : j = CHOOSE i \in known : TRUE
    OBVIOUS
  <2>2. j \in 1..Len(sent)
    BY <1>3, <1>5, <2>1
  <2>3. sent[j] \in Requests
    BY <2>2, SMT DEF Types
  <2>4. sent[j].context \in Seq(Entry) /\ sent[j].call \in Calls
    BY <2>3, SMT DEF Requests
  <2>5. <<"out", sent[j].call>> \in Entry
    BY <2>4, SessionAssumption, SMT DEF Entry, Calls
  <2>6. ProviderContext(b) = Append(sent[j].context, <<"out", sent[j].call>>) \o b.input
    BY <1>3, <1>5, <2>1 DEF ProviderContext
  <2>7. Append(sent[j].context, <<"out", sent[j].call>>) \o b.input \in Seq(Entry)
    BY <1>2, <2>4, <2>5, SMT
  <2> QED
    BY <1>1, <2>6, <2>7
<1> QED
  BY <1>4, <1>5

\* A request that was sent has no failure yet, and is no longer one that was not.
LEMMA WriteStep ==
    ASSUME IInv, NEW ok \in BOOLEAN, Write(ok)
    PROVE  IInv'
<1>1. /\ Types /\ CommandInv /\ BusyInv /\ SentInv /\ OpenInv /\ FailureInv /\ sequence \in Nat
      /\ StartInv
  BY DEF IInv, Types
<1>2. /\ pc = "write" /\ pc' \in {"receive", "fail"} /\ calls' = calls /\ commands' = commands
      /\ cur' = cur /\ busy' = busy /\ cancel' = cancel /\ (closed => closed')
      /\ conversation' = conversation /\ answers' = answers /\ upstream' = upstream
      /\ queue' = queue /\ final_slot' = final_slot /\ sequence' = sequence
      /\ stream' = stream /\ seen' = seen
      /\ sent' = Append(sent, [call |-> cur, context |-> ProviderContext(Body(cur))])
      /\ decoder' = decoder
  BY DEF Write, callVars, sinkVars, readVars
<1>3. /\ pc \in Requesting /\ pc' \in Requesting /\ pc' \notin Taken /\ pc \notin Ending
      /\ pc' \in Driving \cup {"free", "fail"} /\ pc' \notin {"install", "drain", "drop", "done"}
  BY <1>2 DEF Requesting, Driving, Taken, Ending
<1>4. cur \in Calls /\ calls[cur].pc = "receipt" /\ upstream # "not_submitted"
  BY <1>1, <1>2, <1>3 DEF OpenInv, SentInv
<1>5. PICK b \in Requests : /\ b = [call |-> cur, context |-> ProviderContext(Body(cur))]
                           /\ b.call = cur
  <2>1. PICK x \in Seq(Entry) : x = ProviderContext(Body(cur))
    BY <1>1, <1>4, ContextFacts
  <2>2. [call |-> cur, context |-> x] \in Requests
    BY <1>4 DEF Requests
  <2> QED
    BY <2>1, <2>2
<1>6. sent \in Seq(Requests)
  BY <1>1 DEF Types
<1>7. /\ sent' \in Seq(Requests)
      /\ \A j \in 1..Len(sent') : (j \in 1..Len(sent) /\ sent'[j] = sent[j]) \/ sent'[j] = b
  BY <1>2, <1>5, <1>6, SMT
<1>8. Types'
  BY <1>1, <1>2, <1>3, <1>7 DEF Types
<1>9. CommandInv' /\ BusyInv'
  BY <1>1, <1>2, <1>3 DEF CommandInv, BusyInv, Unanswered
<1>10. SentInv'
  BY <1>1, <1>2, <1>4, <1>5, <1>7 DEF SentInv
<1>11. Published' = Published /\ Events' = Events
  BY <1>2 DEF Published, Events
<1>12. FailureInv'
  <2>1. \A i \in Events : Published[i].call = cur => Published[i].kind # "failed"
    BY <1>1, <1>3 DEF OpenInv, Ends
  <2>2. ASSUME NEW i \in Events, NEW j \in 1..Len(sent')
        PROVE  ~(/\ Published[i].call = sent'[j].call /\ Published[i].kind = "failed"
                 /\ Published[i].upstream = "not_submitted")
    BY <1>1, <1>5, <1>7, <2>1 DEF FailureInv
  <2> QED
    BY <1>11, <2>2 DEF FailureInv
<1>13. StartInv'
  BY <1>1, <1>2, <1>11 DEF StartInv
<1>14. sequence' \in Nat /\ sequence' >= sequence
  BY <1>1, <1>2, SMT
<1> QED
  BY <1>2, <1>3, <1>4, <1>8, <1>9, <1>10, <1>11, <1>12, <1>13, <1>14, QuietStep

Kinds == {"started", "content", "extension", "finished", "failed", "closed"}
Knowns == {"none", "not_submitted", "unknown", "terminal_received"}

LEMMA EnvelopeFacts ==
    ASSUME Types, NEW kind \in Kinds, NEW call \in 0..MaxCalls, NEW known \in Knowns
    PROVE  \E e \in Event :
              /\ e = Envelope(kind, call, known) /\ e.sequence = sequence + 1
              /\ e.kind = kind /\ e.call = call /\ e.upstream = known
<1>1. sequence \in Nat
  BY DEF Types
<1>2. sequence + 1 \in Nat
  BY <1>1, SMT
<1>3. PICK e : e = Envelope(kind, call, known)
  OBVIOUS
<1>4. /\ e \in Event /\ e.sequence = sequence + 1 /\ e.kind = kind /\ e.call = call
      /\ e.upstream = known
  BY <1>2, <1>3, SMT DEF Envelope, Event, Kinds, Knowns
<1> QED
  BY <1>3, <1>4

\* A terminal event is published while there is a consumer, if need be in the final slot.
LEMMA TerminalFacts ==
    ASSUME Types, final_slot = <<>>, NEW kind \in Kinds, NEW call \in 0..MaxCalls,
           NEW known \in Knowns, Terminal(kind, call, known), UNCHANGED readVars
    PROVE  /\ sequence' = sequence + 1 /\ sequence \in Nat /\ sequence + 1 \in Nat
           /\ seen' \in Seq(Event) /\ queue' \in Seq(Event) /\ final_slot' \in Seq(Event)
           /\ seen' = seen /\ stream' = stream
           /\ final_slot' # <<>> => ~Room
           /\ stream = "open" => \E e \in Event :
                 /\ Published' = Append(Published, e) /\ e.sequence = sequence + 1
                 /\ e.kind = kind /\ e.call = call /\ e.upstream = known
           /\ stream # "open" => Published' = Published /\ final_slot' = final_slot
<1>1. PICK e \in Event : /\ e = Envelope(kind, call, known) /\ e.sequence = sequence + 1
                         /\ e.kind = kind /\ e.call = call /\ e.upstream = known
  BY EnvelopeFacts, SMT
<1>2. /\ sequence' = sequence + 1 /\ seen' = seen /\ stream' = stream
      /\ queue' = (IF Room THEN Append(queue, e) ELSE queue)
      /\ final_slot' = IF stream = "open" /\ ~Room THEN <<e>> ELSE final_slot
  BY <1>1 DEF Terminal, readVars
<1>3. seen \in Seq(Event) /\ queue \in Seq(Event) /\ final_slot \in Seq(Event) /\ sequence \in Nat
  BY DEF Types
<1>4. <<e>> \in Seq(Event) /\ Append(queue, e) \in Seq(Event) /\ sequence + 1 \in Nat
  BY <1>3, SMT
<1>5. CASE stream = "open"
  <2>1. \/ queue' = Append(queue, e) /\ final_slot' = <<>> /\ Room
        \/ queue' = queue /\ final_slot' = <<e>> /\ ~Room
    BY <1>2, <1>5
  <2>2. Published' = Append(Published, e)
    BY <1>2, <2>1, AppendFacts
  <2> QED
    BY <1>1, <1>2, <1>3, <1>4, <1>5, <2>1, <2>2
<1>6. CASE stream # "open"
  <2>1. ~Room
    BY <1>6 DEF Room
  <2>2. queue' = queue /\ final_slot' = final_slot
    BY <1>2, <1>6, <2>1
  <2> QED
    BY <1>2, <1>3, <1>4, <1>6, <2>1, <2>2 DEF Published
<1> QED
  BY <1>5, <1>6

\* The terminal event of a request.
LEMMA PublishSteps ==
    ASSUME IInv, PublishFinished \/ PublishFailed
    PROVE  IInv'
<1>1. /\ Types /\ CommandInv /\ BusyInv /\ SentInv /\ OpenInv /\ FailureInv /\ StartInv /\ NumberInv
      /\ upstream \in {"not_submitted", "unknown", "terminal_received"} /\ cur \in 0..MaxCalls
  BY DEF IInv, Types
<1>2. PICK kind, known :
        /\ kind \in {"finished", "failed"} /\ Terminal(kind, cur, known)
        /\ pc = (IF kind = "finished" THEN "finish" ELSE "failed")
        /\ known = (IF kind = "finished" THEN "none" ELSE upstream)
        /\ pc' \in {"select", "exit"} /\ (pc' = "select" => Room)
        /\ calls' = calls /\ commands' = commands
        /\ cur' = cur /\ busy' = busy /\ cancel' = cancel /\ closed' = closed
        /\ conversation' = conversation /\ answers' = answers /\ upstream' = upstream
        /\ sent' = sent /\ UNCHANGED readVars
  <2>1. CASE PublishFinished
    <3> WITNESS "finished", "none"
    <3> QED
      BY <2>1 DEF PublishFinished, Continues, callVars, workVars
  <2>2. CASE PublishFailed
    <3> WITNESS "failed", upstream
    <3> QED
      BY <2>2 DEF PublishFailed, callVars, workVars
  <2> QED
    BY <2>1, <2>2
<1>3. /\ pc \in {"finish", "failed"} /\ pc \in Requesting /\ pc \notin Ending /\ pc \notin Taken
      /\ pc \notin {"install", "generate", "receipt", "free", "fail"} \cup Driving
      /\ pc' \notin Requesting /\ pc' \notin Taken /\ pc' # "install"
      /\ pc' \in {"select"} \cup Ending /\ pc' \notin {"drain", "drop", "done"}
      /\ kind \in Kinds /\ known \in Knowns
  BY <1>1, <1>2 DEF Requesting, Driving, Taken, Ending, Kinds, Knowns
<1>4. final_slot = <<>>
  BY <1>1, <1>3 DEF NumberInv
<1>5. /\ sequence' = sequence + 1 /\ sequence \in Nat /\ sequence + 1 \in Nat
      /\ seen' \in Seq(Event) /\ queue' \in Seq(Event) /\ final_slot' \in Seq(Event)
      /\ stream' = stream
      /\ final_slot' # <<>> => ~Room
      /\ stream = "open" => \E e \in Event :
            /\ Published' = Append(Published, e) /\ e.sequence = sequence + 1
            /\ e.kind = kind /\ e.call = cur /\ e.upstream = known
      /\ stream # "open" => Published' = Published /\ final_slot' = final_slot
  BY <1>1, <1>2, <1>3, <1>4, TerminalFacts, SMTT(30)
<1>6. Types'
  BY <1>1, <1>2, <1>3, <1>5 DEF Types
<1>7. CommandInv' /\ BusyInv' /\ SentInv'
  <2>1. CommandInv'
    BY <1>1, <1>2, <1>3 DEF CommandInv, Unanswered
  <2>2. BusyInv'
    BY <1>1, <1>2, <1>3 DEF BusyInv
  <2>3. pc' \notin {"write", "receive", "emit"}
    BY <1>2
  <2> QED
    BY <1>1, <1>2, <1>3, <2>1, <2>2, <2>3 DEF SentInv
<1>8. StartInv'
  BY <1>2 DEF StartInv
<1>9. CASE stream = "open"
  <2>1. PICK e \in Event : /\ Published' = Append(Published, e) /\ e.sequence = sequence + 1
                           /\ e.kind = kind /\ e.call = cur /\ e.upstream = known
    BY <1>5, <1>9
  <2>2. Ends(e) /\ e.kind # "content"
    BY <1>2, <2>1 DEF Ends
  <2>3. e.kind = "finished" => Started
    BY <1>1, <1>2, <1>9, <2>1 DEF StartInv
  <2>4. e.kind = "failed" /\ e.upstream = "not_submitted" =>
           \A j \in 1..Len(sent) : sent[j].call # e.call
    BY <1>1, <1>2, <1>3, <2>1 DEF SentInv
  <2>5. final_slot' # <<>> => pc' \in Ending
    BY <1>2, <1>3, <1>5
  <2> QED
    BY <1>2, <1>3, <1>5, <1>6, <1>7, <1>8, <1>9, <2>1, <2>2, <2>3, <2>4, <2>5, AppendStep
<1>10. CASE stream # "open"
  <2>1. FailureInv'
    BY <1>1, <1>2, <1>5, <1>10 DEF FailureInv, Events
  <2>2. sequence' \in Nat /\ sequence' >= sequence
    BY <1>5, SMT
  <2> QED
    BY <1>2, <1>3, <1>5, <1>6, <1>7, <1>8, <1>10, <2>1, <2>2, QuietStep
<1> QED
  BY <1>9, <1>10

\* An event of the response, in the order in which it was decoded.
LEMMA EmitStep ==
    ASSUME IInv, Emit
    PROVE  IInv'
<1>1. /\ Types /\ CommandInv /\ BusyInv /\ SentInv /\ OpenInv /\ StartInv /\ NumberInv
      /\ cur \in 0..MaxCalls /\ sequence \in Nat
      /\ seen \in Seq(Event) /\ queue \in Seq(Event) /\ final_slot \in Seq(Event)
  BY DEF IInv, Types
<1>2. /\ pc = "emit" /\ Head(pending) # "finished" /\ stream = "open"
      /\ queue' = Append(queue, Envelope(Head(pending), cur, "none"))
      /\ sequence' = sequence + 1 /\ pending' = Tail(pending)
      /\ pc' = (IF Len(pending) = 1 THEN "receive" ELSE "emit")
      /\ calls' = calls /\ commands' = commands /\ decoder' = decoder
      /\ cur' = cur /\ busy' = busy /\ cancel' = cancel /\ closed' = closed
      /\ conversation' = conversation /\ answers' = answers /\ upstream' = upstream
      /\ sent' = sent /\ final_slot' = final_slot /\ seen' = seen /\ stream' = stream
  BY DEF Emit, Room, callVars, readVars
<1>3. /\ pc \in Requesting /\ pc' \in Requesting /\ pc \notin Ending /\ pc' \notin Taken
      /\ pc' \in Driving /\ pc' \notin {"install", "drain", "drop", "done"}
      /\ pc' \in {"receive", "emit"} /\ Driving \subseteq Requesting
  BY <1>2 DEF Requesting, Driving, Taken, Ending
<1>4. final_slot = <<>>
  BY <1>1, <1>3 DEF NumberInv
<1>5. PICK kind : kind = Head(pending)
  OBVIOUS
<1>6. /\ kind \in {"started", "content", "extension"}
      /\ \/ pending = <<kind>> /\ pc' = "receive"
         \/ kind = "started" /\ pc' = "emit" /\ pending' = <<"finished">>
  <2>1. pending \in {<<"started">>, <<"content">>, <<"extension">>, <<"finished">>,
                     <<"started", "finished">>}
    BY <1>1, <1>2 DEF StartInv
  <2>2. CASE pending = <<"started", "finished">>
    <3>1. Len(pending) # 1
      BY <2>2, PendingFacts, SMT
    <3> QED
      BY <1>2, <1>5, <2>2, <3>1, PendingFacts
  <2>3. CASE pending \in {<<"started">>, <<"content">>, <<"extension">>, <<"finished">>}
    BY <1>2, <1>5, <2>3, PendingFacts
  <2> QED
    BY <2>1, <2>2, <2>3
<1>7. PICK e \in Event : /\ e = Envelope(kind, cur, "none") /\ e.sequence = sequence + 1
                         /\ e.kind = kind /\ e.call = cur /\ e.upstream = "none"
  <2>1. kind \in Kinds /\ "none" \in Knowns
    BY <1>6 DEF Kinds, Knowns
  <2> QED
    BY <1>1, <2>1, EnvelopeFacts, SMT
<1>8. Published' = Append(Published, e)
  BY <1>1, <1>2, <1>4, <1>5, <1>7, AppendFacts
<1>9. queue' \in Seq(Event) /\ sequence' \in Nat
  BY <1>1, <1>2, <1>5, <1>7, SMT
<1>10. Types'
  BY <1>1, <1>2, <1>3, <1>9 DEF Types
<1>11. CommandInv' /\ BusyInv' /\ SentInv'
  <2>1. CommandInv' /\ BusyInv'
    BY <1>1, <1>2, <1>3 DEF CommandInv, BusyInv, Unanswered
  <2> QED
    BY <1>1, <1>2, <1>3, <2>1 DEF SentInv
<1>12. kind = "content" => Started
  BY <1>1, <1>2, <1>6 DEF StartInv, Driving
<1>13. PICK n : n = Len(Published)
  OBVIOUS
<1>14. /\ Events = 1..n /\ Events' = 1..(n + 1) /\ 1..n \subseteq 1..(n + 1) /\ n + 1 \in 1..(n + 1)
       /\ Published'[n + 1] = e /\ \A i \in 1..n : Published'[i] = Published[i]
  <2>1. Published \in Seq(Event) /\ n \in Nat
    BY <1>1, <1>13, PublishedFacts
  <2> QED
    BY <1>8, <1>13, <2>1, SMT DEF Events
<1>15. /\ Started => Started'
       /\ kind = "started" => Started'
  BY <1>2, <1>7, <1>14 DEF Started
<1>16. StartInv'
  <2>1. CASE pending = <<kind>> /\ pc' = "receive"
    <3>1. decoder # None => Started'
      BY <1>1, <1>2, <1>6, <1>12, <1>15, <2>1 DEF StartInv
    <3> QED
      BY <1>2, <2>1, <3>1 DEF StartInv
  <2>2. CASE kind = "started" /\ pc' = "emit" /\ pending' = <<"finished">>
    BY <1>15, <2>2 DEF StartInv
  <2> QED
    BY <1>6, <2>1, <2>2
<1>17. ~Ends(e) /\ (e.kind \in {"content", "finished"} => Started) /\ e.kind # "failed"
  BY <1>6, <1>7, <1>12 DEF Ends
<1> QED
  BY <1>2, <1>3, <1>4, <1>7, <1>8, <1>10, <1>11, <1>16, <1>17, AppendStep

\* A session that ends without a request says so.
LEMMA IdleWireStep ==
    ASSUME IInv, IdleWire
    PROVE  IInv'
<1>1. /\ Types /\ CommandInv /\ BusyInv /\ SentInv /\ NumberInv
      /\ 0 \in 0..MaxCalls /\ "none" \in Knowns /\ "closed" \in Kinds
  <2>1. 0 \in 0..MaxCalls
    BY SessionAssumption, SMT
  <2> QED
    BY <2>1 DEF IInv, Kinds, Knowns
<1>2. /\ pc = "select" /\ pc' = "exit" /\ stream = "open" /\ closed' = TRUE
      /\ Terminal("closed", 0, "none") /\ calls' = calls /\ commands' = commands
      /\ cur' = cur /\ busy' = busy /\ cancel' = cancel
      /\ conversation' = conversation /\ answers' = answers /\ upstream' = upstream
      /\ sent' = sent /\ UNCHANGED readVars
  BY DEF IdleWire, Stopped, callVars, workVars
<1>3. pc \notin Ending /\ pc' \in Ending /\ pc' \notin Taken /\ pc' \notin Requesting
  BY <1>2 DEF Requesting, Driving, Taken, Ending
<1>4. final_slot = <<>>
  BY <1>1, <1>3 DEF NumberInv
<1>5. /\ sequence' = sequence + 1 /\ sequence \in Nat /\ sequence + 1 \in Nat
      /\ seen' \in Seq(Event) /\ queue' \in Seq(Event) /\ final_slot' \in Seq(Event)
      /\ stream' = stream
      /\ stream = "open" => \E e \in Event :
            /\ Published' = Append(Published, e) /\ e.sequence = sequence + 1
            /\ e.kind = "closed" /\ e.call = 0 /\ e.upstream = "none"
  BY <1>1, <1>2, <1>4, TerminalFacts, SMT
<1>6. PICK e \in Event : /\ Published' = Append(Published, e) /\ e.sequence = sequence + 1
                         /\ e.kind = "closed" /\ e.call = 0 /\ e.upstream = "none"
  BY <1>2, <1>5
<1>7. Types'
  BY <1>1, <1>2, <1>3, <1>5 DEF Types
<1>8. CommandInv' /\ BusyInv' /\ SentInv' /\ StartInv'
  BY <1>1, <1>2, <1>3 DEF CommandInv, BusyInv, SentInv, StartInv, Unanswered
<1> QED
  BY <1>2, <1>3, <1>5, <1>6, <1>7, <1>8, AppendStep

-----------------------------------------------------------------------------
(***************************************************************************)
(* The theorems.                                                           *)
(***************************************************************************)

LEMMA InitHolds == Init => IInv
<1> SUFFICES ASSUME Init PROVE IInv
  OBVIOUS
<1>1. /\ calls = [k \in Calls |-> NoCall] /\ commands = <<>> /\ cur = 0 /\ pc = "select"
      /\ conversation = Fresh /\ answers = [k \in Calls |-> NoAnswer]
      /\ upstream = "not_submitted" /\ sent = <<>> /\ seen = <<>> /\ queue = <<>>
      /\ final_slot = <<>> /\ sequence = 0 /\ busy = FALSE /\ closed = FALSE
  BY DEF Init
<1>2. NoCall \in Asked /\ NoCall.kind = "none" /\ NoCall.pc = "unborn"
  BY SMT DEF NoCall, Asked, CallPcs
<1>3. NoAnswer \in Responses /\ Fresh.history = <<>> /\ Fresh.last_response = None
  BY SMT DEF NoAnswer, Responses, Fresh
<1>4. 0 \in 0..MaxCalls /\ 0 \in Nat
  BY SessionAssumption, SMT
<1>5. Types
  <2>1. \A S : <<>> \in Seq(S)
    BY SMT
  <2> QED
    BY <1>1, <1>2, <1>3, <1>4, <2>1 DEF Types
<1>6. \A k \in Calls : <<>> # <<k>>
  BY SMT
<1>7. Len(sent) = 0 /\ 1..0 = {}
  BY <1>1, SMT
<1>8. Published = <<>> /\ Len(Published) = 0
  BY <1>1, SMT DEF Published
<1>9. Events = {}
  BY <1>7, <1>8 DEF Events
<1>10. CommandInv /\ BusyInv /\ SentInv
  BY <1>1, <1>2, <1>6, <1>7 DEF CommandInv, BusyInv, SentInv, Taken, Requesting, Driving
<1>11. EventOrder /\ OwnerInv /\ OpenInv /\ OverInv /\ FailureInv /\ NumberInv
  BY <1>1, <1>7, <1>8, <1>9
     DEF EventOrder, OwnerInv, OpenInv, OverInv, FailureInv, NumberInv, Requesting, Driving
<1>12. StartInv
  BY <1>1 DEF StartInv
<1> QED
  BY <1>5, <1>10, <1>11, <1>12 DEF IInv

LEMMA NextStep == IInv /\ [Next]_vars => IInv'
<1> SUFFICES ASSUME IInv, [Next]_vars PROVE IInv'
  OBVIOUS
<1>1. CASE UNCHANGED vars
  <2>1. /\ calls' = calls /\ commands' = commands /\ busy' = busy /\ closed' = closed
        /\ cancel' = cancel /\ UNCHANGED <<pc, cur, workVars, sinkVars, readVars>>
    BY <1>1 DEF vars, callVars
  <2>2. Types /\ CommandInv /\ BusyInv
    BY DEF IInv
  <2>3. CommandInv' /\ BusyInv'
    BY <2>1, <2>2 DEF CommandInv, BusyInv, Unanswered
  <2>4. /\ calls' \in [Calls -> Asked] /\ (commands' = <<>> \/ \E k \in Calls : commands' = <<k>>)
        /\ \A k \in Calls : calls[k].pc = "receipt" => calls'[k].pc = "receipt"
    BY <2>1, <2>2 DEF Types
  <2> QED
    BY <2>1, <2>3, <2>4, CallerStep
<1>2. CASE \E k \in Calls :
             \/ \E results \in SUBSET CallIds : Call(k, "generate", results)
             \/ Call(k, "install", {})
  <2>1. {} \in SUBSET CallIds
    OBVIOUS
  <2> QED
    BY <1>2, <2>1, CallStep
<1>3. CASE Worker
  <2>1. CASE Request
    BY <2>1, RequestSteps, WriteStep, MessageStep, TerminalMessageStep, EmitStep, SettleStep,
       PublishSteps DEF Request
  <2> QED
    BY <1>3, <2>1, EndSteps, TakeCommandStep, InstallReplayStep, ReplySteps, PrepareStep, ReceiptStep
       DEF Worker
<1>4. CASE (\E k \in Calls : Caller(k) \/ Abandon(k)) \/ Close \/ DropControl
  BY <1>4, CallerSteps, ControlSteps
<1>5. CASE Consumer \/ DropStream \/ IdleWire
  BY <1>5, ConsumerSteps, IdleWireStep
<1> QED
  BY <1>1, <1>2, <1>3, <1>4, <1>5 DEF Next

\* The invariant of the session: the flag, the commands and the published events agree
\* with what the callers and the worker are doing.
THEOREM Invariant == Spec => []IInv
<1>1. Init => IInv
  BY InitHolds
<1>2. IInv /\ [Next]_vars => IInv'
  BY NextStep
<1> QED
  BY <1>1, <1>2, PTL DEF Spec

\* Events reach the consumer in order, request by request, each with one terminal
\* event after its start and nothing behind it.
THEOREM Order == Spec => []EventOrder
<1>1. IInv => EventOrder
  BY DEF IInv
<1> QED
  BY <1>1, Invariant, PTL

\* Nothing is sent without a receipt, no failure of a request that was sent denies it,
\* and Busy is told only while somebody will free the session.
THEOREM Told == Spec => []ToldTruly
<1>1. IInv => ToldTruly
  <2> SUFFICES ASSUME IInv PROVE ToldTruly
    OBVIOUS
  <2>1. ASSUME NEW j \in 1..Len(sent)
        PROVE  /\ calls[sent[j].call].pc = "receipt"
               /\ ~\E i \in 1..Len(Published) :
                     LET e == Published[i] IN
                     e.call = sent[j].call /\ e.kind = "failed" /\ e.upstream = "not_submitted"
    BY DEF IInv, SentInv, FailureInv, Events
  <2>2. ASSUME busy, ~closed, ~cancel
        PROVE  \/ \E k \in Calls : calls[k].pc \in {"send", "wait"}
               \/ commands # <<>>
               \/ pc \in {"install", "generate", "receipt"}
               \/ \E k \in Calls :
                     /\ calls[k].pc = "receipt"
                     /\ \A i \in 1..Len(Published) : ~(Published[i].call = k /\ Ends(Published[i]))
    <3>1. CASE pc \in {"free", "fail"} \cup Driving
      <4>1. pc \in Requesting
        BY <3>1 DEF Requesting
      <4> QED
        BY <4>1 DEF IInv, OpenInv, Events
    <3> QED
      BY <2>2, <3>1 DEF IInv, BusyInv
  <2> QED
    BY <2>1, <2>2 DEF ToldTruly
<1> QED
  BY <1>1, Invariant, PTL

-----------------------------------------------------------------------------
(***************************************************************************)
(* What a request continues.                                               *)
(***************************************************************************)

\* The call that has taken the flag: on its way to the worker, or served by it.
\* There is one at most, and the flag is set.
Serving == {"install", "generate", "receipt", "free", "fail"} \cup Driving
Holds(k) == \/ calls[k].pc = "send" \/ commands = <<k>>
            \/ pc \in Serving /\ cur = k

HoldInv ==
    /\ ~receiving => pc \in {"drop", "done"}
    /\ pc \notin Ending =>
         /\ \A k \in Calls : Holds(k) => busy
         /\ \A j, k \in Calls : Holds(j) /\ Holds(k) => j = k

\* A replay is installed only into a session that nothing has used.
UsedInv ==
    /\ \A k \in Calls :
         /\ calls[k].pc = "receipt" => calls[k].kind = "generate"
         /\ calls[k].pc = "installed" => used
         /\ calls[k].kind = "generate" /\ calls[k].pc \in {"wait", "abandoned", "receipt"} => used
         /\ /\ pc \notin Ending /\ calls[k].kind = "install"
            /\ commands = <<k>> \/ (pc = "install" /\ cur = k)
            => ~used
    /\ pc \in {"generate", "refuse", "receipt"} => calls[cur].kind = "generate"
    /\ pc = "installed" => used
    /\ ~used => conversation = Fresh

Replayed == \E k \in Calls : calls[k].pc = "installed"
Replay == IF Replayed THEN << <<"replay", 0>> >> ELSE <<>>

\* The first n inputs and outputs of the requests that were sent.
Turns(requests, n) ==
    [j \in 1..n |-> <<IF j % 2 = 1 THEN "in" ELSE "out", requests[(j + 1) \div 2].call>>]

\* A conversation is the one of the first n requests and their responses.
Continued(talk, replay, requests, responses, n) ==
    /\ talk.history = replay \o Turns(requests, 2 * n)
    /\ \A j \in 1..n : responses[requests[j].call].id \in talk.settled_ids \ {None}
    /\ \A i, j \in 1..n :
          responses[requests[i].call].id = responses[requests[j].call].id => i = j
    /\ n = 0 => /\ talk.last_response = None /\ talk.pending_calls = {}
                /\ ~talk.advanced_output
    /\ n > 0 => LET last == responses[requests[n].call] IN
                /\ last.completed
                /\ talk.last_response = last.id
                /\ talk.pending_calls = last.calls
                /\ talk.advanced_output <=> last.advanced

Whole == {"select", "install", "invalid", "generate", "refuse", "receipt", "send", "write"}
Terminals == {<<"finished">>, <<"started", "finished">>}

\* Between two requests the conversation is the one of all of them; during a
\* request it is the one of those before it.
TalkInv ==
    /\ \A i, j \in 1..Len(sent) : sent[i].call = sent[j].call => i = j
    /\ pc \in Whole => Continued(conversation, Replay, sent, answers, Len(sent))
    /\ pc = "installed" => sent = <<>> /\ conversation = Restored
    /\ pc \in {"receive", "emit"} =>
         /\ Len(sent) > 0 /\ sent[Len(sent)].call = cur
         /\ Continued(conversation, Replay, sent, answers, Len(sent) - 1)
    /\ pc \in {"free", "finish"} /\ answers[cur].completed =>
         Continued(conversation, Replay, sent, answers, Len(sent))
    /\ pc \in {"send", "write"} => \A j \in 1..Len(sent) : sent[j].call # cur
    /\ pc \in {"receipt", "send", "write"} =>
         calls[cur].results = conversation.pending_calls /\ ~conversation.advanced_output
    /\ pc = "emit" /\ pending \in Terminals => answers[cur].id # None

\* A request has the right context and the right results.
Rightly(requests, responses, asked, replay, i) ==
    /\ requests[i].context = replay \o Turns(requests, 2 * i - 1)
    /\ i > 1 => LET before == responses[requests[i - 1].call] IN
                /\ before.completed /\ ~before.advanced
                /\ asked[requests[i].call].results = before.calls

RightInv == \A i \in 1..Len(sent) : Rightly(sent, answers, calls, Replay, i)

TurnInv == HoldInv /\ UsedInv /\ TalkInv /\ RightInv

LEMMA RightContinues == RightInv => RequestsContinue
<1> SUFFICES ASSUME RightInv, NEW i \in 1..Len(sent)
             PROVE  /\ sent[i].context = Transcript(i)
                    /\ i > 1 => LET before == answers[sent[i - 1].call] IN
                                /\ before.completed /\ ~before.advanced
                                /\ calls[sent[i].call].results = before.calls
  BY DEF RequestsContinue
<1>1. Rightly(sent, answers, calls, Replay, i)
  BY DEF RightInv
<1>2. Transcript(i) = Replay \o Turns(sent, 2 * i - 1)
  BY DEF Transcript, Replay, Replayed, Turns
<1> QED
  BY <1>1, <1>2 DEF Rightly

-----------------------------------------------------------------------------
(***************************************************************************)
(* Transcripts.                                                            *)
(***************************************************************************)

\* A transcript depends on the requests that it covers.
LEMMA TurnsSame ==
    ASSUME NEW s, NEW t, NEW m \in Nat, \A j \in 1..m : s[j].call = t[j].call,
           NEW n \in Nat, n <= 2 * m
    PROVE  Turns(s, n) = Turns(t, n)
<1>1. \A j \in 1..n : (j + 1) \div 2 \in 1..m
  BY SMT
<1>2. \A j \in 1..n : s[(j + 1) \div 2].call = t[(j + 1) \div 2].call
  BY <1>1
<1> QED
  BY <1>2 DEF Turns

\* One more element.
LEMMA LongerFacts ==
    ASSUME NEW a \in Seq(Entry), NEW b \in Seq(Entry),
           Len(b) = Len(a) + 1, \A j \in 1..Len(a) : a[j] = b[j]
    PROVE  b = Append(a, b[Len(b)])
<1>1. b[Len(b)] \in Entry
  BY SMT
<1>2. PICK e \in Entry : e = b[Len(b)]
  BY <1>1
<1>3. Append(a, e) \in Seq(Entry) /\ Len(Append(a, e)) = Len(b)
  BY SMT
<1>4. \A j \in 1..Len(b) : Append(a, e)[j] = b[j]
  BY <1>2, SMT
<1>5. b = Append(a, e)
  BY <1>3, <1>4, SeqEqual, SMT
<1> QED
  BY <1>2, <1>5

LEMMA AfterFacts ==
    ASSUME NEW r \in Seq(Entry), NEW a \in Seq(Entry), NEW e \in Entry
    PROVE  /\ r \o a \in Seq(Entry) /\ Append(r \o a, e) = r \o Append(a, e)
           /\ (r \o a) \o <<e>> = r \o Append(a, e)
<1>1. PICK w \in Seq(Entry) : w = <<e>>
  <2>1. <<e>> \in Seq(Entry)
    BY SMT
  <2> QED
    BY <2>1
<1>2. r \o a \in Seq(Entry)
  BY ConcatProperties
<1>3. Append(a, e) = a \o w /\ Append(r \o a, e) = (r \o a) \o w
  BY <1>1, <1>2, AppendIsConcat
<1>4. (r \o a) \o w = r \o (a \o w)
  BY ConcatAssociative, SMT
<1> QED
  BY <1>1, <1>2, <1>3, <1>4

\* One more input or output.
LEMMA TurnsNext ==
    ASSUME NEW s, NEW r \in Seq(Entry), NEW n \in Nat,
           \A j \in 1..(n + 1) : s[(j + 1) \div 2].call \in Calls,
           NEW e, e = <<IF (n + 1) % 2 = 1 THEN "in" ELSE "out", s[(n + 2) \div 2].call>>
    PROVE  /\ r \o Turns(s, n) \in Seq(Entry) /\ e \in Entry
           /\ Append(r \o Turns(s, n), e) = r \o Turns(s, n + 1)
           /\ (r \o Turns(s, n)) \o <<e>> = r \o Turns(s, n + 1)
<1>1. \A j \in 1..(n + 1) : Turns(s, n + 1)[j] \in Entry
  BY SessionAssumption, SMT DEF Turns, Entry, Calls
<1>2. Turns(s, n + 1) \in Seq(Entry) /\ Len(Turns(s, n + 1)) = n + 1
  BY <1>1, SMT DEF Turns
<1>3. \A j \in 1..n : j \in 1..(n + 1) /\ Turns(s, n)[j] = Turns(s, n + 1)[j]
  BY SMT DEF Turns
<1>4. Turns(s, n) \in Seq(Entry) /\ Len(Turns(s, n)) = n
  BY <1>1, <1>3, SMT DEF Turns
<1>5. Turns(s, n + 1)[n + 1] = e
  BY SMT DEF Turns
<1>6. e \in Entry
  <2>1. n + 1 \in 1..(n + 1)
    BY SMT
  <2>2. Turns(s, n + 1)[n + 1] \in Entry
    BY <1>1, <2>1
  <2> QED
    BY <1>5, <2>2
<1>7. PICK a \in Seq(Entry), b \in Seq(Entry), f \in Entry :
        a = Turns(s, n) /\ b = Turns(s, n + 1) /\ f = e
  BY <1>2, <1>4, <1>6
<1>8. Len(b) = Len(a) + 1 /\ (\A j \in 1..Len(a) : a[j] = b[j]) /\ b[Len(b)] = f
  BY <1>2, <1>3, <1>4, <1>5, <1>7
<1>9. b = Append(a, f)
  BY <1>8, LongerFacts
<1>10. /\ r \o a \in Seq(Entry) /\ Append(r \o a, f) = r \o b
       /\ (r \o a) \o <<f>> = r \o b
  BY <1>9, AfterFacts
<1> QED
  BY <1>6, <1>7, <1>10

-----------------------------------------------------------------------------
(***************************************************************************)
(* Steps that leave the conversation alone.                                *)
(***************************************************************************)

\* The acknowledged replay changes with an acknowledgement alone.
LEMMA ReplaySame ==
    ASSUME \A k \in Calls : calls'[k].pc = "installed" <=> calls[k].pc = "installed"
    PROVE  Replay' = Replay
BY DEF Replay, Replayed

LEMMA RightKeeps ==
    ASSUME IInv, RightInv, sent' = sent, answers' = answers,
           \A k \in Calls : calls'[k].pc = "installed" <=> calls[k].pc = "installed",
           \A k \in Calls : calls[k].pc = "receipt" => calls'[k].results = calls[k].results
    PROVE  RightInv'
<1>1. Replay' = Replay
  BY ReplaySame
<1>2. \A j \in 1..Len(sent) : sent[j].call \in Calls /\ calls[sent[j].call].pc = "receipt"
  BY SentFacts DEF IInv, SentInv
<1>3. SUFFICES ASSUME NEW i \in 1..Len(sent)
               PROVE  Rightly(sent, answers, calls', Replay, i)
  BY <1>1 DEF RightInv
<1>4. calls'[sent[i].call].results = calls[sent[i].call].results
  BY <1>2
<1> QED
  BY <1>4 DEF RightInv, Rightly

LEMMA TalkKeeps ==
    ASSUME IInv, TalkInv, RightInv, sent' = sent, answers' = answers,
           conversation' = conversation,
           \A k \in Calls : calls'[k].pc = "installed" <=> calls[k].pc = "installed",
           \A k \in Calls : calls[k].pc # "unborn" => calls'[k].results = calls[k].results,
           pc' \in Whole \/ (pc' \in {"free", "finish"} /\ answers[cur'].completed) =>
              Continued(conversation, Replay, sent, answers, Len(sent)),
           pc' = "installed" => pc = "installed",
           pc' \in {"receive", "emit"} => pc \in {"receive", "emit"} /\ cur' = cur,
           pc' \in {"send", "write"} => \A j \in 1..Len(sent) : sent[j].call # cur',
           pc' \in {"receipt", "send", "write"} =>
              /\ cur' \in Calls /\ calls[cur'].pc # "unborn"
              /\ calls[cur'].results = conversation.pending_calls
              /\ ~conversation.advanced_output,
           pc' = "emit" /\ pending' \in Terminals => answers[cur'].id # None
    PROVE  TalkInv' /\ RightInv'
<1>1. RightInv'
  BY RightKeeps
<1>2. Replay' = Replay
  BY ReplaySame
<1>3. pc' \in Whole => Continued(conversation, Replay, sent, answers, Len(sent))'
  BY <1>2
<1>4. pc' \in {"free", "finish"} /\ answers'[cur'].completed =>
        Continued(conversation, Replay, sent, answers, Len(sent))'
  BY <1>2
<1>5. pc' \in {"receive", "emit"} =>
        /\ Len(sent') > 0 /\ sent'[Len(sent')].call = cur'
        /\ Continued(conversation, Replay, sent, answers, Len(sent) - 1)'
  BY <1>2 DEF TalkInv
<1>6. pc' \in {"receipt", "send", "write"} =>
        calls'[cur'].results = conversation'.pending_calls /\ ~conversation'.advanced_output
  OBVIOUS
<1>7. pc' = "installed" => sent' = <<>> /\ conversation' = Restored
  BY DEF TalkInv
<1>8. \A i, j \in 1..Len(sent') : sent'[i].call = sent'[j].call => i = j
  BY DEF TalkInv
<1> QED
  BY <1>1, <1>3, <1>4, <1>5, <1>6, <1>7, <1>8 DEF TalkInv

\* Steps of others than the worker.
LEMMA TalkStays ==
    ASSUME IInv, TalkInv, RightInv, UNCHANGED <<pc, cur, workVars>>,
           \A k \in Calls : calls'[k].pc = "installed" <=> calls[k].pc = "installed",
           \A k \in Calls : calls[k].pc # "unborn" => calls'[k].results = calls[k].results
    PROVE  TalkInv' /\ RightInv'
<1>1. /\ pc' = pc /\ cur' = cur /\ sent' = sent /\ answers' = answers
      /\ conversation' = conversation /\ pending' = pending
  BY DEF workVars
<1>2. pc \in {"receipt", "send", "write"} => cur \in Calls /\ calls[cur].pc # "unborn"
  <2>1. pc \in {"receipt", "send", "write"} => pc \in Taken \/ pc \in Requesting
    BY DEF Taken, Requesting, Driving
  <2> QED
    BY <2>1 DEF IInv, CommandInv, OpenInv, Unanswered
<1> QED
  BY <1>1, <1>2, TalkKeeps DEF TalkInv

\* Steps of the worker that change nothing but its place.
LEMMA TalkMoves ==
    ASSUME IInv, TalkInv, RightInv, calls' = calls, cur' = cur, UNCHANGED workVars,
           \/ pc' \notin Whole \cup {"installed", "receive", "emit", "free", "finish"}
           \/ pc = "free" /\ pc' = "finish"
           \/ pc = "finish" /\ pc' = "select" /\ answers[cur].completed
    PROVE  TalkInv' /\ RightInv'
<1>1. /\ sent' = sent /\ answers' = answers /\ conversation' = conversation
  BY DEF workVars
<1>2. pc' \notin {"installed", "receive", "emit", "receipt", "send", "write"}
  BY DEF Whole
<1>3. pc' \in Whole \/ (pc' \in {"free", "finish"} /\ answers[cur].completed) =>
        Continued(conversation, Replay, sent, answers, Len(sent))
  BY DEF TalkInv, Whole
<1> QED
  BY <1>1, <1>2, <1>3, TalkKeeps

\* A call keeps its results when its place changes.
LEMMA BecomesResults ==
    ASSUME Types, NEW k \in Calls, NEW w, Becomes(k, w)
    PROVE  \A j \in Calls : calls'[j].results = calls[j].results
<1>1. calls \in [Calls -> Asked] /\ calls' = [calls EXCEPT ![k].pc = w]
  BY DEF Types, Becomes
<1>2. calls[k] \in Asked
  BY <1>1
<1>3. PICK g : g = [calls[k] EXCEPT !.pc = w]
  OBVIOUS
<1>4. g.results = calls[k].results
  BY <1>2, <1>3, SMT DEF Asked
<1>5. \A j \in Calls : calls'[j] = IF j = k THEN g ELSE calls[j]
  BY <1>1, <1>3
<1> QED
  BY <1>4, <1>5

LEMMA ReplyResults ==
    ASSUME Types, cur \in Calls, NEW w, Reply(w)
    PROVE  \A j \in Calls : calls'[j].results = calls[j].results
<1>1. calls' = calls \/ Becomes(cur, w)
  BY DEF Reply
<1> QED
  BY <1>1, BecomesResults

-----------------------------------------------------------------------------
(***************************************************************************)
(* Steps that continue the conversation.                                   *)
(***************************************************************************)

\* Conversations of the same requests and responses.
LEMMA ContinuedSame ==
    ASSUME NEW talk, NEW replay, NEW s, NEW t, NEW a, NEW b, NEW n \in Nat,
           \A j \in 1..n : s[j].call = t[j].call /\ a[s[j].call] = b[s[j].call],
           Continued(talk, replay, s, a, n)
    PROVE  Continued(talk, replay, t, b, n)
<1>1. Turns(s, 2 * n) = Turns(t, 2 * n)
  <2>1. 2 * n \in Nat /\ 2 * n <= 2 * n
    BY SMT
  <2> QED
    BY <2>1, TurnsSame
<1>2. \A j \in 1..n : a[s[j].call] = b[t[j].call]
  OBVIOUS
<1>3. n > 0 => n \in 1..n
  BY SMT
<1> QED
  BY <1>1, <1>2, <1>3 DEF Continued

\* A transcript without turns.
LEMMA NoTurns ==
    ASSUME NEW s
    PROVE  /\ << <<"replay", 0>> >> \o Turns(s, 0) = << <<"replay", 0>> >>
           /\ Turns(s, 0) = <<>> /\ Replay \in Seq(Entry)
<1>1. <<"replay", 0>> \in Entry
  BY SessionAssumption, SMT DEF Entry
<1>2. << <<"replay", 0>> >> \in Seq(Entry) /\ <<>> \in Seq(Entry)
  BY <1>1, SMT
<1>3. Turns(s, 0) = <<>>
  <2>1. 1..0 = {}
    BY SMT
  <2>2. DOMAIN Turns(s, 0) = {} /\ DOMAIN <<>> = {}
    BY <2>1, SMT DEF Turns
  <2> QED
    BY <2>1, SMT DEF Turns
<1> QED
  BY <1>2, <1>3, ConcatEmptySeq DEF Replay

LEMMA RestoredFacts ==
    /\ Restored.history = << <<"replay", 0>> >> /\ Restored.last_response = None
    /\ Restored.pending_calls = {} /\ ~Restored.advanced_output
<1>1. /\ Restored.history = << <<"replay", 0>> >> /\ Restored.last_response = None
      /\ Restored.pending_calls = {}
  BY SMT DEF Restored, Fresh
<1>2. Restored.advanced_output = FALSE
  BY DEF Restored, Fresh
<1> QED
  BY <1>1, <1>2

\* A replay is installed into a session that has sent nothing.
LEMMA InstallTalk ==
    ASSUME IInv, HoldInv, UsedInv, TalkInv, RightInv, NEW valid \in BOOLEAN, InstallReplay(valid)
    PROVE  TalkInv' /\ RightInv'
<1>1. /\ pc = "install" /\ calls' = calls /\ cur' = cur /\ sent' = sent /\ answers' = answers
      /\ pending' = pending
  BY DEF InstallReplay
<1>2. CASE ~(valid /\ ~cancel /\ ~Abandoned)
  <2>1. conversation' = conversation /\ pc' \in {"exit", "invalid"}
    BY <1>2 DEF InstallReplay
  <2>2. Continued(conversation, Replay, sent, answers, Len(sent))
    BY <1>1 DEF TalkInv, Whole
  <2> QED
    BY <1>1, <2>1, <2>2, TalkKeeps
<1>3. CASE valid /\ ~cancel /\ ~Abandoned
  <2>1. conversation' = Restored /\ pc' = "installed"
    BY <1>3 DEF InstallReplay
  <2>2. cur \in Calls /\ calls[cur].kind = "install"
    <3>1. pc \in Taken
      BY <1>1 DEF Taken
    <3> QED
      BY <1>1, <3>1 DEF IInv, CommandInv
  <2>3. ~used
    <3>1. pc \notin Ending
      BY <1>1 DEF Ending
    <3> QED
      BY <1>1, <2>2, <3>1 DEF UsedInv
  <2>4. \A j \in 1..Len(sent) : FALSE
    BY <2>3, SentFacts DEF IInv, SentInv, UsedInv
  <2>5. sent = <<>>
    <3>1. sent \in Seq(Requests)
      BY DEF IInv, Types
    <3> QED
      BY <2>4, <3>1, SMT
  <2>6. RightInv'
    BY <1>1, <2>4 DEF RightInv
  <2> QED
    BY <1>1, <2>1, <2>4, <2>5, <2>6 DEF TalkInv, Whole
<1> QED
  BY <1>2, <1>3

\* The replay belongs to the conversation once it is acknowledged.
LEMMA AcknowledgeTalk ==
    ASSUME IInv, TalkInv, RightInv, Acknowledge
    PROVE  TalkInv' /\ RightInv'
<1>1. /\ pc \in {"installed", "invalid"} /\ cur' = cur /\ sent' = sent /\ answers' = answers
      /\ conversation' = conversation /\ pc' = (IF Abandoned THEN "exit" ELSE "select")
      /\ Reply(pc)
  BY DEF Acknowledge, workVars
<1>2. pc \in Taken /\ pc \in Returned /\ "invalid" \in Returned
  BY <1>1 DEF Taken, Returned
<1>3. /\ cur \in Calls /\ calls[cur].pc \in {"wait", "abandoned"}
      /\ \A j \in Calls : j # cur => calls'[j] = calls[j]
      /\ IF Abandoned THEN calls' = calls ELSE calls'[cur].pc = pc
  BY <1>1, <1>2, ReplyFacts DEF IInv, CommandInv, Unanswered
<1>4. CASE pc = "installed"
  <2>1. sent = <<>> /\ conversation = Restored
    BY <1>4 DEF TalkInv
  <2>2. Len(sent) = 0 /\ \A j \in 1..Len(sent) : FALSE
    BY <2>1, SMT
  <2>3. RightInv'
    BY <1>1, <2>2 DEF RightInv
  <2>4. pc' = "select" => Continued(conversation', Replay', sent', answers', Len(sent'))
    <3>1. SUFFICES ASSUME pc' = "select"
                   PROVE  Continued(Restored, Replay', sent, answers, 0)
      BY <1>1, <2>1, <2>2
    <3>2. Replay' = << <<"replay", 0>> >>
      BY <1>1, <1>3, <1>4, <3>1 DEF Replay, Replayed
    <3>3. 2 * 0 = 0 /\ ~(0 > 0) /\ \A j \in 1..0 : FALSE
      BY SMT
    <3> QED
      BY <3>2, <3>3, NoTurns, RestoredFacts DEF Continued
  <2>5. pc' \in {"select", "exit"}
    BY <1>1
  <2> QED
    BY <1>1, <2>2, <2>3, <2>4, <2>5 DEF TalkInv, Whole
<1>5. CASE pc = "invalid"
  <2>1. Continued(conversation, Replay, sent, answers, Len(sent))
    BY <1>5 DEF TalkInv, Whole
  <2>2. \A k \in Calls : calls'[k].pc = "installed" <=> calls[k].pc = "installed"
    BY <1>3, <1>5
  <2>3. \A k \in Calls : calls'[k].results = calls[k].results
    BY <1>1, <1>3, ReplyResults DEF IInv
  <2>4. pc' \in {"select", "exit"}
    BY <1>1
  <2> QED
    BY <1>1, <2>1, <2>2, <2>3, <2>4, TalkKeeps
<1> QED
  BY <1>1, <1>4, <1>5

\* A turn is an input and its output.
LEMMA InputNext ==
    ASSUME NEW s, NEW r \in Seq(Entry), NEW n \in Nat,
           \A j \in 1..(n + 1) : s[j].call \in Calls
    PROVE  /\ r \o Turns(s, 2 * n) \in Seq(Entry) /\ <<"in", s[n + 1].call>> \in Entry
           /\ (r \o Turns(s, 2 * n)) \o << <<"in", s[n + 1].call>> >>
                = r \o Turns(s, 2 * (n + 1) - 1)
<1>1. PICK m \in Nat : m = 2 * n
  <2>1. 2 * n \in Nat
    BY SMT
  <2> QED
    BY <2>1
<1>2. \A j \in 1..(m + 1) : (j + 1) \div 2 \in 1..(n + 1)
  BY <1>1, SMT
<1>3. \A j \in 1..(m + 1) : s[(j + 1) \div 2].call \in Calls
  BY <1>2
<1>4. (m + 1) % 2 = 1 /\ (m + 2) \div 2 = n + 1 /\ 2 * (n + 1) - 1 = m + 1
  BY <1>1, SMT
<1>5. PICK e : e = <<"in", s[n + 1].call>>
  OBVIOUS
<1>6. e = <<IF (m + 1) % 2 = 1 THEN "in" ELSE "out", s[(m + 2) \div 2].call>>
  BY <1>4, <1>5
<1>7. /\ r \o Turns(s, m) \in Seq(Entry) /\ e \in Entry
      /\ (r \o Turns(s, m)) \o <<e>> = r \o Turns(s, m + 1)
  BY <1>3, <1>6, TurnsNext
<1> QED
  BY <1>1, <1>4, <1>5, <1>7

LEMMA OutputNext ==
    ASSUME NEW s, NEW r \in Seq(Entry), NEW n \in Nat, n > 0,
           \A j \in 1..n : s[j].call \in Calls
    PROVE  Append(r \o Turns(s, 2 * n - 1), <<"out", s[n].call>>) = r \o Turns(s, 2 * n)
<1>1. PICK m \in Nat : m = 2 * n - 1
  <2>1. 2 * n - 1 \in Nat
    BY SMT
  <2> QED
    BY <2>1
<1>2. \A j \in 1..(m + 1) : (j + 1) \div 2 \in 1..n
  BY <1>1, SMT
<1>3. \A j \in 1..(m + 1) : s[(j + 1) \div 2].call \in Calls
  BY <1>2
<1>4. (m + 1) % 2 # 1 /\ (m + 2) \div 2 = n /\ 2 * n = m + 1
  BY <1>1, SMT
<1>5. PICK e : e = <<"out", s[n].call>>
  OBVIOUS
<1>6. e = <<IF (m + 1) % 2 = 1 THEN "in" ELSE "out", s[(m + 2) \div 2].call>>
  BY <1>4, <1>5
<1>7. Append(r \o Turns(s, m), e) = r \o Turns(s, m + 1)
  BY <1>3, <1>6, TurnsNext
<1> QED
  BY <1>1, <1>4, <1>5, <1>7

\* The provider's context of the next request.
LEMMA ContextNext ==
    ASSUME IInv, TalkInv, RightInv, pc = "write", NEW t, NEW n \in Nat, n = Len(sent),
           \A j \in 1..n : t[j].call = sent[j].call, t[n + 1].call = cur
    PROVE  ProviderContext(Body(cur)) = Replay \o Turns(t, 2 * (n + 1) - 1)
<1>1. Types /\ cur \in Calls
  <2>1. pc \in Requesting
    BY DEF Requesting, Driving
  <2> QED
    BY <2>1 DEF IInv, OpenInv
<1>2. Continued(conversation, Replay, sent, answers, n)
  BY DEF TalkInv, Whole
<1>3. Replay \in Seq(Entry)
  BY NoTurns
<1>4. \A j \in 1..n : sent[j].call \in Calls /\ t[j].call \in Calls
  BY <1>1, SentFacts
<1>5. (Replay \o Turns(sent, 2 * n)) \o Delta(cur) = Replay \o Turns(t, 2 * (n + 1) - 1)
  <2>1. Turns(sent, 2 * n) = Turns(t, 2 * n)
    <3>1. 2 * n \in Nat /\ 2 * n <= 2 * n
      BY SMT
    <3> QED
      BY <3>1, TurnsSame
  <2>2. \A j \in 1..(n + 1) : j \in 1..n \/ j = n + 1
    BY SMT
  <2>3. \A j \in 1..(n + 1) : t[j].call \in Calls
    BY <1>1, <1>4, <2>2
  <2> QED
    BY <1>3, <2>1, <2>3, InputNext DEF Delta
<1>6. PICK b : b = Body(cur)
  OBVIOUS
<1>7. PICK known : known = {j \in 1..Len(sent) :
                              b.parent # None /\ answers[sent[j].call].id = b.parent}
  OBVIOUS
<1>8. CASE transport = "websocket" /\ conversation.last_response # None
  <2>1. b.parent = conversation.last_response /\ b.input = Delta(cur)
    BY <1>6, <1>8 DEF Body
  <2>2. n > 0
    <3>1. n # 0
      BY <1>2, <1>8 DEF Continued
    <3> QED
      BY <3>1, SMT
  <2>3. n \in 1..n
    BY <2>2, SMT
  <2>4. answers[sent[n].call].id = b.parent
    BY <1>2, <2>1, <2>2 DEF Continued
  <2>5. known = {n}
    BY <1>2, <1>7, <1>8, <2>1, <2>3, <2>4 DEF Continued
  <2>6. n = CHOOSE j \in known : TRUE
    BY <2>5
  <2>7. ProviderContext(b) = Append(sent[n].context, <<"out", sent[n].call>>) \o b.input
    BY <1>7, <2>5, <2>6 DEF ProviderContext
  <2>8. sent[n].context = Replay \o Turns(sent, 2 * n - 1)
    BY <2>3 DEF RightInv, Rightly
  <2>9. Append(sent[n].context, <<"out", sent[n].call>>) = Replay \o Turns(sent, 2 * n)
    BY <1>3, <1>4, <2>2, <2>8, OutputNext
  <2> QED
    BY <1>5, <1>6, <2>1, <2>7, <2>9
<1>9. CASE ~(transport = "websocket" /\ conversation.last_response # None)
  <2>1. b.parent = None /\ b.input = Full(cur)
    BY <1>6, <1>9 DEF Body
  <2>2. known = {}
    BY <1>7, <2>1
  <2>3. ProviderContext(b) = b.input
    BY <1>7, <2>2 DEF ProviderContext
  <2>4. conversation.history = Replay \o Turns(sent, 2 * n)
    BY <1>2 DEF Continued
  <2> QED
    BY <1>5, <1>6, <2>1, <2>3, <2>4 DEF Full
<1> QED
  BY <1>8, <1>9

LEMMA WriteTalk ==
    ASSUME IInv, TalkInv, RightInv, NEW ok \in BOOLEAN, Write(ok)
    PROVE  TalkInv' /\ RightInv'
<1>1. /\ pc = "write" /\ pc' \in {"receive", "fail"} /\ calls' = calls /\ cur' = cur
      /\ conversation' = conversation /\ answers' = answers
      /\ sent' = Append(sent, [call |-> cur, context |-> ProviderContext(Body(cur))])
  BY DEF Write, callVars
<1>2. Types /\ cur \in Calls /\ sent \in Seq(Requests)
  <2>1. pc \in Requesting
    BY <1>1 DEF Requesting, Driving
  <2> QED
    BY <2>1 DEF IInv, OpenInv, Types
<1>3. PICK b \in Requests : /\ b = [call |-> cur, context |-> ProviderContext(Body(cur))]
                           /\ b.call = cur /\ b.context = ProviderContext(Body(cur))
  <2>1. PICK x \in Seq(Entry) : x = ProviderContext(Body(cur))
    BY <1>2, ContextFacts
  <2>2. [call |-> cur, context |-> x] \in Requests
    BY <1>2 DEF Requests
  <2> QED
    BY <2>1, <2>2
<1>4. PICK n \in Nat : n = Len(sent)
  <2>1. Len(sent) \in Nat
    BY <1>2, SMT
  <2> QED
    BY <2>1
<1>5. /\ Len(sent') = n + 1 /\ sent'[n + 1] = b /\ \A j \in 1..n : sent'[j] = sent[j]
  BY <1>1, <1>2, <1>3, <1>4, SMT
<1>6. /\ n + 1 > 0 /\ (n + 1) - 1 = n /\ \A j \in 1..(n + 1) : j \in 1..n \/ j = n + 1
      /\ \A j \in 1..(n + 1) : j > 1 => j - 1 \in 1..n
      /\ n + 1 > 1 => n > 0
  BY SMT
<1>7. Replay' = Replay
  BY <1>1, ReplaySame
<1>8. /\ Continued(conversation, Replay, sent, answers, n)
      /\ \A j \in 1..n : sent[j].call # cur
      /\ calls[cur].results = conversation.pending_calls /\ ~conversation.advanced_output
  BY <1>1, <1>4 DEF TalkInv, Whole
<1>9. Continued(conversation, Replay, sent', answers, n)
  BY <1>5, <1>8, ContinuedSame
<1>10. TalkInv'
  <2>1. \A i, j \in 1..(n + 1) : sent'[i].call = sent'[j].call => i = j
    <3>1. \A i, j \in 1..n : sent[i].call = sent[j].call => i = j
      BY <1>4 DEF TalkInv
    <3>2. TAKE i, j \in 1..(n + 1)
    <3>3. (i \in 1..n \/ i = n + 1) /\ (j \in 1..n \/ j = n + 1)
      BY <1>6
    <3>4. sent'[n + 1].call = cur
      BY <1>3, <1>5
    <3> QED
      BY <1>5, <1>8, <3>1, <3>3, <3>4
  <2> QED
    BY <1>1, <1>3, <1>5, <1>6, <1>7, <1>9, <2>1 DEF TalkInv, Whole
<1>11. ASSUME NEW i \in 1..n
       PROVE  Rightly(sent', answers, calls, Replay, i)
  <2>1. Rightly(sent, answers, calls, Replay, i)
    BY <1>4 DEF RightInv
  <2>2. Turns(sent, 2 * i - 1) = Turns(sent', 2 * i - 1)
    <3>1. 2 * i - 1 \in Nat /\ 2 * i - 1 <= 2 * n
      BY SMT
    <3> QED
      BY <1>5, <3>1, TurnsSame
  <2>3. i > 1 => i - 1 \in 1..n
    BY SMT
  <2> QED
    BY <1>5, <2>1, <2>2, <2>3 DEF Rightly
<1>12. Rightly(sent', answers, calls, Replay, n + 1)
  <2>1. sent'[n + 1].context = Replay \o Turns(sent', 2 * (n + 1) - 1)
    BY <1>1, <1>3, <1>4, <1>5, ContextNext
  <2>2. n > 0 => LET last == answers[sent[n].call] IN
                 /\ last.completed /\ ~last.advanced /\ calls[cur].results = last.calls
    BY <1>8 DEF Continued
  <2>3. n + 1 > 1 => n > 0 /\ n \in 1..n
    BY SMT
  <2> QED
    BY <1>3, <1>5, <1>6, <2>1, <2>2, <2>3 DEF Rightly
<1>13. RightInv'
  BY <1>1, <1>5, <1>6, <1>7, <1>11, <1>12 DEF RightInv
<1> QED
  BY <1>10, <1>13

\* The response to the request that is being served.
LEMMA TerminalTalk ==
    ASSUME IInv, TalkInv, RightInv, NEW answer \in Answer, TerminalMessage(answer)
    PROVE  TalkInv' /\ RightInv'
<1>1. /\ pc = "receive" /\ pc' = "emit" /\ calls' = calls /\ cur' = cur /\ sent' = sent
      /\ conversation' = conversation /\ answers' = [answers EXCEPT ![cur] = answer]
  BY DEF TerminalMessage, callVars
<1>2. /\ Types /\ cur \in Calls /\ sent \in Seq(Requests) /\ answers \in [Calls -> Responses]
  <2>1. pc \in Requesting
    BY <1>1 DEF Requesting, Driving
  <2> QED
    BY <2>1 DEF IInv, OpenInv, Types
<1>3. PICK n \in Nat : n = Len(sent) /\ n > 0
  <2>1. Len(sent) \in Nat /\ Len(sent) > 0
    BY <1>1, <1>2, SMT DEF TalkInv
  <2> QED
    BY <2>1
<1>4. /\ n - 1 \in Nat /\ n \in 1..n /\ \A j \in 1..(n - 1) : j \in 1..n /\ j # n
      /\ \A j \in 1..n : j > 1 => j - 1 \in 1..(n - 1)
  BY <1>3, SMT
<1>5. /\ sent[n].call = cur /\ Continued(conversation, Replay, sent, answers, n - 1)
  BY <1>1, <1>3 DEF TalkInv
<1>6. \A j \in 1..(n - 1) : sent[j].call # cur /\ sent[j].call \in Calls
  BY <1>2, <1>3, <1>4, <1>5, SentFacts DEF TalkInv
<1>7. \A j \in 1..(n - 1) : answers'[sent[j].call] = answers[sent[j].call]
  BY <1>1, <1>2, <1>6
<1>8. Replay' = Replay
  BY <1>1, ReplaySame
<1>9. Continued(conversation, Replay, sent, answers', n - 1)
  BY <1>4, <1>5, <1>7, ContinuedSame
<1>10. answers'[cur].id # None
  <2>1. answer.id # None
    BY SessionAssumption, SMT DEF Answer
  <2> QED
    BY <1>1, <1>2, <2>1
<1>11. TalkInv'
  BY <1>1, <1>3, <1>5, <1>8, <1>9, <1>10 DEF TalkInv, Whole
<1>12. ASSUME NEW i \in 1..n
       PROVE  Rightly(sent, answers', calls, Replay, i)
  <2>1. Rightly(sent, answers, calls, Replay, i)
    BY <1>3 DEF RightInv
  <2> QED
    BY <1>4, <1>7, <2>1 DEF Rightly
<1>13. RightInv'
  BY <1>1, <1>3, <1>8, <1>12 DEF RightInv
<1> QED
  BY <1>11, <1>13

\* A completed response and its request become a turn of the conversation.
LEMMA SettleTalk ==
    ASSUME IInv, TalkInv, RightInv, Settle
    PROVE  TalkInv' /\ RightInv'
<1>1. /\ pc = "emit" /\ pc' = "free" /\ calls' = calls /\ cur' = cur /\ sent' = sent
      /\ answers' = answers /\ Head(pending) = "finished"
      /\ answers[cur].completed => Settles(answers[cur]) /\ conversation' = Settled(answers[cur])
  BY DEF Settle, callVars
<1>2. /\ Types /\ cur \in Calls /\ sent \in Seq(Requests) /\ answers \in [Calls -> Responses]
      /\ StartInv
  <2>1. pc \in Requesting
    BY <1>1 DEF Requesting, Driving
  <2> QED
    BY <2>1 DEF IInv, OpenInv, Types
<1>3. PICK n \in Nat : n = Len(sent) /\ n > 0
  <2>1. Len(sent) \in Nat /\ Len(sent) > 0
    BY <1>1, <1>2, SMT DEF TalkInv
  <2> QED
    BY <2>1
<1>4. RightInv'
  BY <1>1, RightKeeps
<1>5. Replay' = Replay
  BY <1>1, ReplaySame
<1>6. \A i, j \in 1..n : sent[i].call = sent[j].call => i = j
  BY <1>3 DEF TalkInv
<1>7. CASE ~answers[cur].completed
  BY <1>1, <1>3, <1>4, <1>6, <1>7 DEF TalkInv, Whole
<1>8. CASE answers[cur].completed
  <2>1. PICK m \in Nat : n = m + 1
    <3>1. n - 1 \in Nat /\ n = (n - 1) + 1
      BY <1>3, SMT
    <3> QED
      BY <3>1
  <2>2. sent[n].call = cur /\ Continued(conversation, Replay, sent, answers, m)
    <3>1. n - 1 = m
      BY <2>1, SMT
    <3> QED
      BY <1>1, <1>3, <3>1 DEF TalkInv
  <2>3. PICK a : a = answers[cur]
    OBVIOUS
  <2>4. a.id # None /\ a.id \notin conversation.settled_ids
    <3>1. pending \in Terminals
      BY <1>1, <1>2, PendingFacts DEF StartInv, Terminals
    <3> QED
      BY <1>1, <1>8, <2>3, <3>1 DEF TalkInv, Settles
  <2>5. /\ conversation'.history = Append(Full(cur), <<"out", cur>>)
        /\ conversation'.last_response = a.id /\ conversation'.pending_calls = a.calls
        /\ conversation'.settled_ids = conversation.settled_ids \cup {a.id}
        /\ conversation'.advanced_output = a.advanced
    <3>1. conversation' = Settled(a)
      BY <1>1, <1>8, <2>3
    <3> QED
      BY <3>1 DEF Settled
  <2>6. conversation'.history = Replay \o Turns(sent, 2 * n)
    <3>1. Replay \in Seq(Entry) /\ \A j \in 1..n : sent[j].call \in Calls
      BY <1>2, <1>3, SentFacts, NoTurns
    <3>2. (Replay \o Turns(sent, 2 * m)) \o << <<"in", sent[m + 1].call>> >>
             = Replay \o Turns(sent, 2 * (m + 1) - 1)
      BY <2>1, <3>1, InputNext
    <3>3. Full(cur) = Replay \o Turns(sent, 2 * n - 1)
      BY <2>1, <2>2, <3>2 DEF Full, Delta, Continued
    <3>4. Append(Replay \o Turns(sent, 2 * n - 1), <<"out", sent[n].call>>)
             = Replay \o Turns(sent, 2 * n)
      BY <1>3, <3>1, OutputNext
    <3> QED
      BY <2>2, <2>5, <3>3, <3>4
  <2>7. \A j \in 1..n : j \in 1..m \/ j = n
    BY <2>1, SMT
  <2>8. /\ \A j \in 1..m : answers[sent[j].call].id \in conversation.settled_ids \ {None}
        /\ \A i, j \in 1..m : answers[sent[i].call].id = answers[sent[j].call].id => i = j
        /\ answers[sent[n].call] = a
    BY <2>2, <2>3 DEF Continued
  <2>9. \A j \in 1..n : answers[sent[j].call].id \in conversation'.settled_ids \ {None}
    BY <2>4, <2>5, <2>7, <2>8
  <2>10. \A i, j \in 1..n : answers[sent[i].call].id = answers[sent[j].call].id => i = j
    <3>1. TAKE i, j \in 1..n
    <3>2. (i \in 1..m \/ i = n) /\ (j \in 1..m \/ j = n)
      BY <2>7
    <3> QED
      BY <2>4, <2>8, <3>2
  <2>11. n # 0
    BY <1>3, SMT
  <2>12. Continued(conversation', Replay, sent, answers, n)
    BY <1>8, <2>3, <2>5, <2>6, <2>8, <2>9, <2>10, <2>11 DEF Continued
  <2> QED
    BY <1>1, <1>3, <1>4, <1>5, <1>6, <2>12 DEF TalkInv, Whole
<1> QED
  BY <1>7, <1>8

-----------------------------------------------------------------------------
(***************************************************************************)
(* Who has taken the flag.                                                 *)
(***************************************************************************)

\* The call that the worker serves is not on its way to it.
LEMMA ServedFacts ==
    ASSUME IInv, pc \in Serving \/ pc \in Taken \/ pc \in Requesting
    PROVE  cur \in Calls /\ calls[cur].pc # "send" /\ commands # <<cur>>
<1>1. pc \in Taken \/ pc \in Requesting
  BY DEF Serving, Taken, Requesting, Driving
<1> QED
  BY <1>1 DEF IInv, CommandInv, OpenInv, Unanswered

\* The worker goes on, with or without clearing the flag.
LEMMA PlaceMoves ==
    ASSUME IInv, HoldInv, UsedInv, calls' = calls, commands' = commands, cur' = cur,
           used' <=> used, receiving' = receiving,
           busy' = busy \/ (pc \in Serving /\ pc' \notin Serving) \/ pc' \in Ending,
           pc \in Ending => pc' \in Ending,
           pc \in {"drop", "done"} => pc' \in {"drop", "done"},
           pc' \in Serving => pc \in Serving,
           pc' \notin {"install", "installed"},
           pc' \in {"generate", "refuse", "receipt"} => pc \in {"generate", "refuse", "receipt"},
           conversation' = conversation \/ used
    PROVE  HoldInv' /\ UsedInv'
<1>1. \A k \in Calls : Holds(k)' => Holds(k)
  BY DEF Holds
<1>2. HoldInv'
  <2>1. ASSUME pc' \notin Ending, NEW k \in Calls, Holds(k)'
        PROVE  busy'
    <3>1. CASE busy' = busy
      BY <1>1, <2>1, <3>1 DEF HoldInv
    <3>2. CASE pc \in Serving /\ pc' \notin Serving
      <4>1. cur \in Calls /\ calls[cur].pc # "send" /\ commands # <<cur>>
        BY <3>2, ServedFacts
      <4>2. Holds(cur) /\ Holds(k)
        BY <1>1, <2>1, <3>2, <4>1 DEF Holds
      <4>3. k = cur
        BY <2>1, <4>1, <4>2 DEF HoldInv
      <4> QED
        BY <2>1, <3>2, <4>1, <4>3 DEF Holds
    <3> QED
      BY <2>1, <3>1, <3>2
  <2>2. \A j, k \in Calls : pc' \notin Ending /\ Holds(j)' /\ Holds(k)' => j = k
    BY <1>1 DEF HoldInv
  <2> QED
    BY <2>1, <2>2 DEF HoldInv
<1>3. UsedInv'
  <2>1. \A k \in Calls :
          /\ calls'[k].pc = "receipt" => calls'[k].kind = "generate"
          /\ calls'[k].pc = "installed" => used'
          /\ calls'[k].kind = "generate" /\ calls'[k].pc \in {"wait", "abandoned", "receipt"} =>
               used'
          /\ pc' \notin Ending /\ calls'[k].kind = "install" /\ commands' = <<k>> => ~used'
    BY DEF UsedInv
  <2> QED
    BY <2>1 DEF UsedInv
<1> QED
  BY <1>2, <1>3

\* Nothing of it changes.
LEMMA FlagStays ==
    ASSUME HoldInv, UsedInv,
           UNCHANGED <<pc, cur, calls, commands, used, busy, receiving, conversation>>
    PROVE  HoldInv' /\ UsedInv'
<1>1. /\ pc' = pc /\ cur' = cur /\ calls' = calls /\ commands' = commands /\ used' = used
      /\ busy' = busy /\ receiving' = receiving /\ conversation' = conversation
  OBVIOUS
<1>2. \A k \in Calls : Holds(k)' <=> Holds(k)
  BY <1>1 DEF Holds
<1>3. HoldInv'
  <2>1. (receiving' <=> receiving) /\ (busy' <=> busy)
    BY <1>1, SMT
  <2>2. pc' = pc
    BY <1>1
  <2> QED
    BY ONLY HoldInv, <1>2, <2>1, <2>2, Zenon DEF HoldInv
<1>4. UsedInv'
  <2>1. used' <=> used
    BY <1>1, SMT
  <2>2. /\ pc' = pc /\ cur' = cur /\ calls' = calls /\ commands' = commands
        /\ conversation' = conversation
    BY <1>1
  <2> QED
    BY ONLY UsedInv, <2>1, <2>2, Zenon DEF UsedInv
<1> QED
  BY <1>3, <1>4

\* A call goes on, with or without the flag.
LEMMA CallMoves ==
    ASSUME IInv, HoldInv, UsedInv, NEW k \in Calls,
           UNCHANGED <<pc, cur, receiving, conversation>>,
           \A j \in Calls : j # k => calls'[j] = calls[j],
           \A j \in Calls : pc \notin Ending /\ Holds(j)' =>
              busy' /\ (Holds(j) \/ \A i \in Calls : Holds(i)' => i = j),
           calls'[k].pc = "receipt" => calls'[k].kind = "generate",
           calls'[k].pc = "installed" => used',
           calls'[k].kind = "generate" /\ calls'[k].pc \in {"wait", "abandoned", "receipt"} => used',
           used => used',
           \A j \in Calls : pc \notin Ending /\ calls'[j].kind = "install" /\
              (commands' = <<j>> \/ (pc = "install" /\ cur = j)) => ~used',
           pc \in {"generate", "refuse", "receipt"} => calls'[cur].kind = calls[cur].kind
    PROVE  HoldInv' /\ UsedInv'
<1>1. pc' = pc /\ cur' = cur /\ receiving' = receiving /\ conversation' = conversation
  OBVIOUS
<1>2. HoldInv'
  <2>1. \A j \in Calls : pc' \notin Ending /\ Holds(j)' => busy'
    BY <1>1
  <2>2. \A i, j \in Calls : pc' \notin Ending /\ Holds(i)' /\ Holds(j)' => i = j
    BY <1>1 DEF HoldInv
  <2>3. ~receiving' => pc' \in {"drop", "done"}
    <3>1. (receiving' <=> receiving) /\ pc' = pc
      BY <1>1, SMT
    <3> QED
      BY <3>1 DEF HoldInv
  <2> QED
    BY ONLY <2>1, <2>2, <2>3, Zenon DEF HoldInv
<1>3. UsedInv'
  <2>1. \A j \in Calls :
          /\ calls'[j].pc = "receipt" => calls'[j].kind = "generate"
          /\ calls'[j].pc = "installed" => used'
          /\ calls'[j].kind = "generate" /\ calls'[j].pc \in {"wait", "abandoned", "receipt"} =>
               used'
    BY DEF UsedInv
  <2> QED
    BY <1>1, <2>1 DEF UsedInv
<1> QED
  BY <1>2, <1>3

-----------------------------------------------------------------------------
(***************************************************************************)
(* The callers and the consumer.                                           *)
(***************************************************************************)

LEMMA CallTurn ==
    ASSUME IInv, TurnInv, NEW k \in Calls, NEW kind \in {"generate", "install"},
           NEW results \in SUBSET CallIds, Call(k, kind, results)
    PROVE  TurnInv'
<1>1. /\ Types /\ CommandInv /\ HoldInv /\ UsedInv /\ TalkInv /\ RightInv
      /\ calls \in [Calls -> Asked]
  BY DEF IInv, TurnInv, Types
<1>2. /\ calls[k].kind = "none" /\ commands' = commands /\ used' = used /\ busy' = busy
      /\ UNCHANGED <<pc, cur, receiving, conversation>> /\ UNCHANGED <<pc, cur, workVars>>
  BY DEF Call, Unborn, workVars
<1>3. PICK w \in {"closed", "reserve"} :
        calls' = [calls EXCEPT ![k] = [kind |-> kind, results |-> results, pc |-> w]]
  BY DEF Call
<1>4. /\ calls'[k].pc = w /\ calls[k].pc = "unborn"
      /\ \A j \in Calls : j # k => calls'[j] = calls[j]
  BY <1>1, <1>2, <1>3 DEF CommandInv
<1>5. commands # <<k>> /\ (pc \in Serving \/ pc \in Taken => cur # k)
  <2>1. pc \in Serving \/ pc \in Taken => cur \in Calls /\ calls[cur].pc # "unborn"
    <3>1. pc \in Serving => pc \in Taken \/ pc \in Requesting
      BY DEF Serving, Taken, Requesting, Driving
    <3> QED
      BY <1>1, <3>1 DEF IInv, CommandInv, OpenInv, Unanswered
  <2> QED
    BY <1>1, <1>2, <1>4, <2>1 DEF CommandInv
<1>6. \A j \in Calls : Holds(j)' => Holds(j)
  BY <1>2, <1>4 DEF Holds
<1>7. HoldInv' /\ UsedInv'
  <2>1. \A j \in Calls : pc \notin Ending /\ Holds(j)' =>
           busy' /\ (Holds(j) \/ \A i \in Calls : Holds(i)' => i = j)
    BY <1>1, <1>2, <1>6 DEF HoldInv
  <2>2. \A j \in Calls : pc \notin Ending /\ calls'[j].kind = "install" /\
           (commands' = <<j>> \/ (pc = "install" /\ cur = j)) => ~used'
    <3>1. pc = "install" => pc \in Taken
      BY DEF Taken
    <3> QED
      BY <1>1, <1>2, <1>4, <1>5, <3>1 DEF UsedInv
  <2>3. pc \in {"generate", "refuse", "receipt"} => calls'[cur].kind = calls[cur].kind
    <3>1. pc \in {"generate", "refuse", "receipt"} => pc \in Taken
      BY DEF Taken
    <3>2. pc \in Taken => cur \in Calls
      BY <1>1 DEF CommandInv
    <3> QED
      BY <1>4, <1>5, <3>1, <3>2
  <2>4. calls'[k].pc \notin {"receipt", "installed", "wait", "abandoned"}
    BY <1>4
  <2> QED
    BY <1>1, <1>2, <1>4, <2>1, <2>2, <2>3, <2>4, CallMoves
<1>8. TalkInv' /\ RightInv'
  <2>1. \A j \in Calls : calls'[j].pc = "installed" <=> calls[j].pc = "installed"
    BY <1>4
  <2>2. \A j \in Calls : calls[j].pc # "unborn" => calls'[j].results = calls[j].results
    BY <1>4
  <2> QED
    BY <1>1, <1>2, <2>1, <2>2, TalkStays
<1> QED
  BY <1>7, <1>8 DEF TurnInv

\* The steps of a call that has taken its place.
LEMMA BecomesTurn ==
    ASSUME IInv, TurnInv, NEW k \in Calls, NEW w \in CallPcs \ {"installed"}, Becomes(k, w),
           calls[k].pc # "installed", UNCHANGED <<pc, cur, receiving, workVars>>,
           w # "receipt", w \in {"wait", "abandoned"} /\ calls[k].kind = "generate" => used',
           used => used',
           \A j \in Calls : pc \notin Ending /\ Holds(j)' =>
              busy' /\ (Holds(j) \/ \A i \in Calls : Holds(i)' => i = j),
           \A j \in Calls : pc \notin Ending /\ calls[j].kind = "install" /\
              (commands' = <<j>> \/ (pc = "install" /\ cur = j)) => ~used'
    PROVE  TurnInv'
<1>1. Types /\ CommandInv /\ HoldInv /\ UsedInv /\ TalkInv /\ RightInv
  BY DEF IInv, TurnInv
<1>2. /\ calls'[k].pc = w /\ \A j \in Calls : calls'[j].kind = calls[j].kind
      /\ \A j \in Calls : j # k => calls'[j] = calls[j]
  BY <1>1, BecomesFacts DEF Becomes
<1>3. \A j \in Calls : calls'[j].results = calls[j].results
  BY <1>1, BecomesResults
<1>4. TalkInv' /\ RightInv'
  <2>1. \A j \in Calls : calls'[j].pc = "installed" <=> calls[j].pc = "installed"
    BY <1>2
  <2>2. UNCHANGED <<pc, cur, workVars>>
    OBVIOUS
  <2> QED
    BY <1>1, <1>3, <2>1, <2>2, TalkStays
<1>5. HoldInv' /\ UsedInv'
  <2>1. UNCHANGED <<pc, cur, receiving, conversation>>
    BY DEF workVars
  <2>2. pc \in {"generate", "refuse", "receipt"} => calls'[cur].kind = calls[cur].kind
    <3>1. pc \in {"generate", "refuse", "receipt"} => pc \in Taken
      BY DEF Taken
    <3> QED
      BY <1>1, <1>2, <3>1 DEF CommandInv
  <2>3. /\ calls'[k].pc = "receipt" => calls'[k].kind = "generate"
        /\ calls'[k].pc = "installed" => used'
        /\ calls'[k].kind = "generate" /\ calls'[k].pc \in {"wait", "abandoned", "receipt"} => used'
    BY <1>2
  <2>4. \A j \in Calls : pc \notin Ending /\ calls'[j].kind = "install" /\
           (commands' = <<j>> \/ (pc = "install" /\ cur = j)) => ~used'
    BY <1>2
  <2> QED
    BY <1>1, <1>2, <2>1, <2>2, <2>3, <2>4, CallMoves
<1> QED
  BY <1>4, <1>5 DEF TurnInv

LEMMA CallerTurns ==
    ASSUME IInv, TurnInv, NEW k \in Calls, Caller(k) \/ Abandon(k)
    PROVE  TurnInv'
<1>1. Types /\ CommandInv /\ HoldInv /\ UsedInv
  BY DEF IInv, TurnInv
<1>2. /\ {"busy", "send", "invalid", "wait", "closed", "abandoned"} \subseteq CallPcs \ {"installed"}
      /\ "receipt" \notin {"busy", "send", "invalid", "wait", "closed", "abandoned"}
  BY DEF CallPcs, Left, Returned
<1>3. ASSUME NEW w \in CallPcs, Becomes(k, w)
      PROVE  calls'[k].pc = w /\ \A j \in Calls : j # k => calls'[j] = calls[j]
  BY <1>1, <1>3, BecomesFacts DEF Becomes
<1>4. CASE Reserve(k)
  <2>1. PICK w \in {"busy", "send"} : Becomes(k, w) /\ (w = "send" <=> ~busy)
    BY <1>4 DEF Reserve
  <2>2. /\ calls[k].pc = "reserve" /\ commands' = commands /\ busy' = TRUE /\ used' = used
        /\ UNCHANGED <<pc, cur, receiving, workVars>> /\ pc' = pc /\ cur' = cur
    BY <1>4 DEF Reserve
  <2>3. calls'[k].pc = w /\ \A j \in Calls : j # k => calls'[j] = calls[j]
    BY <1>2, <1>3, <2>1
  <2>4. \A j \in Calls : Holds(j)' => Holds(j) \/ (j = k /\ ~busy)
    BY <2>1, <2>2, <2>3 DEF Holds
  <2>5. \A j \in Calls : pc \notin Ending /\ Holds(j)' =>
           busy' /\ (Holds(j) \/ \A i \in Calls : Holds(i)' => i = j)
    BY <1>1, <2>2, <2>4 DEF HoldInv
  <2>6. \A j \in Calls : pc \notin Ending /\ calls[j].kind = "install" /\
           (commands' = <<j>> \/ (pc = "install" /\ cur = j)) => ~used'
    BY <1>1, <2>2 DEF UsedInv
  <2>7. w \in CallPcs \ {"installed"} /\ w \notin {"wait", "abandoned", "receipt"}
    BY <1>2
  <2> QED
    BY <2>1, <2>2, <2>5, <2>6, <2>7, BecomesTurn
<1>5. CASE InstallRefused(k)
  <2>1. /\ calls[k].pc = "send" /\ commands' = commands /\ used' = used /\ Becomes(k, "invalid")
        /\ UNCHANGED <<pc, cur, receiving, workVars>> /\ pc' = pc /\ cur' = cur
    BY <1>5 DEF InstallRefused
  <2>2. calls'[k].pc = "invalid" /\ \A j \in Calls : j # k => calls'[j] = calls[j]
    BY <1>2, <1>3, <2>1
  <2>3. Holds(k) /\ commands # <<k>> /\ ~(pc \in Serving /\ cur = k)
    BY <1>1, <2>1, ServedFacts DEF Holds, CommandInv, Unanswered
  <2>4. \A j \in Calls : Holds(j)' => Holds(j) /\ j # k
    BY <2>1, <2>2, <2>3 DEF Holds
  <2>5. \A j \in Calls : pc \notin Ending /\ Holds(j)' =>
           busy' /\ (Holds(j) \/ \A i \in Calls : Holds(i)' => i = j)
    BY <1>1, <2>3, <2>4 DEF HoldInv
  <2>6. \A j \in Calls : pc \notin Ending /\ calls[j].kind = "install" /\
           (commands' = <<j>> \/ (pc = "install" /\ cur = j)) => ~used'
    BY <1>1, <2>1 DEF UsedInv
  <2> QED
    BY <1>2, <2>1, <2>5, <2>6, BecomesTurn
<1>6. CASE Submit(k)
  <2>1. /\ calls[k].pc = "send" /\ commands' = <<k>> /\ Becomes(k, "wait") /\ busy' = busy
        /\ used' = (used \/ calls[k].kind = "generate") /\ ~(calls[k].kind = "install" /\ used)
        /\ UNCHANGED <<pc, cur, receiving, workVars>> /\ pc' = pc /\ cur' = cur
    BY <1>6 DEF Submit
  <2>2. calls'[k].pc = "wait" /\ \A j \in Calls : j # k => calls'[j] = calls[j]
    BY <1>2, <1>3, <2>1
  <2>3. Holds(k) /\ \A j \in Calls : <<k>> = <<j>> => j = k
    BY <2>1, SMT DEF Holds
  <2>4. \A j \in Calls : Holds(j)' => Holds(j)
    BY <2>1, <2>2, <2>3 DEF Holds
  <2>5. \A j \in Calls : pc \notin Ending /\ Holds(j)' =>
           busy' /\ (Holds(j) \/ \A i \in Calls : Holds(i)' => i = j)
    BY <1>1, <2>1, <2>4 DEF HoldInv
  <2>6. ASSUME NEW j \in Calls, pc \notin Ending, calls[j].kind = "install",
               commands' = <<j>> \/ (pc = "install" /\ cur = j)
        PROVE  ~used'
    <3>1. CASE commands' = <<j>>
      BY <2>1, <2>3, <2>6, <3>1
    <3>2. CASE pc = "install" /\ cur = j
      <4>1. pc \in Serving
        BY <3>2 DEF Serving
      <4>2. Holds(j) /\ calls[j].pc # "send"
        BY <3>2, <4>1, ServedFacts DEF Holds
      <4>3. j = k
        BY <1>1, <2>3, <2>6, <4>2 DEF HoldInv
      <4> QED
        BY <2>1, <4>2, <4>3
    <3> QED
      BY <2>6, <3>1, <3>2
  <2>7. (used => used') /\ (calls[k].kind = "generate" => used')
    BY <2>1
  <2> QED
    BY <1>2, <2>1, <2>5, <2>6, <2>7, BecomesTurn
<1>7. CASE SubmitFails(k)
  <2>1. /\ calls[k].pc = "send" /\ commands' = commands /\ Becomes(k, "closed") /\ ~receiving
        /\ UNCHANGED <<pc, cur, receiving, workVars>> /\ (used' = TRUE \/ used' = used)
    BY <1>7 DEF SubmitFails
  <2>2. pc \in Ending
    BY <1>1, <2>1 DEF HoldInv, Ending
  <2>3. used => used'
    BY <2>1
  <2> QED
    BY <1>2, <2>1, <2>2, <2>3, BecomesTurn
<1>8. CASE Abandon(k)
  <2>1. /\ calls[k].pc = "wait" /\ commands' = commands /\ Becomes(k, "abandoned") /\ busy' = busy
        /\ used' = used /\ UNCHANGED <<pc, cur, receiving, workVars>> /\ pc' = pc /\ cur' = cur
    BY <1>8 DEF Abandon
  <2>2. calls'[k].pc = "abandoned" /\ \A j \in Calls : j # k => calls'[j] = calls[j]
    BY <1>2, <1>3, <2>1
  <2>3. \A j \in Calls : Holds(j)' => Holds(j)
    BY <2>1, <2>2 DEF Holds
  <2>4. \A j \in Calls : pc \notin Ending /\ Holds(j)' =>
           busy' /\ (Holds(j) \/ \A i \in Calls : Holds(i)' => i = j)
    BY <1>1, <2>1, <2>3 DEF HoldInv
  <2>5. \A j \in Calls : pc \notin Ending /\ calls[j].kind = "install" /\
           (commands' = <<j>> \/ (pc = "install" /\ cur = j)) => ~used'
    BY <1>1, <2>1 DEF UsedInv
  <2>6. calls[k].kind = "generate" => used'
    BY <1>1, <2>1 DEF UsedInv
  <2> QED
    BY <1>2, <2>1, <2>4, <2>5, <2>6, BecomesTurn
<1> QED
  BY <1>4, <1>5, <1>6, <1>7, <1>8 DEF Caller

\* The session is closed, or its last handle or the stream dropped; events are read.
LEMMA OutsideTurns ==
    ASSUME IInv, TurnInv, Close \/ DropControl \/ Consumer \/ DropStream
    PROVE  TurnInv'
<1>1. /\ pc' = pc /\ cur' = cur /\ calls' = calls /\ commands' = commands /\ used' = used
      /\ busy' = busy /\ receiving' = receiving /\ UNCHANGED workVars
  BY DEF Close, DropControl, Consumer, Receive, EndStream, DropStream, callVars
<1>2. conversation' = conversation
  BY <1>1 DEF workVars
<1>3. HoldInv /\ UsedInv /\ TalkInv /\ RightInv
  BY DEF TurnInv
<1>4. HoldInv' /\ UsedInv'
  BY <1>1, <1>2, <1>3, FlagStays
<1>5. TalkInv' /\ RightInv'
  BY <1>1, <1>3, TalkStays
<1> QED
  BY <1>4, <1>5 DEF TurnInv

-----------------------------------------------------------------------------
(***************************************************************************)
(* The worker.                                                             *)
(***************************************************************************)

\* Its loop and its end.
LEMMA LoopTurns ==
    ASSUME IInv, TurnInv, Stop \/ Exit \/ DropSink \/ IdleWire
    PROVE  TurnInv'
<1>1. /\ pc \in {"select", "exit", "drop"} /\ pc' \in {"exit", "drain", "done"}
      /\ pc = "drop" => pc' = "done"
      /\ cur' = cur /\ calls' = calls /\ commands' = commands /\ used' = used
      /\ receiving' = receiving /\ UNCHANGED workVars
  BY DEF Stop, Exit, DropSink, IdleWire, callVars
<1>2. /\ pc' \in Ending /\ pc' \notin Serving /\ pc # "done"
      /\ pc' \notin Whole \cup {"installed", "receive", "emit", "free", "finish"}
      /\ pc' \notin {"install", "installed", "generate", "refuse", "receipt"}
  BY <1>1 DEF Ending, Serving, Driving, Whole
<1>3. conversation' = conversation
  BY <1>1 DEF workVars
<1>4. HoldInv /\ UsedInv /\ TalkInv /\ RightInv
  BY DEF TurnInv
<1>5. HoldInv' /\ UsedInv'
  <2>1. used' <=> used
    BY <1>1, SMT
  <2> QED
    BY <1>1, <1>2, <1>3, <1>4, <2>1, PlaceMoves
<1>6. TalkInv' /\ RightInv'
  BY <1>1, <1>2, <1>4, TalkMoves
<1> QED
  BY <1>5, <1>6 DEF TurnInv

LEMMA DrainTurn ==
    ASSUME IInv, TurnInv, Drain
    PROVE  TurnInv'
<1>1. /\ pc' = "drop" /\ cur' = cur /\ used' = used /\ UNCHANGED workVars
      /\ calls' = [k \in Calls |-> [calls[k] EXCEPT !.pc = Drained(k)]]
  BY DEF Drain
<1>2. HoldInv /\ UsedInv /\ TalkInv /\ RightInv /\ calls \in [Calls -> Asked]
  BY DEF TurnInv, IInv, Types
<1>3. ASSUME NEW k \in Calls
      PROVE  /\ calls'[k].kind = calls[k].kind /\ calls'[k].results = calls[k].results
             /\ calls'[k].pc = calls[k].pc \/ calls'[k].pc = "closed"
             /\ calls[k].pc = "installed" => calls'[k].pc = "installed"
  <2>1. PICK r, w : r \in Asked /\ r = calls[k] /\ w = Drained(k) /\ calls'[k] = [r EXCEPT !.pc = w]
    BY <1>1, <1>2
  <2>2. (w = r.pc \/ w = "closed") /\ (r.pc = "installed" => w = "installed")
    BY <2>1 DEF Drained
  <2>3. /\ [r EXCEPT !.pc = w].kind = r.kind /\ [r EXCEPT !.pc = w].results = r.results
        /\ [r EXCEPT !.pc = w].pc = w
    BY <2>1, SMT DEF Asked
  <2> QED
    BY <2>1, <2>2, <2>3
<1>4. "drop" \in Ending /\ "drop" \notin Whole
  BY DEF Ending, Whole
<1>5. HoldInv'
  BY <1>1, <1>4 DEF HoldInv
<1>6. conversation' = conversation /\ sent' = sent /\ answers' = answers
  BY <1>1 DEF workVars
<1>7. UsedInv'
  <2>1. used' <=> used
    BY <1>1, SMT
  <2> QED
    BY <1>1, <1>2, <1>3, <1>4, <1>6, <2>1 DEF UsedInv
<1>8. \A k \in Calls : calls'[k].pc = "installed" <=> calls[k].pc = "installed"
  BY <1>3
<1>9. TalkInv' /\ RightInv'
  BY <1>1, <1>2, <1>3, <1>4, <1>6, <1>8, TalkKeeps
<1> QED
  BY <1>5, <1>7, <1>9 DEF TurnInv

LEMMA TakeTurn ==
    ASSUME IInv, TurnInv, TakeCommand
    PROVE  TurnInv'
<1>1. Types /\ CommandInv /\ HoldInv /\ UsedInv /\ TalkInv /\ RightInv
  BY DEF IInv, TurnInv
<1>2. PICK k \in Calls : commands = <<k>>
  BY <1>1 DEF Types, TakeCommand
<1>3. Head(commands) = k /\ Tail(commands) = <<>> /\ (\A j \in Calls : <<>> # <<j>>)
  BY <1>2, SMT
<1>4. /\ pc = "select" /\ cur' = k /\ commands' = <<>> /\ pc' = calls[k].kind
      /\ calls' = calls /\ busy' = busy /\ used' = used /\ receiving' = receiving
      /\ UNCHANGED workVars
  BY <1>3 DEF TakeCommand
<1>5. calls[k].kind \in {"generate", "install"}
  <2>1. calls[k].kind \in {"none", "generate", "install"}
    BY <1>1, SMT DEF Types, Asked
  <2> QED
    BY <1>1, <1>2, <2>1 DEF CommandInv
<1>6. conversation' = conversation /\ sent' = sent /\ answers' = answers
  BY <1>4 DEF workVars
<1>7. /\ pc \notin Ending /\ pc' \notin Ending /\ pc' \in Serving /\ pc \in Whole /\ pc' \in Whole
      /\ pc' \in {"generate", "install"}
  BY <1>4, <1>5 DEF Ending, Serving, Whole
<1>8. HoldInv'
  <2>1. \A j \in Calls : Holds(j)' => Holds(j)
    BY <1>2, <1>3, <1>4 DEF Holds
  <2>2. receiving
    BY <1>1, <1>4 DEF HoldInv
  <2>3. receiving' /\ (busy <=> busy')
    BY <1>4, <2>2, SMT
  <2> QED
    BY <1>1, <1>7, <2>1, <2>3 DEF HoldInv
<1>9. UsedInv'
  <2>1. used' <=> used
    BY <1>4, SMT
  <2>2. calls[k].kind = "install" => ~used
    BY <1>1, <1>2, <1>7 DEF UsedInv
  <2> QED
    BY <1>1, <1>3, <1>4, <1>6, <1>7, <2>1, <2>2 DEF UsedInv
<1>10. TalkInv' /\ RightInv'
  <2>1. Continued(conversation, Replay, sent, answers, Len(sent))
    BY <1>1, <1>7 DEF TalkInv
  <2> QED
    BY <1>1, <1>4, <1>6, <1>7, <2>1, TalkKeeps
<1> QED
  BY <1>8, <1>9, <1>10 DEF TurnInv

LEMMA InstallTurn ==
    ASSUME IInv, TurnInv, NEW valid \in BOOLEAN, InstallReplay(valid)
    PROVE  TurnInv'
<1>1. Types /\ CommandInv /\ HoldInv /\ UsedInv /\ TalkInv /\ RightInv
  BY DEF IInv, TurnInv
<1>2. TalkInv' /\ RightInv'
  BY <1>1, InstallTalk
<1>3. /\ pc = "install" /\ cur' = cur /\ calls' = calls /\ commands' = commands
      /\ receiving' = receiving
  BY DEF InstallReplay
<1>4. pc \in Serving /\ pc \in Taken /\ pc \notin Ending /\ pc \notin {"drop", "done"}
  BY <1>3 DEF Serving, Taken, Ending
<1>5. CASE ~(valid /\ ~cancel /\ ~Abandoned)
  <2>1. /\ conversation' = conversation /\ pc' \in {"exit", "invalid"} /\ (used' <=> used)
        /\ pc' = "exit" \/ busy' = FALSE
    <3>1. CASE cancel \/ Abandoned
      <4>1. used' = used /\ pc' = "exit" /\ conversation' = conversation
        BY <3>1 DEF InstallReplay
      <4>2. used' <=> used
        BY <4>1, SMT
      <4> QED
        BY <4>1, <4>2
    <3>2. CASE ~(cancel \/ Abandoned)
      <4>1. ~valid
        BY <1>5, <3>2
      <4>2. used' = (used \/ valid) /\ pc' = "invalid" /\ busy' = FALSE /\ conversation' = conversation
        BY <3>2, <4>1 DEF InstallReplay
      <4> QED
        BY <4>1, <4>2
    <3> QED
      BY <3>1, <3>2
  <2>2. /\ pc' \notin Serving /\ (pc' = "exit" => pc' \in Ending)
        /\ pc' \notin {"install", "installed", "generate", "refuse", "receipt"}
    BY <2>1 DEF Serving, Driving, Ending
  <2>3. HoldInv' /\ UsedInv'
    BY <1>1, <1>3, <1>4, <2>1, <2>2, PlaceMoves
  <2> QED
    BY <1>2, <2>3 DEF TurnInv
<1>6. CASE valid /\ ~cancel /\ ~Abandoned
  <2>1. conversation' = Restored /\ pc' = "installed" /\ used'
    BY <1>6 DEF InstallReplay
  <2>2. pc' \notin Serving /\ pc' \notin Ending
    BY <2>1 DEF Serving, Driving, Ending
  <2>3. Holds(cur) /\ cur \in Calls /\ calls[cur].pc # "send" /\ commands # <<cur>>
    BY <1>4, ServedFacts DEF Holds
  <2>4. \A k \in Calls : ~Holds(k)'
    <3>1. SUFFICES ASSUME NEW k \in Calls, Holds(k)' PROVE FALSE
      OBVIOUS
    <3>2. Holds(k)
      BY <1>3, <2>2, <3>1 DEF Holds
    <3>3. k = cur
      BY <1>1, <1>4, <2>3, <3>2 DEF HoldInv
    <3> QED
      BY <1>3, <2>2, <2>3, <3>1, <3>3 DEF Holds
  <2>5. receiving'
    <3>1. receiving
      BY <1>1, <1>4 DEF HoldInv
    <3> QED
      BY <1>3, <3>1, SMT
  <2>6. HoldInv'
    BY <2>4, <2>5 DEF HoldInv
  <2>7. \A k \in Calls : commands' # <<k>>
    BY <2>4 DEF Holds
  <2>8. UsedInv'
    BY <1>1, <1>3, <2>1, <2>7 DEF UsedInv
  <2> QED
    BY <1>2, <2>6, <2>8 DEF TurnInv
<1> QED
  BY <1>5, <1>6

\* The replies to an installation and to a refused request.
LEMMA ReplyTurns ==
    ASSUME IInv, TurnInv, Acknowledge \/ Refuse
    PROVE  TurnInv'
<1>1. Types /\ CommandInv /\ HoldInv /\ UsedInv /\ TalkInv /\ RightInv
  BY DEF IInv, TurnInv
<1>2. /\ pc \in {"installed", "invalid", "refuse"} /\ pc' \in {"select", "exit"}
      /\ cur' = cur /\ commands' = commands /\ used' = used /\ busy' = busy
      /\ receiving' = receiving /\ UNCHANGED workVars
  BY DEF Acknowledge, Refuse
<1>3. conversation' = conversation /\ sent' = sent /\ answers' = answers
  BY <1>2 DEF workVars
<1>4. PICK w \in {"installed", "invalid"} : Reply(w) /\ (w = "installed" => pc = "installed")
  BY <1>2 DEF Acknowledge, Refuse
<1>5. /\ pc \in Taken /\ pc \notin Ending /\ pc \notin {"drop", "done"} /\ w \in Returned
      /\ pc' \notin Serving
      /\ pc' \notin {"install", "installed", "receive", "emit", "free", "finish", "generate", "refuse",
                     "receipt", "send", "write"}
  BY <1>2 DEF Taken, Ending, Returned, Serving, Driving
<1>6. /\ cur \in Calls
      /\ \A j \in Calls : calls'[j].kind = calls[j].kind
      /\ \A j \in Calls : j # cur => calls'[j] = calls[j]
      /\ IF Abandoned THEN calls' = calls ELSE calls'[cur].pc = w
  BY <1>4, <1>5, ReplyFacts
<1>7. \A j \in Calls : calls'[j] = calls[j] \/ (j = cur /\ calls'[j].pc = w)
  BY <1>6
<1>8. HoldInv'
  <2>1. \A j \in Calls : Holds(j)' => Holds(j)
    BY <1>2, <1>4, <1>5, <1>7 DEF Holds
  <2>2. (receiving' <=> receiving) /\ (busy' <=> busy)
    BY <1>2, SMT
  <2> QED
    BY <1>1, <1>5, <2>1, <2>2 DEF HoldInv
<1>9. UsedInv'
  <2>1. used' <=> used
    BY <1>2, SMT
  <2>2. w = "installed" => used
    BY <1>1, <1>4 DEF UsedInv
  <2> QED
    BY <1>1, <1>2, <1>3, <1>4, <1>5, <1>6, <1>7, <2>1, <2>2 DEF UsedInv
<1>10. TalkInv' /\ RightInv'
  <2>1. CASE Acknowledge
    BY <1>1, <2>1, AcknowledgeTalk
  <2>2. CASE Refuse
    <3>1. pc = "refuse" /\ Reply("invalid")
      BY <2>2 DEF Refuse
    <3>2. Continued(conversation, Replay, sent, answers, Len(sent))
      BY <1>1, <3>1 DEF TalkInv, Whole
    <3>3. \A j \in Calls : calls'[j].results = calls[j].results
      BY <1>1, <1>6, <3>1, ReplyResults
    <3>4. \A j \in Calls : calls'[j].pc = "installed" <=> calls[j].pc = "installed"
      <4>1. calls[cur].pc # "installed" /\ w = "invalid"
        BY <1>1, <1>4, <1>5, <3>1 DEF CommandInv, Unanswered
      <4> QED
        BY <1>7, <4>1
    <3> QED
      BY <1>1, <1>3, <1>5, <3>2, <3>3, <3>4, TalkKeeps
  <2> QED
    BY <2>1, <2>2
<1> QED
  BY <1>8, <1>9, <1>10 DEF TurnInv

LEMMA PrepareTurn ==
    ASSUME IInv, TurnInv, Prepare
    PROVE  TurnInv'
<1>1. Types /\ CommandInv /\ HoldInv /\ UsedInv /\ TalkInv /\ RightInv
  BY DEF IInv, TurnInv
<1>2. /\ pc = "generate" /\ pc' \in {"receipt", "refuse"} /\ cur' = cur /\ calls' = calls
      /\ commands' = commands /\ used' = used /\ receiving' = receiving /\ UNCHANGED workVars
      /\ (pc' = "receipt" /\ busy' = busy /\ Prepared(cur)) \/ (pc' = "refuse" /\ busy' = FALSE)
  BY DEF Prepare
<1>3. conversation' = conversation /\ sent' = sent /\ answers' = answers
  BY <1>2 DEF workVars
<1>4. /\ pc \in Serving /\ pc \in Taken /\ pc \notin Ending /\ pc \notin {"drop", "done"}
      /\ pc' # "receipt" => pc' \notin Serving
      /\ pc \in Whole /\ pc' \in Whole
  BY <1>2 DEF Serving, Driving, Taken, Ending, Whole
<1>5. HoldInv' /\ UsedInv'
  <2>1. used' <=> used
    BY <1>2, SMT
  <2> QED
    BY <1>1, <1>2, <1>3, <1>4, <2>1, PlaceMoves
<1>6. TalkInv' /\ RightInv'
  <2>1. Continued(conversation, Replay, sent, answers, Len(sent))
    BY <1>1, <1>4 DEF TalkInv
  <2>2. pc' = "receipt" => /\ calls[cur].results = conversation.pending_calls
                           /\ ~conversation.advanced_output
    BY <1>2 DEF Prepared
  <2>3. cur \in Calls /\ calls[cur].pc # "unborn"
    BY <1>1, <1>4 DEF CommandInv, Unanswered
  <2> QED
    BY <1>1, <1>2, <1>3, <2>1, <2>2, <2>3, TalkKeeps
<1> QED
  BY <1>5, <1>6 DEF TurnInv

LEMMA ReceiptTurn ==
    ASSUME IInv, TurnInv, Receipt
    PROVE  TurnInv'
<1>1. Types /\ CommandInv /\ SentInv /\ HoldInv /\ UsedInv /\ TalkInv /\ RightInv
  BY DEF IInv, TurnInv
<1>2. /\ pc = "receipt" /\ Reply("receipt") /\ cur' = cur /\ commands' = commands
      /\ used' = used /\ receiving' = receiving /\ conversation' = conversation
      /\ sent' = sent /\ answers' = answers
      /\ IF Abandoned THEN pc' = "select" /\ busy' = FALSE ELSE pc' = "send" /\ busy' = busy
  BY DEF Receipt, Declined
<1>3. /\ pc \in Serving /\ pc \in Taken /\ pc \notin Ending /\ pc \notin {"drop", "done"}
      /\ "receipt" \in Returned /\ pc \in Whole /\ "select" \notin Serving /\ "send" \in Serving
      /\ "send" \notin Ending
  BY <1>2 DEF Serving, Driving, Taken, Ending, Returned, Whole
<1>4. /\ cur \in Calls /\ calls[cur].pc \in {"wait", "abandoned"}
      /\ \A j \in Calls : calls'[j].kind = calls[j].kind
      /\ \A j \in Calls : j # cur => calls'[j] = calls[j]
      /\ IF Abandoned THEN calls' = calls ELSE calls'[cur].pc = "receipt"
  BY <1>1, <1>2, <1>3, ReplyFacts DEF CommandInv, Unanswered
<1>5. TalkInv' /\ RightInv'
  <2>1. Continued(conversation, Replay, sent, answers, Len(sent))
    BY <1>1, <1>3 DEF TalkInv
  <2>2. /\ calls[cur].results = conversation.pending_calls /\ ~conversation.advanced_output
    BY <1>1, <1>2 DEF TalkInv
  <2>3. \A j \in Calls : calls'[j].results = calls[j].results
    BY <1>1, <1>2, <1>4, ReplyResults
  <2>4. \A j \in 1..Len(sent) : sent[j].call # cur
    BY <1>1, <1>4 DEF SentInv
  <2>5. \A j \in Calls : calls'[j].pc = "installed" <=> calls[j].pc = "installed"
    BY <1>4
  <2>6. pc' \in {"select", "send"}
    BY <1>2
  <2> QED
    BY <1>1, <1>2, <1>4, <2>1, <2>2, <2>3, <2>4, <2>5, <2>6, TalkKeeps
<1>6. used' <=> used
  BY <1>2, SMT
<1>7. CASE Abandoned
  <2>1. HoldInv' /\ UsedInv'
    BY <1>1, <1>2, <1>3, <1>4, <1>6, <1>7, PlaceMoves
  <2> QED
    BY <1>5, <2>1 DEF TurnInv
<1>8. CASE ~Abandoned
  <2>1. /\ pc' = "send" /\ calls'[cur].pc = "receipt" /\ (busy' <=> busy) /\ (receiving' <=> receiving)
    BY <1>2, <1>4, <1>8, SMT
  <2>2. \A j \in Calls : Holds(j)' => Holds(j)
    BY <1>2, <1>3, <1>4, <2>1 DEF Holds
  <2>3. HoldInv'
    BY <1>1, <1>3, <2>1, <2>2 DEF HoldInv
  <2>4. calls[cur].kind = "generate" /\ used
    BY <1>1, <1>2, <1>4 DEF UsedInv
  <2>5. UsedInv'
    BY <1>1, <1>2, <1>3, <1>4, <1>6, <2>1, <2>4 DEF UsedInv
  <2> QED
    BY <1>5, <2>3, <2>5 DEF TurnInv
<1> QED
  BY <1>7, <1>8

\* While a request is served, the flag changes only when the request is over.
LEMMA RequestFlag ==
    ASSUME IInv, TurnInv, Request
    PROVE  HoldInv' /\ UsedInv'
<1>1. HoldInv /\ UsedInv
  BY DEF TurnInv
<1>2. /\ pc \in Requesting /\ calls' = calls /\ commands' = commands /\ cur' = cur /\ used' = used
      /\ receiving' = receiving
      /\ busy' = busy \/ (pc \in {"free", "fail"} /\ pc' \in {"finish", "failed"})
      /\ pc' \in {"write", "receive", "emit", "free", "fail", "finish", "failed", "select", "exit"}
      /\ pc \in {"finish", "failed"} => pc' \in {"select", "exit"}
  BY DEF Request, Preflight, Write, Message, TerminalMessage, Emit, Settle, Abort, Free,
         PublishFinished, PublishFailed, callVars, Requesting, Driving
<1>3. /\ pc \notin Ending /\ pc \notin {"drop", "done"}
      /\ pc \in Serving \/ pc \in {"finish", "failed"}
      /\ {"finish", "failed", "select", "exit"} \cap Serving = {}
      /\ pc \in {"free", "fail"} => pc \in Serving
      /\ pc' \notin {"install", "installed", "generate", "refuse", "receipt"}
  BY <1>2 DEF Ending, Serving, Requesting, Driving
<1>4. used
  BY <1>1, <1>2 DEF IInv, OpenInv, UsedInv
<1>5. used' <=> used
  BY <1>2, SMT
<1>6. pc' \in Serving => pc \in Serving
  BY <1>2, <1>3
<1>7. busy' = busy \/ (pc \in Serving /\ pc' \notin Serving)
  BY <1>2, <1>3
<1>8. /\ calls' = calls /\ commands' = commands /\ cur' = cur /\ receiving' = receiving
      /\ pc' \notin {"install", "installed"} /\ pc' \notin {"generate", "refuse", "receipt"}
  BY <1>2, <1>3
<1> QED
  BY <1>1, <1>3, <1>4, <1>5, <1>6, <1>7, <1>8, PlaceMoves

\* Decoding and publishing leave the conversation alone.
LEMMA RequestTalk ==
    ASSUME IInv, TalkInv, RightInv,
           \/ Preflight \/ Abort \/ Free \/ PublishFinished \/ PublishFailed \/ Emit
           \/ \E kind \in {"started", "content", "extension"}, id \in ResponseIds \cup {None} :
                 Message(kind, id)
    PROVE  TalkInv' /\ RightInv'
<1>1. CASE Abort \/ Free \/ PublishFinished \/ PublishFailed
  <2>1. /\ calls' = calls /\ cur' = cur /\ UNCHANGED workVars
        /\ \/ pc' \in {"fail", "failed", "exit"}
           \/ pc = "free" /\ pc' = "finish"
           \/ pc = "finish" /\ pc' = "select" /\ answers[cur].completed
    BY <1>1 DEF Abort, Free, PublishFinished, PublishFailed, Continues, callVars
  <2>2. pc' \in {"fail", "failed", "exit"} =>
          pc' \notin Whole \cup {"installed", "receive", "emit", "free", "finish"}
    BY DEF Whole
  <2> QED
    BY <2>1, <2>2, TalkMoves
<1>2. CASE Preflight
  <2>1. /\ pc = "send" /\ pc' = "write" /\ calls' = calls /\ cur' = cur /\ sent' = sent
        /\ answers' = answers /\ conversation' = conversation
    BY <1>2 DEF Preflight, callVars
  <2>2. /\ Continued(conversation, Replay, sent, answers, Len(sent))
        /\ \A j \in 1..Len(sent) : sent[j].call # cur
        /\ calls[cur].results = conversation.pending_calls /\ ~conversation.advanced_output
    BY <2>1 DEF TalkInv, Whole
  <2>3. cur \in Calls /\ calls[cur].pc # "unborn"
    <3>1. pc \in Requesting
      BY <2>1 DEF Requesting, Driving
    <3> QED
      BY <3>1 DEF IInv, OpenInv
  <2> QED
    BY <2>1, <2>2, <2>3, TalkKeeps
<1>3. CASE Emit
  <2>1. /\ pc = "emit" /\ pc' \in {"receive", "emit"} /\ calls' = calls /\ cur' = cur /\ sent' = sent
        /\ answers' = answers /\ conversation' = conversation /\ pending' = Tail(pending)
        /\ Head(pending) # "finished"
    BY <1>3 DEF Emit, callVars
  <2>2. pending' \in Terminals => answers[cur].id # None
    <3>1. <<>> # <<"finished">> /\ <<>> # <<"started", "finished">>
      BY SMT
    <3>2. pending = <<"started", "finished">> \/ pending' = <<>>
      BY <2>1, PendingFacts DEF IInv, StartInv
    <3> QED
      BY <2>1, <3>1, <3>2 DEF TalkInv, Terminals
  <2>3. pc' \notin Whole \cup {"installed", "free", "finish", "send", "write", "receipt"}
    BY <2>1 DEF Whole
  <2> QED
    BY <2>1, <2>2, <2>3, TalkKeeps
<1>4. CASE \E kind \in {"started", "content", "extension"}, id \in ResponseIds \cup {None} :
              Message(kind, id)
  <2>1. PICK kind \in {"started", "content", "extension"} :
          /\ pc = "receive" /\ pc' = "emit" /\ calls' = calls /\ cur' = cur /\ sent' = sent
          /\ answers' = answers /\ conversation' = conversation /\ pending' = <<kind>>
    BY <1>4 DEF Message, callVars
  <2>2. pending' \notin Terminals
    BY <2>1, PendingFacts DEF Terminals
  <2>3. pc' \notin Whole \cup {"installed", "free", "finish", "send", "write", "receipt"}
    BY <2>1 DEF Whole
  <2> QED
    BY <2>1, <2>2, <2>3, TalkKeeps
<1> QED
  BY <1>1, <1>2, <1>3, <1>4

LEMMA RequestTurns ==
    ASSUME IInv, TurnInv, Request
    PROVE  TurnInv'
<1>1. HoldInv' /\ UsedInv'
  BY RequestFlag
<1>2. TalkInv /\ RightInv
  BY DEF TurnInv
<1>3. TalkInv' /\ RightInv'
  <2>1. CASE \/ Preflight \/ Abort \/ Free \/ PublishFinished \/ PublishFailed \/ Emit
             \/ \E kind \in {"started", "content", "extension"}, id \in ResponseIds \cup {None} :
                   Message(kind, id)
    BY <1>2, <2>1, RequestTalk
  <2>2. CASE \E ok \in BOOLEAN : Write(ok)
    BY <1>2, <2>2, WriteTalk
  <2>3. CASE \E answer \in Answer : TerminalMessage(answer)
    BY <1>2, <2>3, TerminalTalk
  <2>4. CASE Settle
    BY <1>2, <2>4, SettleTalk
  <2> QED
    BY <2>1, <2>2, <2>3, <2>4 DEF Request
<1> QED
  BY <1>1, <1>3 DEF TurnInv

LEMMA InitTurns == Init => TurnInv
<1> SUFFICES ASSUME Init PROVE TurnInv
  OBVIOUS
<1>1. /\ receiving = TRUE /\ used = FALSE /\ pc = "select" /\ commands = <<>> /\ sent = <<>>
      /\ conversation = Fresh /\ \A k \in Calls : calls[k] = NoCall
  BY DEF Init
<1>2. NoCall.pc = "unborn" /\ NoCall.kind = "none"
  BY DEF NoCall
<1>3. /\ pc \notin Ending /\ pc \notin Serving
  BY <1>1 DEF Ending, Serving, Driving
<1>4. \A k \in Calls : <<>> # <<k>>
  BY SMT
<1>5. \A k \in Calls : ~Holds(k)
  BY <1>1, <1>2, <1>3, <1>4 DEF Holds
<1>6. HoldInv
  BY <1>1, <1>5 DEF HoldInv
<1>7. UsedInv
  BY <1>1, <1>2, <1>4 DEF UsedInv
<1>8. Len(sent) = 0 /\ (\A j \in 1..Len(sent) : FALSE) /\ (\A j \in 1..0 : FALSE) /\ ~(0 > 0)
      /\ 2 * 0 = 0
  BY <1>1, SMT
<1>9. Continued(conversation, Replay, sent, answers, 0)
  <2>1. Replay = <<>>
    BY <1>1, <1>2 DEF Replay, Replayed
  <2>2. Turns(sent, 0) = <<>>
    BY NoTurns
  <2>3. <<>> \o <<>> = <<>>
    BY SMT
  <2>4. /\ Fresh.history = <<>> /\ Fresh.last_response = None /\ Fresh.pending_calls = {}
        /\ Fresh.advanced_output = FALSE
    BY DEF Fresh
  <2> QED
    BY <1>1, <1>8, <2>1, <2>2, <2>3, <2>4 DEF Continued
<1>10. TalkInv
  BY <1>1, <1>8, <1>9 DEF TalkInv, Whole
<1>11. RightInv
  BY <1>8 DEF RightInv
<1> QED
  BY <1>6, <1>7, <1>10, <1>11 DEF TurnInv

LEMMA NextTurns == IInv /\ TurnInv /\ [Next]_vars => TurnInv'
<1> SUFFICES ASSUME IInv, TurnInv, [Next]_vars PROVE TurnInv'
  OBVIOUS
<1>1. CASE UNCHANGED vars
  <2>1. /\ pc' = pc /\ cur' = cur /\ calls' = calls /\ commands' = commands /\ used' = used
        /\ busy' = busy /\ receiving' = receiving /\ UNCHANGED workVars
    BY <1>1 DEF vars, callVars
  <2>2. conversation' = conversation
    BY <2>1 DEF workVars
  <2>3. HoldInv /\ UsedInv /\ TalkInv /\ RightInv
    BY DEF TurnInv
  <2>4. HoldInv' /\ UsedInv'
    BY <2>1, <2>2, <2>3, FlagStays
  <2>5. TalkInv' /\ RightInv'
    BY <2>1, <2>3, TalkStays
  <2> QED
    BY <2>4, <2>5 DEF TurnInv
<1>2. CASE \E k \in Calls :
             \/ \E results \in SUBSET CallIds : Call(k, "generate", results)
             \/ Call(k, "install", {})
  <2>1. {} \in SUBSET CallIds
    OBVIOUS
  <2> QED
    BY <1>2, <2>1, CallTurn
<1>3. CASE Worker
  BY <1>3, LoopTurns, DrainTurn, TakeTurn, InstallTurn, ReplyTurns, PrepareTurn, ReceiptTurn,
     RequestTurns DEF Worker
<1>4. CASE (\E k \in Calls : Caller(k) \/ Abandon(k)) \/ Close \/ DropControl \/ Consumer
           \/ DropStream
  BY <1>4, CallerTurns, OutsideTurns
<1>5. CASE IdleWire
  BY <1>5, LoopTurns
<1> QED
  BY <1>1, <1>2, <1>3, <1>4, <1>5 DEF Next

\* On both transports, the provider's context of every request is the conversation so
\* far, the acknowledged replay first and every completed turn once, and the request
\* carries the results of exactly the calls that the turn before it made.
THEOREM Continuation == Spec => []RequestsContinue
<1>1. Init => TurnInv
  BY InitTurns
<1>2. IInv /\ TurnInv /\ [Next]_vars => TurnInv'
  BY NextTurns
<1>3. TurnInv => RequestsContinue
  BY RightContinues DEF TurnInv
<1> QED
  BY <1>1, <1>2, <1>3, Invariant, PTL DEF Spec
===============================================================================
