------------------------------ MODULE HttpProofs ------------------------------
(***************************************************************************)
(* Theorems about HttpCommands, for any commands, operations and number of *)
(* requests, about HttpService, for any sockets, page size and length of   *)
(* the session's history, and about HttpRequest, for any altered fields.   *)
(***************************************************************************)
EXTENDS HttpCommands, Sequences, SequenceTheorems, WellFoundedInduction, TLAPS

\* Most steps are first-order; the ones with records cite SMT.
USE ZenonT(60)

-----------------------------------------------------------------------------
(***************************************************************************)
(* The invariant.                                                          *)
(***************************************************************************)

Serving == {"lookup", "prepare", "write", "wait", "refresh", "reconcile"}
Accepted == {"acceptance", "committed", "cleanup", "failed_later"}

Handler == [pc : {"idle", "answered", "gone"} \cup Serving,
            command : Commands \cup {None}, reconciles : BOOLEAN,
            observed : Errors \cup {None}, reply : Replies \cup {None}]
Worker == [pc : {"none"} \cup Live, command : Commands \cup {None}]
Ticket == {None, "acceptance"} \cup Completions
Phases == {"none", "sending", "reconciling", "uncertain", "rejected", "accepted", "conflict"}
Item == [phase : Phases, before : Phases, receipt : BOOLEAN, waiter : Attempts \cup {None}]

\* The operation is decided: by another command or, of a task, by another attempt.
Conflicts(c) == ledger[c.op] # None /\ (ledger[c.op] = c => c.kind = "task")

\* A request: its handler, what it dispatched, and what the ticket tells.
AttemptInv(a) ==
    /\ handler[a].pc \in Serving <=> handler[a].command # None
    /\ handler[a].reconciles => handler[a].pc = "lookup"
    /\ handler[a].pc \in {"idle"} \cup (Serving \ {"wait"}) => worker[a].command = None
    /\ worker[a].pc \in Live <=> worker[a].command # None
    /\ worker[a].command # None /\ handler[a].pc = "wait" =>
          worker[a].command = handler[a].command
    /\ worker[a].pc \in {"committed", "running"} => Recorded(worker[a].command)
    /\ ticket[a] # None => handler[a].pc = "wait"
    /\ ticket[a] \notin {None, "acceptance"} => worker[a].command = None
    /\ ticket[a] \in Accepted => Recorded(handler[a].command)
    /\ ticket[a] = "command_conflict" => Conflicts(handler[a].command)
    /\ handler[a].pc = "refresh" => Recorded(handler[a].command)
    /\ handler[a].pc = "reconcile" =>
          /\ handler[a].observed # None
          /\ handler[a].observed = "command_conflict" => Conflicts(handler[a].command)

\* Nothing but request w can still record the command.
OnlyBy(c, w) ==
    \A a \in Attempts : a # w => /\ worker[a].command # c
                                 /\ handler[a].command = c => handler[a].reconciles

\* The command is not recorded, and nothing that was sent can still record it.
Untouched(c) == ~Recorded(c) /\ OnlyBy(c, None)

\* What the first request of a command, or the first after a rejection, knows.
\* It has not recorded the command while its own dispatch has not reached the
\* acceptance, nor when it has been refused.
Spared(c, a) == ~Recorded(c) /\ worker[a].command = None

OwnInv(c, a) ==
    /\ OnlyBy(c, a)
    /\ handler[a].pc \in {"lookup", "prepare", "write"} => Spared(c, a)
    /\ handler[a].pc = "wait" /\ worker[a].pc \in {"open", "accept"} => ~Recorded(c)
    /\ ticket[a] \in Errors /\ ErrorView(ticket[a]) = "refused" => Spared(c, a)
    /\ handler[a].pc = "reconcile" /\ ErrorView(handler[a].observed) = "refused" => Spared(c, a)
    /\ handler[a].pc = "answered" /\ handler[a].reply = "refused" => Spared(c, a)

\* The browser waits for request a on behalf of command c.
Waited(c, a) ==
    /\ handler[a].pc \in Serving \cup {"answered"}
    /\ handler[a].pc # "answered" => handler[a].command = c
    /\ pending[c].phase = "sending" =>
          /\ ~handler[a].reconciles
          /\ handler[a].pc = "answered" => handler[a].reply # "not_found"
          /\ pending[c].before # "uncertain" => OwnInv(c, a)
    /\ pending[c].phase = "reconciling" => handler[a].reconciles \/ handler[a].pc = "answered"
    /\ handler[a].pc = "answered" =>
          /\ handler[a].reply = "accepted" => Recorded(c)
          /\ handler[a].reply = "conflict" => Conflicts(c)

\* A command of the browser.
ItemInv(c) ==
    /\ pending[c].waiter # None <=> pending[c].phase \in {"sending", "reconciling"}
    /\ pending[c].phase = "sending" => pending[c].before \in {"none", "uncertain", "rejected"}
    /\ pending[c].phase = "reconciling" =>
          pending[c].before \in {"uncertain", "rejected", "accepted"}
    /\ pending[c].receipt \/ "accepted" \in {pending[c].phase, pending[c].before} => Recorded(c)
    /\ pending[c].phase = "conflict" => Conflicts(c)
    /\ \/ pending[c].phase \in {"none", "rejected"}
       \/ pending[c].phase = "reconciling" /\ pending[c].before = "rejected"
       => Untouched(c)

\* No two commands wait for one request.
WaitersInv ==
    \A c, d \in Sent : pending[c].waiter = pending[d].waiter /\ pending[c].waiter # None => c = d

Types ==
    /\ ledger \in [Ops -> Commands \cup {None}]
    /\ handler \in [Attempts -> Handler]
    /\ worker \in [Attempts -> Worker]
    /\ ticket \in [Attempts -> Ticket]
    /\ Sent \subseteq Commands
    /\ pending \in [Sent -> Item]

IInv ==
    /\ Types
    /\ \A a \in Attempts : AttemptInv(a)
    /\ \A c \in Sent : ItemInv(c)
    /\ \A c \in Sent, a \in Attempts : pending[c].waiter = a => Waited(c, a)
    /\ WaitersInv

-----------------------------------------------------------------------------
(***************************************************************************)
(* Records.                                                                *)
(***************************************************************************)

\* A record of the type with another value in one field is of the type.
LEMMA HandlerFields ==
    ASSUME NEW h, h \in Handler
    PROVE  /\ \A p \in {"idle", "answered", "gone"} \cup Serving : [h EXCEPT !.pc = p] \in Handler
           /\ \A c \in Commands : [h EXCEPT !.command = c] \in Handler
           /\ \A g \in BOOLEAN : [h EXCEPT !.reconciles = g] \in Handler
           /\ \A e \in Errors : [h EXCEPT !.observed = e] \in Handler
           /\ \A r \in Replies : [h EXCEPT !.reply = r] \in Handler
BY DEF Handler

LEMMA ItemFields ==
    ASSUME NEW i, i \in Item
    PROVE  /\ \A f \in Phases : [i EXCEPT !.phase = f] \in Item
           /\ \A f \in Phases : [i EXCEPT !.before = f] \in Item
           /\ \A a \in Attempts : [i EXCEPT !.waiter = a] \in Item
BY DEF Item

\* The fields of a handler that returns, and of one that only moves on.
LEMMA WithoutFacts ==
    ASSUME NEW p, p \in {"idle", "answered", "gone"}
    PROVE  /\ Without(p) \in Handler
           /\ Without(p).pc = p /\ Without(p).command = None /\ ~Without(p).reconciles
BY SMT DEF Without, Handler

LEMMA RepliesFacts ==
    ASSUME NEW r, r \in Replies
    PROVE  /\ [Without("answered") EXCEPT !.reply = r] \in Handler
           /\ [Without("answered") EXCEPT !.reply = r].pc = "answered"
           /\ [Without("answered") EXCEPT !.reply = r].command = None
           /\ ~[Without("answered") EXCEPT !.reply = r].reconciles
           /\ [Without("answered") EXCEPT !.reply = r].reply = r
<1>1. [Without("answered") EXCEPT !.reply = r] \in Handler
  BY WithoutFacts, HandlerFields
<1> QED
  BY <1>1, SMT DEF Without

\* The handler of request a returns.
LEMMA AnswerFacts ==
    ASSUME Types, NEW a \in Attempts, NEW r, r \in Replies, Answer(a, r)
    PROVE  /\ handler' \in [Attempts -> Handler]
           /\ \A b \in Attempts : b # a => handler'[b] = handler[b]
           /\ handler'[a].command = None /\ ~handler'[a].reconciles
           /\ ~Waiting(a) => handler'[a].pc = "gone"
           /\ Waiting(a) => handler'[a].pc = "answered" /\ handler'[a].reply = r
<1>1. CASE Waiting(a)
  <2> DEFINE h == [Without("answered") EXCEPT !.reply = r]
  <2>1. handler' = [handler EXCEPT ![a] = h]
    BY <1>1 DEF Answer
  <2>2. h \in Handler /\ h.pc = "answered" /\ h.command = None /\ ~h.reconciles /\ h.reply = r
    BY RepliesFacts
  <2> HIDE DEF h
  <2> QED
    BY <1>1, <2>1, <2>2 DEF Types
<1>2. CASE ~Waiting(a)
  <2> DEFINE h == Without("gone")
  <2>1. handler' = [handler EXCEPT ![a] = h]
    BY <1>2 DEF Answer
  <2>2. h \in Handler /\ h.pc = "gone" /\ h.command = None /\ ~h.reconciles
    BY WithoutFacts
  <2> HIDE DEF h
  <2> QED
    BY <1>2, <2>1, <2>2 DEF Types
<1> QED
  BY <1>1, <1>2

LEMMA GoesFacts ==
    ASSUME Types, NEW a \in Attempts, NEW p, p \in Serving, Goes(a, p)
    PROVE  /\ handler' \in [Attempts -> Handler]
           /\ \A b \in Attempts : b # a => handler'[b] = handler[b]
           /\ handler'[a].pc = p /\ handler'[a].command = handler[a].command
           /\ handler'[a].reconciles <=> handler[a].reconciles
<1> DEFINE h == [handler[a] EXCEPT !.pc = p]
<1>1. handler' = [handler EXCEPT ![a] = h]
  BY SMT DEF Goes
<1>2. handler[a] \in Handler
  BY DEF Types
<1>3. /\ h \in Handler /\ h.pc = p /\ h.command = handler[a].command
      /\ h.reconciles = handler[a].reconciles
  BY <1>2, SMT DEF Handler
<1> HIDE DEF h
<1> QED
  BY <1>1, <1>3 DEF Types

LEMMA ReconcilesFacts ==
    ASSUME Types, NEW a \in Attempts, NEW e, e \in Errors, Reconciles(a, e)
    PROVE  /\ handler' \in [Attempts -> Handler]
           /\ \A b \in Attempts : b # a => handler'[b] = handler[b]
           /\ handler'[a].pc = "reconcile" /\ handler'[a].command = handler[a].command
           /\ handler'[a].reconciles <=> handler[a].reconciles
           /\ handler'[a].observed = e
<1> DEFINE h == [handler[a] EXCEPT !.pc = "reconcile", !.observed = e]
<1>1. handler' = [handler EXCEPT ![a] = h]
  BY DEF Reconciles, Types
<1>2. handler[a] \in Handler
  BY DEF Types
<1>3. /\ h.pc = "reconcile" /\ h.command = handler[a].command
      /\ h.reconciles = handler[a].reconciles /\ h.observed = e
  BY <1>2, SMT DEF Handler
<1>4. h \in Handler
  <2>1. [handler[a] EXCEPT !.pc = "reconcile"] \in Handler
    BY <1>2, HandlerFields DEF Serving
  <2>2. [[handler[a] EXCEPT !.pc = "reconcile"] EXCEPT !.observed = e] \in Handler
    BY <2>1, HandlerFields
  <2> QED
    BY <2>2
<1> HIDE DEF h
<1> QED
  BY <1>1, <1>3, <1>4 DEF Types

LEMMA ForgetFacts ==
    ASSUME Types, NEW a \in Attempts, Forget(a)
    PROVE  /\ ticket' \in [Attempts -> Ticket] /\ ticket'[a] = None
           /\ \A b \in Attempts : b # a => ticket'[b] = ticket[b]
BY DEF Types, Forget, Ticket

LEMMA TellFacts ==
    ASSUME Types, NEW a \in Attempts, NEW v, v \in Ticket, Tell(a, v)
    PROVE  /\ ticket' \in [Attempts -> Ticket]
           /\ ticket'[a] = IF handler[a].pc # "wait" THEN None
                           ELSE IF ticket[a] = "acceptance" THEN "acceptance" ELSE v
           /\ \A b \in Attempts : b # a => ticket'[b] = ticket[b]
BY SMT DEF Types, Tell, Ticket

LEMMA SpawnFacts ==
    ASSUME Types, NEW a \in Attempts, NEW p, p \in Live, Spawn(a, p)
    PROVE  /\ worker' \in [Attempts -> Worker]
           /\ worker'[a].pc = p /\ worker'[a].command = handler[a].command
           /\ \A b \in Attempts : b # a => worker'[b] = worker[b]
<1> DEFINE w == [pc |-> p, command |-> handler[a].command]
<1>1. worker' = [worker EXCEPT ![a] = w]
  BY DEF Spawn
<1>2. handler[a].command \in Commands \cup {None}
  BY DEF Types, Handler
<1>3. w \in Worker /\ w.pc = p /\ w.command = handler[a].command
  BY <1>2, SMT DEF Worker
<1> HIDE DEF w
<1> QED
  BY <1>1, <1>3 DEF Types

LEMMA NoWorkerFacts == NoWorker \in Worker /\ NoWorker.pc = "none" /\ NoWorker.command = None
BY SMT DEF NoWorker, Worker

LEMMA WorkerPcFacts ==
    ASSUME Types, NEW a \in Attempts, NEW p, p \in Live,
           worker' = [worker EXCEPT ![a].pc = p]
    PROVE  /\ worker' \in [Attempts -> Worker]
           /\ worker'[a].pc = p /\ worker'[a].command = worker[a].command
           /\ \A b \in Attempts : b # a => worker'[b] = worker[b]
<1> DEFINE w == [worker[a] EXCEPT !.pc = p]
<1>1. worker' = [worker EXCEPT ![a] = w]
  BY SMT
<1>2. worker[a] \in Worker
  BY DEF Types
<1>3. w \in Worker /\ w.pc = p /\ w.command = worker[a].command
  BY <1>2, SMT DEF Worker
<1> HIDE DEF w
<1> QED
  BY <1>1, <1>3 DEF Types

LEMMA CompleteFacts ==
    ASSUME Types, NEW a \in Attempts, NEW v, v \in Completions, Complete(a, v)
    PROVE  /\ worker' \in [Attempts -> Worker]
           /\ worker'[a].pc = "none" /\ worker'[a].command = None
           /\ \A b \in Attempts : b # a => worker'[b] = worker[b]
           /\ ticket' \in [Attempts -> Ticket]
           /\ ticket'[a] = IF handler[a].pc # "wait" THEN None
                           ELSE IF ticket[a] = "acceptance" THEN "acceptance" ELSE v
           /\ \A b \in Attempts : b # a => ticket'[b] = ticket[b]
<1>1. v \in Ticket
  BY DEF Ticket
<1>2. worker' = [worker EXCEPT ![a] = NoWorker] /\ Tell(a, v)
  BY DEF Complete
<1> QED
  BY <1>1, <1>2, TellFacts, NoWorkerFacts DEF Types

-----------------------------------------------------------------------------
(***************************************************************************)
(* A step of one request: of its handler or of what it dispatched.         *)
(***************************************************************************)

Moves(a) ==
    /\ handler' \in [Attempts -> Handler] /\ worker' \in [Attempts -> Worker]
    /\ ticket' \in [Attempts -> Ticket] /\ ledger' \in [Ops -> Commands \cup {None}]
    /\ pending' = pending
    /\ \A b \in Attempts : b # a =>
          handler'[b] = handler[b] /\ worker'[b] = worker[b] /\ ticket'[b] = ticket[b]
    /\ handler'[a].command # None =>
          /\ handler'[a].command = handler[a].command
          /\ handler'[a].reconciles <=> handler[a].reconciles
    /\ worker'[a].command # None =>
          \/ worker'[a].command = worker[a].command
          \/ worker'[a].command = handler[a].command /\ ~handler[a].reconciles
    /\ \A o \in Ops : ledger[o] # None => ledger'[o] = ledger[o]
    /\ \A c \in Commands : Recorded(c)' => Recorded(c) \/ c = worker[a].command

\* The ledger keeps what it holds.
LEMMA LedgerKept ==
    ASSUME NEW a \in Attempts, Moves(a), NEW c \in Commands
    PROVE  /\ Recorded(c) => Recorded(c)'
           /\ Conflicts(c) => Conflicts(c)'
<1>1. c.op \in Ops /\ c # None
  BY CommandsAssumption DEF Ops
<1>2. ledger[c.op] # None => ledger'[c.op] = ledger[c.op]
  BY <1>1 DEF Moves
<1> QED
  BY <1>1, <1>2 DEF Recorded, Conflicts

\* A step of a request leaves alone the commands that are not its own.
LEMMA OnlyByKept ==
    ASSUME NEW a \in Attempts, Moves(a), NEW c \in Commands, NEW w, w # a, OnlyBy(c, w)
    PROVE  OnlyBy(c, w)' /\ (~Recorded(c) => ~Recorded(c)')
<1>1. worker[a].command # c /\ (handler[a].command = c => handler[a].reconciles)
  BY DEF OnlyBy
<1>2. c # None
  BY CommandsAssumption
<1>3. worker'[a].command # c /\ (handler'[a].command = c => handler'[a].reconciles)
  <2>1. worker'[a].command # c
    BY <1>1, <1>2 DEF Moves
  <2>2. handler'[a].command # None =>
           /\ handler'[a].command = handler[a].command
           /\ handler'[a].reconciles <=> handler[a].reconciles
    BY DEF Moves
  <2> QED
    BY <1>1, <1>2, <2>1, <2>2
<1>4. OnlyBy(c, w)'
  BY <1>3 DEF OnlyBy, Moves
<1>5. ~Recorded(c) => ~Recorded(c)'
  BY <1>1 DEF Moves
<1> QED
  BY <1>4, <1>5

LEMMA OthersKept ==
    ASSUME IInv, NEW a \in Attempts, Moves(a), NEW b \in Attempts, b # a
    PROVE  AttemptInv(b)'
<1>1. handler'[b] = handler[b] /\ worker'[b] = worker[b] /\ ticket'[b] = ticket[b]
  BY DEF Moves
<1>2. AttemptInv(b) /\ handler[b] \in Handler /\ worker[b] \in Worker
  BY DEF IInv, Types
<1>3. PICK k : k = handler[b].command
  OBVIOUS
<1>4. PICK l : l = worker[b].command
  OBVIOUS
<1>5. k \in Commands \cup {None} /\ l \in Commands \cup {None}
  BY <1>2, <1>3, <1>4, SMT DEF Handler, Worker
<1>6. /\ k # None => (Recorded(k) => Recorded(k)') /\ (Conflicts(k) => Conflicts(k)')
      /\ l # None => (Recorded(l) => Recorded(l)')
  BY <1>5, LedgerKept
<1>7. ticket[b] \in Accepted \cup {"command_conflict"} => ticket[b] # None
  BY CommandsAssumption DEF Accepted, Completions, Errors
<1> QED
  BY <1>1, <1>2, <1>3, <1>4, <1>6, <1>7 DEF AttemptInv, Recorded, Conflicts, Serving, Live

\* The invariant holds after a step of request a if it holds for a.
LEMMA AttemptStep ==
    ASSUME IInv, NEW a \in Attempts, Moves(a), AttemptInv(a)',
           \A c \in Sent : pending[c].waiter = a => Waited(c, a)'
    PROVE  IInv'
<1>1. Types'
  BY DEF IInv, Types, Moves, Sent
<1>2. \A b \in Attempts : AttemptInv(b)'
  BY OthersKept
<1>3. a # None
  BY CommandsAssumption
<1>4. Sent' = Sent /\ pending' = pending /\ Sent \subseteq Commands
  BY DEF IInv, Types, Moves, Sent
<1>5. ASSUME NEW c \in Sent PROVE ItemInv(c)'
  <2>1. ItemInv(c) /\ c \in Commands
    BY <1>4 DEF IInv
  <2>2. Untouched(c) => Untouched(c)'
    BY <1>3, <2>1, OnlyByKept DEF Untouched
  <2>3. (Recorded(c) => Recorded(c)') /\ (Conflicts(c) => Conflicts(c)')
    BY <2>1, LedgerKept
  <2> QED
    BY <1>4, <2>1, <2>2, <2>3 DEF ItemInv
<1>6. ASSUME NEW c \in Sent, NEW b \in Attempts, pending[c].waiter = b, b # a
      PROVE  Waited(c, b)'
  <2>1. handler'[b] = handler[b] /\ worker'[b] = worker[b] /\ ticket'[b] = ticket[b]
    BY <1>6 DEF Moves
  <2>2. Waited(c, b) /\ c \in Commands
    BY <1>4, <1>6 DEF IInv
  <2>3. (Recorded(c) => Recorded(c)') /\ (Conflicts(c) => Conflicts(c)')
    BY <2>2, LedgerKept
  <2>4. OwnInv(c, b) => OwnInv(c, b)'
    BY <1>6, <2>1, <2>2, OnlyByKept DEF OwnInv, Spared
  <2> QED
    BY <1>4, <2>1, <2>2, <2>3, <2>4 DEF Waited
<1>7. WaitersInv'
  BY <1>4 DEF IInv, WaitersInv
<1> QED
  BY <1>1, <1>2, <1>4, <1>5, <1>6, <1>7 DEF IInv

-----------------------------------------------------------------------------
(***************************************************************************)
(* Handlers.                                                               *)
(***************************************************************************)

\* A refusal of request a is the truth, where it is the first of its command.
Refusable(a) ==
    \A c \in Sent : /\ pending[c].waiter = a /\ pending[c].phase = "sending"
                    /\ pending[c].before # "uncertain"
                    => Spared(c, a)

LEMMA AnswerStep ==
    ASSUME IInv, NEW a \in Attempts, handler[a].pc \in Serving,
           NEW r, r \in Replies, Answer(a, r),
           UNCHANGED <<ledger, worker, pending>>,
           Forget(a) \/ (UNCHANGED ticket /\ handler[a].pc # "wait"),
           NEW k, k = handler[a].command,
           r = "accepted" => Recorded(k),
           r = "conflict" => Conflicts(k),
           r = "not_found" => handler[a].reconciles,
           r = "refused" => Refusable(a)
    PROVE  IInv'
<1>1. Types /\ AttemptInv(a)
  BY DEF IInv
<1>2. /\ handler' \in [Attempts -> Handler]
      /\ \A b \in Attempts : b # a => handler'[b] = handler[b]
      /\ handler'[a].command = None /\ ~handler'[a].reconciles
      /\ ~Waiting(a) => handler'[a].pc = "gone"
      /\ Waiting(a) => handler'[a].pc = "answered" /\ handler'[a].reply = r
  BY <1>1, AnswerFacts
<1>3. /\ ticket' \in [Attempts -> Ticket] /\ ticket'[a] = None
      /\ \A b \in Attempts : b # a => ticket'[b] = ticket[b]
  <2>1. CASE Forget(a)
    BY <1>1, <2>1, ForgetFacts
  <2>2. CASE UNCHANGED ticket /\ handler[a].pc # "wait"
    BY <1>1, <2>2 DEF AttemptInv, Types
  <2> QED
    BY <2>1, <2>2
<1>4. Moves(a)
  BY <1>1, <1>2, <1>3 DEF Moves, Types, Recorded
<1>5. handler'[a].pc \notin Serving \cup {"idle"}
  BY <1>2 DEF Serving
<1>6. AttemptInv(a)'
  <2>1. worker'[a] = worker[a]
    OBVIOUS
  <2>2. None \notin Accepted \cup {"command_conflict"}
    BY CommandsAssumption DEF Accepted, Completions, Errors
  <2>3. worker[a].pc \in {"committed", "running"} => Recorded(worker[a].command)'
    BY <1>1 DEF AttemptInv, Recorded
  <2> QED
    BY <1>1, <1>2, <1>3, <1>5, <2>1, <2>2, <2>3 DEF AttemptInv, Serving
<1>7. ASSUME NEW c \in Sent, pending[c].waiter = a PROVE Waited(c, a)'
  <2>1. Waited(c, a) /\ Waiting(a)
    BY <1>7 DEF IInv, Waiting
  <2>2. handler'[a].pc = "answered" /\ handler'[a].reply = r /\ c = k
    BY <1>2, <2>1 DEF Waited, Serving
  <2>3. pending[c].phase = "sending" => r # "not_found"
    BY <2>1 DEF Waited
  <2>4. (r = "accepted" => Recorded(c)') /\ (r = "conflict" => Conflicts(c)')
    BY <2>2 DEF Recorded, Conflicts
  <2>5. pending[c].phase = "sending" /\ pending[c].before # "uncertain" => OwnInv(c, a)'
    <3> SUFFICES ASSUME pending[c].phase = "sending", pending[c].before # "uncertain"
                 PROVE  OwnInv(c, a)'
      OBVIOUS
    <3>1. OnlyBy(c, a)'
      BY <1>4, <2>1 DEF Waited, OwnInv, OnlyBy, Moves
    <3>2. r = "refused" => Spared(c, a)'
      BY <1>7 DEF Refusable, Spared, Recorded
    <3>3. None \notin Errors
      BY CommandsAssumption DEF Completions
    <3> QED
      BY <1>3, <2>2, <3>1, <3>2, <3>3 DEF OwnInv
  <2> QED
    BY <1>2, <2>2, <2>3, <2>4, <2>5 DEF Waited
<1> QED
  BY <1>4, <1>6, <1>7, AttemptStep

\* The handler keeps an error for one more look at the ledger.
LEMMA ReconcilesStep ==
    ASSUME IInv, NEW a \in Attempts, handler[a].pc \in {"lookup", "prepare", "wait"},
           ~handler[a].reconciles, worker[a].command = None,
           NEW e, e \in Errors, Reconciles(a, e),
           UNCHANGED <<ledger, worker, pending>>,
           Forget(a) \/ (UNCHANGED ticket /\ handler[a].pc # "wait"),
           NEW k, k = handler[a].command,
           e = "command_conflict" => Conflicts(k),
           ErrorView(e) = "refused" => Refusable(a)
    PROVE  IInv'
<1>1. Types /\ AttemptInv(a)
  BY DEF IInv
<1>2. /\ handler' \in [Attempts -> Handler]
      /\ \A b \in Attempts : b # a => handler'[b] = handler[b]
      /\ handler'[a].pc = "reconcile" /\ handler'[a].command = k
      /\ ~handler'[a].reconciles /\ handler'[a].observed = e
  BY <1>1, ReconcilesFacts
<1>3. /\ ticket' \in [Attempts -> Ticket] /\ ticket'[a] = None
      /\ \A b \in Attempts : b # a => ticket'[b] = ticket[b]
  <2>1. CASE Forget(a)
    BY <1>1, <2>1, ForgetFacts
  <2>2. CASE UNCHANGED ticket /\ handler[a].pc # "wait"
    BY <1>1, <2>2 DEF AttemptInv, Types
  <2> QED
    BY <2>1, <2>2
<1>4. Moves(a)
  BY <1>1, <1>2, <1>3 DEF Moves, Types, Recorded
<1>5. None \notin Accepted \cup {"command_conflict"} \cup Errors
  BY CommandsAssumption DEF Accepted, Completions, Errors
<1>6. k # None
  BY <1>1 DEF AttemptInv, Serving
<1>7. AttemptInv(a)'
  <2>1. worker'[a] = worker[a]
    OBVIOUS
  <2>2. e = "command_conflict" => Conflicts(k)'
    BY DEF Conflicts
  <2>3. worker[a].pc \notin Live
    BY <1>1 DEF AttemptInv
  <2> QED
    BY <1>2, <1>3, <1>5, <1>6, <2>1, <2>2, <2>3 DEF AttemptInv, Serving, Live, Conflicts
<1>8. ASSUME NEW c \in Sent, pending[c].waiter = a PROVE Waited(c, a)'
  <2>1. Waited(c, a)
    BY <1>8 DEF IInv
  <2>2. c = k /\ pending[c].phase # "reconciling"
    BY <2>1 DEF Waited
  <2>3. pending[c].phase = "sending" /\ pending[c].before # "uncertain" => OwnInv(c, a)'
    <3> SUFFICES ASSUME pending[c].phase = "sending", pending[c].before # "uncertain"
                 PROVE  OwnInv(c, a)'
      OBVIOUS
    <3>1. OnlyBy(c, a)'
      BY <1>4, <2>1 DEF Waited, OwnInv, OnlyBy, Moves
    <3>2. ErrorView(e) = "refused" => Spared(c, a)'
      BY <1>8 DEF Refusable, Spared, Recorded
    <3> QED
      BY <1>2, <1>3, <1>5, <3>1, <3>2 DEF OwnInv
  <2> QED
    BY <1>2, <2>2, <2>3 DEF Waited, Serving
<1> QED
  BY <1>4, <1>7, <1>8, AttemptStep

\* The first request of a command can be refused while it looks, prepares or
\* writes.
LEMMA EarlyRefusal ==
    ASSUME IInv, NEW a \in Attempts, handler[a].pc \in {"lookup", "prepare", "write"}
    PROVE  Refusable(a)
BY DEF IInv, Waited, OwnInv, Refusable

\* What raw_receipt finds.
LEMMA ReceiptFacts ==
    ASSUME NEW c
    PROVE  /\ raw_receipt(c) \in {"none", "accepted", "conflict"}
           /\ raw_receipt(c) = "accepted" => Recorded(c)
           /\ raw_receipt(c) = "conflict" => Conflicts(c)
BY DEF raw_receipt, Recorded, Conflicts

LEMMA ViewFacts ==
    /\ \A e \in Errors : ErrorView(e) \in {"conflict", "unknown", "refused"}
    /\ \A e \in Errors : ErrorView(e) = "conflict" => e = "command_conflict"
    /\ ErrorView("command_conflict") = "conflict" /\ ErrorView("storage") = "refused"
    /\ ErrorView("network_closed") = "unknown"
BY DEF ErrorView, Errors

LEMMA LookupStep ==
    ASSUME IInv, NEW a \in Attempts, Lookup(a)
    PROVE  IInv'
<1>1. Types /\ AttemptInv(a) /\ Refusable(a)
  BY EarlyRefusal DEF IInv, Lookup
<1>2. /\ handler[a].pc = "lookup" /\ UNCHANGED <<ledger, worker, ticket, pending>>
      /\ handler[a].pc \in Serving /\ handler[a].pc # "wait" /\ worker[a].command = None
  BY <1>1 DEF Lookup, AttemptInv, Serving
<1>3. PICK k : k = handler[a].command
  OBVIOUS
<1>4. /\ raw_receipt(k) = "accepted" => Recorded(k)
      /\ raw_receipt(k) = "conflict" => Conflicts(k)
  BY ReceiptFacts
<1>5. {"accepted", "not_found", "conflict", "refused"} \subseteq Replies
  BY DEF Replies
<1>6. \/ Answer(a, "refused")
      \/ Answer(a, "conflict") /\ raw_receipt(k) = "conflict"
      \/ Answer(a, "accepted") /\ raw_receipt(k) = "accepted"
      \/ Answer(a, "not_found") /\ handler[a].reconciles
      \/ Reconciles(a, "active_run") /\ ~handler[a].reconciles
      \/ Goes(a, "prepare") /\ ~handler[a].reconciles
  BY <1>3, ViewFacts DEF Lookup
<1>7. CASE Answer(a, "refused")
  BY <1>1, <1>2, <1>3, <1>5, <1>7, AnswerStep
<1>8. CASE Answer(a, "conflict") /\ raw_receipt(k) = "conflict"
  BY <1>2, <1>3, <1>4, <1>5, <1>8, AnswerStep
<1>9. CASE Answer(a, "accepted") /\ raw_receipt(k) = "accepted"
  BY <1>2, <1>3, <1>4, <1>5, <1>9, AnswerStep
<1>10. CASE Answer(a, "not_found") /\ handler[a].reconciles
  BY <1>2, <1>3, <1>5, <1>10, AnswerStep, SMT
<1>11. CASE Reconciles(a, "active_run") /\ ~handler[a].reconciles
  BY <1>1, <1>2, <1>3, <1>11, ReconcilesStep DEF Errors
<1>12. CASE Goes(a, "prepare") /\ ~handler[a].reconciles
  <2>1. /\ handler' \in [Attempts -> Handler]
        /\ \A b \in Attempts : b # a => handler'[b] = handler[b]
        /\ handler'[a].pc = "prepare" /\ handler'[a].command = k /\ ~handler'[a].reconciles
    BY <1>1, <1>3, <1>12, GoesFacts DEF Serving
  <2>2. Moves(a)
    BY <1>1, <1>2, <1>3, <1>12, <2>1 DEF Moves, Types, Recorded
  <2>3. AttemptInv(a)'
    BY <1>1, <1>2, <1>3, <2>1 DEF AttemptInv, Serving, Live, Recorded, Conflicts
  <2>4. ASSUME NEW c \in Sent, pending[c].waiter = a PROVE Waited(c, a)'
    <3>1. Waited(c, a)
      BY <2>4 DEF IInv
    <3>2. OwnInv(c, a) => OwnInv(c, a)'
      BY <1>2, <2>1, <2>2 DEF OwnInv, OnlyBy, Spared, Moves, Recorded
    <3> QED
      BY <1>2, <1>3, <1>12, <2>1, <3>1, <3>2 DEF Waited, Serving
  <2> QED
    BY <2>2, <2>3, <2>4, AttemptStep
<1> QED
  BY <1>6, <1>7, <1>8, <1>9, <1>10, <1>11, <1>12

\* The dispatch is registered, and the handler waits for its ticket.
LEMMA SpawnStep ==
    ASSUME IInv, NEW a \in Attempts, handler[a].pc \in {"prepare", "write"},
           NEW p, p \in {"open", "accept"}, Goes(a, "wait"), Spawn(a, p),
           UNCHANGED <<ledger, ticket, pending>>
    PROVE  IInv'
<1>1. Types /\ AttemptInv(a) /\ p \in Live
  BY DEF IInv, Live
<1>2. PICK k : k = handler[a].command
  OBVIOUS
<1>3. ~handler[a].reconciles /\ worker[a].command = None /\ ticket[a] = None /\ k # None
  BY <1>1, <1>2 DEF AttemptInv, Serving
<1>4. /\ handler' \in [Attempts -> Handler]
      /\ \A b \in Attempts : b # a => handler'[b] = handler[b]
      /\ handler'[a].pc = "wait" /\ handler'[a].command = k /\ ~handler'[a].reconciles
  BY <1>1, <1>2, <1>3, GoesFacts DEF Serving
<1>5. /\ worker' \in [Attempts -> Worker]
      /\ worker'[a].pc = p /\ worker'[a].command = k
      /\ \A b \in Attempts : b # a => worker'[b] = worker[b]
  BY <1>1, <1>2, SpawnFacts
<1>6. Moves(a)
  BY <1>1, <1>2, <1>3, <1>4, <1>5 DEF Moves, Types, Recorded
<1>7. None \notin Accepted \cup {"command_conflict"} \cup Errors
  BY CommandsAssumption DEF Accepted, Completions, Errors
<1>8. AttemptInv(a)'
  BY <1>1, <1>3, <1>4, <1>5, <1>7 DEF AttemptInv, Serving, Live
<1>9. ASSUME NEW c \in Sent, pending[c].waiter = a PROVE Waited(c, a)'
  <2>1. Waited(c, a) /\ c = k
    BY <1>2, <1>9 DEF IInv, Waited
  <2>2. OwnInv(c, a) => OwnInv(c, a)'
    BY <1>3, <1>4, <1>5, <1>6, <1>7 DEF OwnInv, OnlyBy, Spared, Moves, Recorded
  <2> QED
    BY <1>3, <1>4, <2>1, <2>2 DEF Waited, Serving
<1> QED
  BY <1>6, <1>8, <1>9, AttemptStep

LEMMA PrepareStep ==
    ASSUME IInv, NEW a \in Attempts, Prepare(a)
    PROVE  IInv'
<1>1. Types /\ AttemptInv(a) /\ Refusable(a)
  BY EarlyRefusal DEF IInv, Prepare
<1>2. /\ handler[a].pc = "prepare" /\ UNCHANGED <<ledger, ticket, pending>>
      /\ ~handler[a].reconciles /\ handler[a].pc # "wait" /\ worker[a].command = None
  BY <1>1 DEF Prepare, AttemptInv, Serving
<1>3. ASSUME NEW e \in {"prepare", "closed", "active_run"}, Reconciles(a, e), UNCHANGED worker
      PROVE  IInv'
  <2>1. e \in Errors /\ e # "command_conflict"
    BY DEF Errors
  <2> QED
    BY <1>1, <1>2, <1>3, <2>1, ReconcilesStep
<1>4. CASE Goes(a, "wait") /\ Spawn(a, "open")
  BY <1>2, <1>4, SpawnStep
<1> QED
  BY <1>3, <1>4 DEF Prepare

LEMMA WriteStep ==
    ASSUME IInv, NEW a \in Attempts, Write(a)
    PROVE  IInv'
<1>1. Types /\ AttemptInv(a) /\ Refusable(a)
  BY EarlyRefusal DEF IInv, Write
<1>2. /\ handler[a].pc = "write" /\ UNCHANGED <<ledger, ticket, pending>>
      /\ handler[a].pc # "wait" /\ handler[a].pc \in Serving
  BY DEF Write, Serving
<1>3. CASE Answer(a, ErrorView("storage")) /\ UNCHANGED worker
  <2>1. Answer(a, "refused") /\ "refused" \in Replies
    BY <1>3, ViewFacts DEF Replies
  <2> QED
    BY <1>1, <1>2, <1>3, <2>1, AnswerStep
<1>4. CASE Goes(a, "wait") /\ Spawn(a, "accept")
  BY <1>2, <1>4, SpawnStep
<1> QED
  BY <1>3, <1>4 DEF Write

\* What the ticket tells is the truth of the command.
LEMMA TicketFacts ==
    ASSUME IInv, NEW a \in Attempts, ticket[a] # None
    PROVE  /\ handler[a].pc = "wait" /\ ~handler[a].reconciles
           /\ ticket[a] \in Errors =>
                 /\ worker[a].command = None
                 /\ ErrorView(ticket[a]) = "refused" => Refusable(a)
           /\ ticket[a] \notin Errors => ticket[a] \in Accepted
<1>1. Types /\ AttemptInv(a)
  BY DEF IInv
<1>2. handler[a].pc = "wait" /\ ~handler[a].reconciles
  BY <1>1 DEF AttemptInv
<1>3. "acceptance" \notin Errors
  BY DEF Errors
<1>4. ticket[a] \in Errors => worker[a].command = None
  BY <1>1, <1>3 DEF AttemptInv
<1>5. ticket[a] \in Errors /\ ErrorView(ticket[a]) = "refused" => Refusable(a)
  BY DEF IInv, Waited, OwnInv, Refusable
<1>6. ticket[a] \notin Errors => ticket[a] \in Accepted
  BY <1>1 DEF Types, Ticket, Completions, Accepted
<1> QED
  BY <1>2, <1>4, <1>5, <1>6

LEMMA WaitStep ==
    ASSUME IInv, NEW a \in Attempts, Wait(a)
    PROVE  IInv'
<1>1. Types /\ AttemptInv(a)
  BY DEF IInv
<1>2. PICK k : k = handler[a].command
  OBVIOUS
<1>3. PICK t : t = ticket[a]
  OBVIOUS
<1>4. /\ handler[a].pc = "wait" /\ handler[a].pc \in Serving /\ t # None /\ Forget(a)
      /\ UNCHANGED <<ledger, worker, pending>> /\ ~handler[a].reconciles
  BY <1>3, TicketFacts DEF Wait, Serving
<1>5. CASE t \in Errors
  <2>1. /\ worker[a].command = None
        /\ ErrorView(t) = "refused" => Refusable(a)
    BY <1>3, <1>4, <1>5, TicketFacts
  <2>2. t = "command_conflict" => Conflicts(k)
    BY <1>1, <1>2, <1>3 DEF AttemptInv
  <2>3. /\ ErrorView(t) \in Replies /\ ErrorView(t) \notin {"accepted", "not_found"}
        /\ ErrorView(t) = "conflict" => t = "command_conflict"
        /\ completion_view(ticket[a]) = ErrorView(t)
    BY <1>3, <1>5, ViewFacts DEF Replies, completion_view
  <2>4. Reconciles(a, t) \/ Answer(a, ErrorView(t))
    BY <1>3, <2>3 DEF Wait
  <2>5. CASE Reconciles(a, t)
    BY <1>2, <1>4, <1>5, <2>1, <2>2, <2>5, ReconcilesStep
  <2>6. CASE Answer(a, ErrorView(t))
    BY <1>2, <1>4, <1>5, <2>1, <2>2, <2>3, <2>6, AnswerStep
  <2> QED
    BY <2>4, <2>5, <2>6
<1>6. CASE t \notin Errors
  <2>1. t \in Accepted /\ Recorded(k)
    BY <1>1, <1>2, <1>3, <1>4, <1>6, TicketFacts DEF AttemptInv
  <2>2. (Goes(a, "refresh") /\ t = "committed") \/ Answer(a, "accepted")
    BY <1>3, <1>6 DEF Wait, completion_view
  <2>3. CASE Answer(a, "accepted")
    BY <1>2, <1>4, <2>1, <2>3, AnswerStep DEF Replies
  <2>4. CASE Goes(a, "refresh") /\ t = "committed"
    <3>1. /\ handler' \in [Attempts -> Handler]
          /\ \A b \in Attempts : b # a => handler'[b] = handler[b]
          /\ handler'[a].pc = "refresh" /\ handler'[a].command = k /\ ~handler'[a].reconciles
      BY <1>1, <1>2, <1>4, <2>4, GoesFacts DEF Serving
    <3>2. /\ ticket' \in [Attempts -> Ticket] /\ ticket'[a] = None
          /\ \A b \in Attempts : b # a => ticket'[b] = ticket[b]
      BY <1>1, <1>4, ForgetFacts
    <3>3. worker[a].command = None /\ k # None
      BY <1>1, <1>2, <1>3, <1>4, <2>4 DEF AttemptInv
    <3>4. Moves(a)
      BY <1>1, <1>2, <1>4, <3>1, <3>2 DEF Moves, Types, Recorded
    <3>5. None \notin Accepted \cup {"command_conflict"} \cup Errors
      BY CommandsAssumption DEF Accepted, Completions, Errors
    <3>6. worker[a].pc \notin Live /\ worker'[a] = worker[a]
      BY <1>1, <1>4, <3>3 DEF AttemptInv
    <3>7. AttemptInv(a)'
      BY <1>4, <2>1, <3>1, <3>2, <3>3, <3>5, <3>6 DEF AttemptInv, Serving, Live, Recorded
    <3>8. ASSUME NEW c \in Sent, pending[c].waiter = a PROVE Waited(c, a)'
      <4>1. Waited(c, a) /\ c = k
        BY <1>2, <1>4, <3>8 DEF IInv, Waited
      <4>2. OwnInv(c, a) => OwnInv(c, a)'
        BY <3>1, <3>2, <3>4, <3>5 DEF OwnInv, OnlyBy, Moves
      <4> QED
        BY <1>4, <3>1, <4>1, <4>2 DEF Waited, Serving
    <3> QED
      BY <3>4, <3>7, <3>8, AttemptStep
  <2> QED
    BY <2>2, <2>3, <2>4
<1> QED
  BY <1>5, <1>6

LEMMA RefreshStep ==
    ASSUME IInv, NEW a \in Attempts, Refresh(a)
    PROVE  IInv'
<1>1. PICK k : k = handler[a].command
  OBVIOUS
<1>2. /\ handler[a].pc = "refresh" /\ handler[a].pc # "wait" /\ handler[a].pc \in Serving
      /\ Answer(a, "accepted") /\ UNCHANGED <<ledger, worker, ticket, pending>>
  BY DEF Refresh, Refreshed, Serving
<1>3. Recorded(k) /\ "accepted" \in Replies
  BY <1>1, <1>2 DEF IInv, AttemptInv, Replies
<1> QED
  BY <1>1, <1>2, <1>3, AnswerStep, SMT

LEMMA ReconcileStep ==
    ASSUME IInv, NEW a \in Attempts, reconcile(a)
    PROVE  IInv'
<1>1. PICK k : k = handler[a].command
  OBVIOUS
<1>2. PICK e : e = handler[a].observed
  OBVIOUS
<1>3. /\ handler[a].pc = "reconcile" /\ handler[a].pc # "wait" /\ handler[a].pc \in Serving
      /\ UNCHANGED <<ledger, worker, ticket, pending>>
  BY DEF reconcile, Serving
<1>4. Types /\ AttemptInv(a)
  BY DEF IInv
<1>5. e \in Errors /\ (e = "command_conflict" => Conflicts(k))
  <2>1. handler[a] \in Handler
    BY <1>4 DEF Types
  <2>2. e \in Errors \cup {None}
    BY <1>2, <2>1, SMT DEF Handler
  <2> QED
    BY <1>1, <1>2, <1>3, <1>4, <2>2 DEF AttemptInv
<1>6. CASE raw_receipt(k) = "accepted" /\ Answer(a, "accepted")
  BY <1>1, <1>3, <1>6, ReceiptFacts, AnswerStep DEF Replies
<1>7. CASE Answer(a, ErrorView(e))
  <2>1. ErrorView(e) = "refused" => Refusable(a)
    BY <1>2, <1>3 DEF IInv, Waited, OwnInv, Refusable
  <2>2. /\ ErrorView(e) \in Replies /\ ErrorView(e) \notin {"accepted", "not_found"}
        /\ ErrorView(e) = "conflict" => e = "command_conflict"
    BY <1>5, ViewFacts DEF Replies
  <2> QED
    BY <1>1, <1>3, <1>5, <1>7, <2>1, <2>2, AnswerStep
<1> QED
  BY <1>1, <1>2, <1>6, <1>7 DEF reconcile

LEMMA ClosedStep ==
    ASSUME IInv, NEW a \in Attempts, Closed(a)
    PROVE  IInv'
<1>1. handler[a] \in Handler
  BY DEF IInv, Types
<1>2. handler[a].pc \in {"idle", "answered", "gone"} \cup Serving
  BY <1>1, SMT DEF Handler
<1>3. /\ handler[a].pc \in Serving /\ Forget(a) /\ UNCHANGED <<ledger, worker, pending>>
      /\ Answer(a, "unknown") /\ "unknown" \in Replies
  BY <1>2, ViewFacts DEF Closed, Replies
<1>4. PICK k : k = handler[a].command
  OBVIOUS
<1> QED
  BY <1>3, <1>4, AnswerStep, SMT

LEMMA DropStep ==
    ASSUME IInv, NEW a \in Attempts, Drop(a)
    PROVE  IInv'
<1>1. Types /\ AttemptInv(a)
  BY DEF IInv
<1>2. ~Waiting(a) /\ Forget(a) /\ UNCHANGED <<ledger, worker, pending>>
  BY DEF Drop
<1>3. /\ handler' \in [Attempts -> Handler]
      /\ \A b \in Attempts : b # a => handler'[b] = handler[b]
      /\ handler'[a].pc = "gone" /\ handler'[a].command = None /\ ~handler'[a].reconciles
  BY <1>1, WithoutFacts DEF Drop, Types
<1>4. /\ ticket' \in [Attempts -> Ticket] /\ ticket'[a] = None
      /\ \A b \in Attempts : b # a => ticket'[b] = ticket[b]
  BY <1>1, <1>2, ForgetFacts
<1>5. Moves(a)
  BY <1>1, <1>2, <1>3, <1>4 DEF Moves, Types, Recorded
<1>6. AttemptInv(a)'
  <2>1. None \notin Accepted \cup {"command_conflict"}
    BY CommandsAssumption DEF Accepted, Completions, Errors
  <2> QED
    BY <1>1, <1>2, <1>3, <1>4, <2>1 DEF AttemptInv, Serving, Recorded
<1>7. \A c \in Sent : pending[c].waiter # a
  BY <1>2 DEF Waiting
<1> QED
  BY <1>5, <1>6, <1>7, AttemptStep

-----------------------------------------------------------------------------
(***************************************************************************)
(* What was dispatched.                                                    *)
(***************************************************************************)

\* The ledger takes no command but that of request a, and loses none.
Records(a) ==
    /\ ledger' \in [Ops -> Commands \cup {None}]
    /\ \A o \in Ops : ledger[o] # None => ledger'[o] = ledger[o]
    /\ \A c \in Commands : Recorded(c)' => Recorded(c) \/ c = worker[a].command

LEMMA NothingRecorded ==
    ASSUME Types, NEW a \in Attempts, UNCHANGED ledger
    PROVE  Records(a)
BY DEF Types, Records, Recorded

\* The dispatch is over and its ticket told.
LEMMA CompleteStep ==
    ASSUME IInv, NEW a \in Attempts, worker[a].pc \in Live,
           NEW v, v \in Completions, Complete(a, v),
           UNCHANGED <<handler, pending>>, Records(a),
           NEW k, k = worker[a].command,
           v \in Accepted => Recorded(k)',
           v = "command_conflict" => Conflicts(k)',
           v \in Errors /\ ErrorView(v) = "refused" =>
              UNCHANGED ledger /\ worker[a].pc \in {"open", "accept"}
    PROVE  IInv'
<1>1. Types /\ AttemptInv(a)
  BY DEF IInv
<1>2. /\ worker' \in [Attempts -> Worker]
      /\ worker'[a].pc = "none" /\ worker'[a].command = None
      /\ \A b \in Attempts : b # a => worker'[b] = worker[b]
      /\ ticket' \in [Attempts -> Ticket]
      /\ ticket'[a] = IF handler[a].pc # "wait" THEN None
                      ELSE IF ticket[a] = "acceptance" THEN "acceptance" ELSE v
      /\ \A b \in Attempts : b # a => ticket'[b] = ticket[b]
  BY <1>1, CompleteFacts
<1>3. Moves(a)
  BY <1>1, <1>2 DEF Moves, Types, Records
<1>4. k # None /\ handler[a].pc \notin {"idle"} \cup (Serving \ {"wait"})
  BY <1>1 DEF AttemptInv
<1>5. k \in Commands
  <2>1. worker[a] \in Worker
    BY <1>1 DEF Types
  <2> QED
    BY <1>4, <2>1, SMT DEF Worker
<1>6. handler[a].pc = "wait" => handler[a].command = k
  BY <1>1, <1>4 DEF AttemptInv
<1>7. (Recorded(k) => Recorded(k)') /\ (Conflicts(k) => Conflicts(k)')
  BY <1>3, <1>5, LedgerKept
<1>8. /\ None \notin Accepted \cup {"command_conflict"} \cup Errors
      /\ "acceptance" \notin Errors \cup {"command_conflict"}
  BY CommandsAssumption DEF Accepted, Completions, Errors
<1>9. AttemptInv(a)'
  <2>1. handler'[a] = handler[a]
    OBVIOUS
  <2>2. /\ ticket'[a] \in Accepted => handler[a].pc = "wait" /\ Recorded(k)'
        /\ ticket'[a] = "command_conflict" => handler[a].pc = "wait" /\ Conflicts(k)'
    BY <1>1, <1>2, <1>6, <1>7, <1>8 DEF AttemptInv
  <2>3. handler[a].pc \notin {"refresh", "reconcile", "lookup"}
    BY <1>4 DEF Serving
  <2> QED
    BY <1>1, <1>2, <1>4, <1>6, <2>1, <2>2, <2>3 DEF AttemptInv, Live, Recorded, Conflicts
<1>10. ASSUME NEW c \in Sent, pending[c].waiter = a PROVE Waited(c, a)'
  <2>1. Waited(c, a) /\ c \in Commands
    BY <1>1, <1>10 DEF IInv, Types
  <2>2. (Recorded(c) => Recorded(c)') /\ (Conflicts(c) => Conflicts(c)')
    BY <1>3, <2>1, LedgerKept
  <2>3. OwnInv(c, a) => OwnInv(c, a)'
    <3> SUFFICES ASSUME OwnInv(c, a) PROVE OwnInv(c, a)'
      OBVIOUS
    <3>1. OnlyBy(c, a)'
      BY <1>3 DEF OwnInv, OnlyBy, Moves
    <3>2. ticket'[a] \in Errors /\ ErrorView(ticket'[a]) = "refused" => Spared(c, a)'
      <4>1. ticket'[a] \in Errors => ticket'[a] = v /\ handler[a].pc = "wait"
        BY <1>2, <1>8
      <4>2. v \in Errors /\ ErrorView(v) = "refused" /\ handler[a].pc = "wait" => ~Recorded(c)'
        BY DEF OwnInv, Recorded
      <4> QED
        BY <1>2, <4>1, <4>2 DEF Spared
    <3>3. ~(handler[a].pc = "answered" /\ handler[a].reply = "refused")
      BY <1>4 DEF OwnInv, Spared
    <3> QED
      BY <1>2, <1>4, <3>1, <3>2, <3>3 DEF OwnInv, Serving
  <2> QED
    BY <2>1, <2>2, <2>3 DEF Waited
<1> QED
  BY <1>3, <1>9, <1>10, AttemptStep

\* The dispatch goes on, and perhaps publishes its acceptance.
LEMMA WorksStep ==
    ASSUME IInv, NEW a \in Attempts, worker[a].pc \in Live,
           NEW p, p \in Live, worker' = [worker EXCEPT ![a].pc = p],
           UNCHANGED <<handler, pending>>, Records(a),
           NEW k, k = worker[a].command,
           p \in {"committed", "running"} => Recorded(k)',
           p \in {"open", "accept"} => UNCHANGED ledger /\ worker[a].pc \in {"open", "accept"},
           UNCHANGED ticket \/ (Tell(a, "acceptance") /\ Recorded(k)')
    PROVE  IInv'
<1>1. Types /\ AttemptInv(a)
  BY DEF IInv
<1>2. /\ worker' \in [Attempts -> Worker]
      /\ worker'[a].pc = p /\ worker'[a].command = k
      /\ \A b \in Attempts : b # a => worker'[b] = worker[b]
  BY <1>1, WorkerPcFacts
<1>3. k # None /\ handler[a].pc \notin {"idle"} \cup (Serving \ {"wait"})
      /\ ticket[a] \in {None, "acceptance"} /\ handler'[a] = handler[a]
  BY <1>1 DEF AttemptInv
<1>4. /\ ticket' \in [Attempts -> Ticket]
      /\ \A b \in Attempts : b # a => ticket'[b] = ticket[b]
      /\ ticket'[a] \in {None, "acceptance"}
      /\ ticket'[a] = "acceptance" => handler[a].pc = "wait" /\ (ticket[a] = "acceptance" \/ Recorded(k)')
  <2>1. CASE UNCHANGED ticket
    <3>1. ticket[a] = "acceptance" => handler[a].pc = "wait"
      BY <1>1, CommandsAssumption DEF AttemptInv
    <3> QED
      BY <1>1, <1>3, <2>1, <3>1 DEF Types
  <2>2. CASE Tell(a, "acceptance") /\ Recorded(k)'
    <3>1. "acceptance" \in Ticket
      BY DEF Ticket
    <3>2. /\ ticket' \in [Attempts -> Ticket]
          /\ ticket'[a] = IF handler[a].pc # "wait" THEN None
                          ELSE IF ticket[a] = "acceptance" THEN "acceptance" ELSE "acceptance"
          /\ \A b \in Attempts : b # a => ticket'[b] = ticket[b]
      BY <1>1, <2>2, <3>1, TellFacts
    <3> QED
      BY <2>2, <3>2, CommandsAssumption
  <2> QED
    BY <2>1, <2>2
<1>5. Moves(a)
  BY <1>1, <1>2, <1>4 DEF Moves, Types, Records
<1>6. k \in Commands
  <2>1. worker[a] \in Worker
    BY <1>1 DEF Types
  <2> QED
    BY <1>3, <2>1, SMT DEF Worker
<1>7. handler[a].pc = "wait" => handler[a].command = k
  BY <1>1, <1>3 DEF AttemptInv
<1>8. Recorded(k) => Recorded(k)'
  BY <1>5, <1>6, LedgerKept
<1>9. /\ None \notin Accepted \cup {"command_conflict"} \cup Errors
      /\ "acceptance" \notin Errors \cup {"command_conflict"} /\ "acceptance" \in Accepted
  BY CommandsAssumption DEF Accepted, Completions, Errors
<1>10. AttemptInv(a)'
  <2>1. ticket'[a] = "acceptance" => Recorded(k)'
    BY <1>1, <1>4, <1>7, <1>8, <1>9 DEF AttemptInv
  <2>2. handler[a].pc \notin {"refresh", "reconcile", "lookup"}
    BY <1>3 DEF Serving
  <2> QED
    BY <1>1, <1>2, <1>3, <1>4, <1>7, <1>9, <2>1, <2>2 DEF AttemptInv, Recorded
<1>11. ASSUME NEW c \in Sent, pending[c].waiter = a PROVE Waited(c, a)'
  <2>1. Waited(c, a) /\ c \in Commands
    BY <1>1, <1>11 DEF IInv, Types
  <2>2. (Recorded(c) => Recorded(c)') /\ (Conflicts(c) => Conflicts(c)')
    BY <1>5, <2>1, LedgerKept
  <2>3. OwnInv(c, a) => OwnInv(c, a)'
    <3> SUFFICES ASSUME OwnInv(c, a) PROVE OwnInv(c, a)'
      OBVIOUS
    <3>1. OnlyBy(c, a)'
      BY <1>5 DEF OwnInv, OnlyBy, Moves
    <3>2. ticket'[a] \notin Errors
      BY <1>4, <1>9
    <3>3. ~(handler[a].pc = "answered" /\ handler[a].reply = "refused")
      BY <1>3 DEF OwnInv, Spared
    <3>4. handler[a].pc = "wait" /\ p \in {"open", "accept"} => ~Recorded(c)'
      BY DEF OwnInv, Recorded
    <3> QED
      BY <1>2, <1>3, <3>1, <3>2, <3>3, <3>4 DEF OwnInv, Serving
  <2> QED
    BY <1>3, <2>1, <2>2, <2>3 DEF Waited
<1> QED
  BY <1>5, <1>10, <1>11, AttemptStep

LEMMA OpenSessionStep ==
    ASSUME IInv, NEW a \in Attempts, OpenSession(a)
    PROVE  IInv'
<1>1. /\ worker[a].pc = "open" /\ worker[a].pc \in Live
      /\ UNCHANGED <<ledger, handler, pending>> /\ Records(a)
  BY NothingRecorded DEF OpenSession, Live, IInv
<1>2. CASE Complete(a, "storage")
  <2>1. "storage" \in Completions /\ "storage" \notin Accepted /\ "storage" # "command_conflict"
    BY DEF Completions, Errors, Accepted
  <2> QED
    BY <1>1, <1>2, <2>1, CompleteStep
<1>3. CASE Works(a, "accept")
  BY <1>1, <1>3, WorksStep DEF Works, Live
<1> QED
  BY <1>2, <1>3 DEF OpenSession

\* A command takes its operation.
LEMMA CommitFacts ==
    ASSUME Types, NEW a \in Attempts, NEW k \in Commands, k = worker[a].command,
           ledger[k.op] = None, ledger' = [ledger EXCEPT ![k.op] = k]
    PROVE  Records(a) /\ Recorded(k)'
<1>1. k.op \in Ops /\ \A c \in Commands : c.op \in Ops
  BY DEF Ops
<1> QED
  BY <1>1 DEF Types, Records, Recorded

LEMMA AcceptStep ==
    ASSUME IInv, NEW a \in Attempts, Accept(a)
    PROVE  IInv'
<1>1. PICK k : k = worker[a].command
  OBVIOUS
<1>2. /\ worker[a].pc = "accept" /\ worker[a].pc \in Live /\ Types
      /\ UNCHANGED <<handler, pending>>
  BY DEF Accept, Live, IInv
<1>3. k \in Commands
  <2>1. worker[a] \in Worker /\ k # None
    BY <1>1, <1>2 DEF IInv, Types, AttemptInv
  <2> QED
    BY <1>1, <2>1, SMT DEF Worker
<1>4. /\ Completions \cap Accepted = {"committed", "cleanup", "failed_later"}
      /\ {"storage", "command_conflict", "active_run", "committed", "cleanup",
          "commit_unknown"} \subseteq Completions
      /\ Errors \cap Accepted = {} /\ "commit_unknown" \in Errors
      /\ ErrorView("commit_unknown") # "refused" /\ ErrorView("command_conflict") # "refused"
  BY DEF Completions, Errors, Accepted, ErrorView
<1>5. ASSUME UNCHANGED ledger,
             \/ Complete(a, "storage")
             \/ Complete(a, "active_run")
             \/ Complete(a, "commit_unknown")
             \/ Complete(a, "command_conflict") /\ Conflicts(k)
             \/ Complete(a, "committed") /\ Recorded(k)
      PROVE  IInv'
  <2>1. Records(a) /\ (Conflicts(k) => Conflicts(k)') /\ (Recorded(k) => Recorded(k)')
    BY <1>2, <1>5, NothingRecorded DEF Conflicts, Recorded
  <2>2. /\ "storage" \notin Accepted /\ "active_run" \notin Accepted
        /\ "commit_unknown" \notin Accepted /\ "command_conflict" \notin Accepted
        /\ "committed" \notin Errors
    BY DEF Accepted, Errors
  <2>3. CASE Complete(a, "storage")
    BY <1>1, <1>2, <1>4, <1>5, <2>1, <2>2, <2>3, CompleteStep
  <2>4. CASE Complete(a, "active_run")
    BY <1>1, <1>2, <1>4, <1>5, <2>1, <2>2, <2>4, CompleteStep, SMT
  <2>5. CASE Complete(a, "commit_unknown")
    BY <1>1, <1>2, <1>4, <1>5, <2>1, <2>2, <2>5, CompleteStep, SMT
  <2>6. CASE Complete(a, "command_conflict") /\ Conflicts(k)
    BY <1>1, <1>2, <1>4, <1>5, <2>1, <2>2, <2>6, CompleteStep
  <2>7. CASE Complete(a, "committed") /\ Recorded(k)
    BY <1>1, <1>2, <1>4, <1>5, <2>1, <2>2, <2>7, CompleteStep
  <2> QED
    BY <1>5, <2>3, <2>4, <2>5, <2>6, <2>7
<1>6. ASSUME ledger[k.op] = None, ledger' = [ledger EXCEPT ![k.op] = k],
             \/ Works(a, "committed")
             \/ Complete(a, "committed")
             \/ Complete(a, "cleanup")
             \/ Complete(a, "commit_unknown")
      PROVE  IInv'
  <2>1. Records(a) /\ Recorded(k)'
    BY <1>1, <1>2, <1>3, <1>6, CommitFacts
  <2>2. "committed" \notin Errors /\ "cleanup" \notin Errors /\ "committed" \in Live
    BY DEF Errors, Live
  <2>3. CASE Works(a, "committed")
    BY <1>1, <1>2, <2>1, <2>2, <2>3, WorksStep DEF Works
  <2>4. CASE Complete(a, "committed")
    BY <1>1, <1>2, <1>4, <2>1, <2>2, <2>4, CompleteStep
  <2>5. CASE Complete(a, "cleanup")
    BY <1>1, <1>2, <1>4, <2>1, <2>2, <2>5, CompleteStep
  <2>6. CASE Complete(a, "commit_unknown")
    BY <1>1, <1>2, <1>4, <2>1, <2>6, CompleteStep, SMT
  <2> QED
    BY <1>6, <2>3, <2>4, <2>5, <2>6
<1> QED
  BY <1>1, <1>5, <1>6 DEF Accept, Recorded, Conflicts

LEMMA NotifyStep ==
    ASSUME IInv, NEW a \in Attempts, Notify(a)
    PROVE  IInv'
<1>1. PICK k : k = worker[a].command
  OBVIOUS
<1>2. /\ worker[a].pc \in Live /\ "running" \in Live /\ UNCHANGED <<ledger, handler, pending>>
      /\ Records(a) /\ worker' = [worker EXCEPT ![a].pc = "running"] /\ Tell(a, "acceptance")
  BY NothingRecorded DEF Notify, Live, IInv
<1>3. Recorded(k)'
  BY <1>1 DEF Notify, IInv, AttemptInv, Recorded
<1>4. PICK p : p = "running"
  OBVIOUS
<1>5. p \in Live /\ worker' = [worker EXCEPT ![a].pc = p] /\ p \notin {"open", "accept"}
  BY <1>2, <1>4
<1> QED
  BY <1>1, <1>2, <1>3, <1>5, WorksStep

LEMMA FinishStep ==
    ASSUME IInv, NEW a \in Attempts, Finish(a)
    PROVE  IInv'
<1>1. PICK k : k = worker[a].command
  OBVIOUS
<1>2. worker[a].pc \in Live /\ UNCHANGED <<ledger, handler, pending>> /\ Records(a)
  BY NothingRecorded DEF Finish, Live, IInv
<1>3. Recorded(k)'
  BY <1>1 DEF Finish, IInv, AttemptInv, Recorded
<1>4. \A v \in {"committed", "failed_later"} :
         v \in Completions /\ v \notin Errors /\ v # "command_conflict"
  BY DEF Completions, Errors
<1>5. PICK v \in {"committed", "failed_later"} : Complete(a, v)
  BY DEF Finish
<1> QED
  BY <1>1, <1>2, <1>3, <1>4, <1>5, CompleteStep

LEMMA LoseStep ==
    ASSUME IInv, NEW a \in Attempts, Lose(a)
    PROVE  IInv'
<1>1. /\ worker[a].pc \in Live /\ UNCHANGED <<ledger, handler, pending>> /\ Records(a)
      /\ Complete(a, "worker_lost")
  BY NothingRecorded DEF Lose, IInv
<1>2. /\ "worker_lost" \in Completions /\ "worker_lost" \notin Accepted
      /\ "worker_lost" # "command_conflict" /\ ErrorView("worker_lost") # "refused"
  BY DEF Completions, Errors, Accepted, ErrorView
<1> QED
  BY <1>1, <1>2, CompleteStep

-----------------------------------------------------------------------------
(***************************************************************************)
(* The browser.                                                            *)
(***************************************************************************)

LEMMA SendsFacts ==
    ASSUME Types, NEW a \in Attempts, NEW c \in Commands, NEW g, g \in BOOLEAN,
           Sends(a, c, g)
    PROVE  /\ handler' \in [Attempts -> Handler]
           /\ \A b \in Attempts : b # a => handler'[b] = handler[b]
           /\ handler'[a].command = c /\ handler'[a].reconciles = g
           /\ handler'[a].pc = IF c.kind = "task" THEN "lookup" ELSE "write"
<1> DEFINE h == [handler[a] EXCEPT !.command = c, !.reconciles = g,
                                   !.pc = IF c.kind = "task" THEN "lookup" ELSE "write"]
<1>1. handler' = [handler EXCEPT ![a] = h]
  BY DEF Sends, Types
<1>2. handler[a] \in Handler
  BY DEF Types
<1>3. /\ h.command = c /\ h.reconciles = g
      /\ h.pc = IF c.kind = "task" THEN "lookup" ELSE "write"
  BY <1>2, SMT DEF Handler
<1>4. h \in Handler
  <2> DEFINE p == IF c.kind = "task" THEN "lookup" ELSE "write"
  <2>1. [handler[a] EXCEPT !.command = c] \in Handler
    BY <1>2, HandlerFields
  <2>2. [[handler[a] EXCEPT !.command = c] EXCEPT !.reconciles = g] \in Handler
    BY <2>1, HandlerFields
  <2>3. p \in Serving
    BY DEF Serving
  <2> HIDE DEF p
  <2>4. [[[handler[a] EXCEPT !.command = c] EXCEPT !.reconciles = g] EXCEPT !.pc = p] \in Handler
    BY <2>2, <2>3, HandlerFields
  <2> QED
    BY <2>4 DEF p
<1> HIDE DEF h
<1> QED
  BY <1>1, <1>3, <1>4 DEF Types

LEMMA AwaitsFacts ==
    ASSUME Types, NEW c \in Sent, NEW a \in Attempts, NEW f, f \in {"sending", "reconciling"},
           Awaits(c, f, a)
    PROVE  /\ Sent' = Sent /\ pending' \in [Sent -> Item]
           /\ \A d \in Sent : d # c => pending'[d] = pending[d]
           /\ pending'[c].phase = f /\ pending'[c].before = pending[c].phase
           /\ pending'[c].waiter = a /\ pending'[c].receipt = pending[c].receipt
<1> DEFINE i == [pending[c] EXCEPT !.phase = f, !.before = pending[c].phase, !.waiter = a]
<1>1. pending' = [pending EXCEPT ![c] = i]
  BY DEF Awaits, Types
<1>2. pending[c] \in Item
  BY DEF Types
<1>3. /\ i.phase = f /\ i.before = pending[c].phase
      /\ i.waiter = a /\ i.receipt = pending[c].receipt
  BY <1>2, SMT DEF Item
<1>4. i \in Item
  <2>1. pending[c].phase \in Phases /\ f \in Phases
    BY <1>2 DEF Item, Phases
  <2>2. PICK q \in Phases : q = pending[c].phase
    BY <2>1
  <2>3. [pending[c] EXCEPT !.phase = f] \in Item
    BY <1>2, <2>1, ItemFields
  <2>4. [[pending[c] EXCEPT !.phase = f] EXCEPT !.before = q] \in Item
    BY <2>3, ItemFields
  <2>5. [[[pending[c] EXCEPT !.phase = f] EXCEPT !.before = q] EXCEPT !.waiter = a] \in Item
    BY <2>4, ItemFields
  <2> QED
    BY <2>2, <2>5
<1> HIDE DEF i
<1> QED
  BY <1>1, <1>3, <1>4 DEF Types, Sent

\* A fresh request is sent for a command.
LEMMA SendStep ==
    ASSUME IInv, NEW c \in Sent, NEW a \in Attempts, handler[a].pc = "idle",
           NEW f, f \in {"sending", "reconciling"}, NEW g, g \in BOOLEAN,
           Sends(a, c, g), Awaits(c, f, a), UNCHANGED <<ledger, worker, ticket>>,
           f = "sending" => ~g /\ pending[c].phase \in {"none", "uncertain", "rejected"},
           f = "reconciling" =>
              g /\ c.kind = "task" /\ pending[c].phase \in {"uncertain", "rejected", "accepted"}
    PROVE  IInv'
<1>1. Types /\ AttemptInv(a) /\ ItemInv(c) /\ c \in Commands /\ c # None /\ a # None
  BY CommandsAssumption DEF IInv, Types
<1>2. /\ handler' \in [Attempts -> Handler]
      /\ \A b \in Attempts : b # a => handler'[b] = handler[b]
      /\ handler'[a].command = c /\ handler'[a].reconciles = g
      /\ handler'[a].pc = IF c.kind = "task" THEN "lookup" ELSE "write"
  BY <1>1, SendsFacts
<1>3. /\ Sent' = Sent /\ pending' \in [Sent -> Item]
      /\ \A d \in Sent : d # c => pending'[d] = pending[d]
      /\ pending'[c].phase = f /\ pending'[c].before = pending[c].phase
      /\ pending'[c].waiter = a /\ pending'[c].receipt = pending[c].receipt
  BY <1>1, AwaitsFacts
<1>4. Types'
  BY <1>1, <1>2, <1>3 DEF Types
<1>5. worker[a].command = None /\ ticket[a] = None
  BY <1>1 DEF AttemptInv
<1>6. ASSUME NEW b \in Attempts PROVE AttemptInv(b)'
  <2>1. CASE b # a
    <3>1. handler'[b] = handler[b] /\ AttemptInv(b)
      BY <1>2, <2>1 DEF IInv
    <3> QED
      BY <3>1 DEF AttemptInv, Recorded, Conflicts
  <2>2. CASE b = a
    <3>1. None \notin Accepted \cup {"command_conflict"} /\ worker[a].pc \notin Live
      BY <1>1, <1>5, CommandsAssumption DEF Accepted, Completions, Errors, AttemptInv
    <3>2. handler'[a].pc \in {"lookup", "write"} /\ (g => handler'[a].pc = "lookup")
      BY <1>2
    <3> QED
      BY <1>1, <1>2, <1>5, <2>2, <3>1, <3>2 DEF AttemptInv, Serving, Live
  <2> QED
    BY <2>1, <2>2
<1>7. ASSUME NEW d \in Sent, NEW w, d # c \/ w = a \/ g, OnlyBy(d, w) PROVE OnlyBy(d, w)'
  BY <1>2, <1>7 DEF OnlyBy
<1>8. ASSUME NEW d \in Sent PROVE ItemInv(d)'
  <2>1. CASE d # c
    <3>1. ItemInv(d) /\ pending'[d] = pending[d]
      BY <1>3, <2>1 DEF IInv
    <3>2. Untouched(d) => Untouched(d)'
      BY <1>7, <2>1 DEF Untouched, Recorded
    <3> QED
      BY <3>1, <3>2 DEF ItemInv, Recorded, Conflicts
  <2>2. CASE d = c
    <3>1. f = "reconciling" /\ pending[c].phase = "rejected" => Untouched(c)'
      BY <1>1, <1>7 DEF ItemInv, Untouched, Recorded
    <3>2. pending[c].receipt \/ pending[c].phase = "accepted" => Recorded(c)'
      BY <1>1 DEF ItemInv, Recorded
    <3> QED
      BY <1>1, <1>3, <2>2, <3>1, <3>2 DEF ItemInv
  <2> QED
    BY <2>1, <2>2
<1>9. \A d \in Sent : pending[d].waiter # a
  BY DEF IInv, Waited, Serving
<1>10. ASSUME NEW d \in Sent, NEW b \in Attempts, pending'[d].waiter = b PROVE Waited(d, b)'
  <2>1. CASE d # c
    <3>1. Waited(d, b) /\ b # a /\ pending'[d] = pending[d] /\ handler'[b] = handler[b]
      BY <1>2, <1>3, <1>9, <1>10, <2>1 DEF IInv
    <3>2. OwnInv(d, b) => OwnInv(d, b)'
      BY <1>7, <2>1, <3>1 DEF OwnInv, Spared, Recorded
    <3> QED
      BY <3>1, <3>2 DEF Waited, Recorded, Conflicts
  <2>2. CASE d = c
    <3>1. b = a
      BY <1>3, <1>10, <2>2
    <3>2. f = "sending" /\ pending[c].phase # "uncertain" => OwnInv(c, a)'
      <4> SUFFICES ASSUME f = "sending", pending[c].phase # "uncertain" PROVE OwnInv(c, a)'
        OBVIOUS
      <4>1. Untouched(c)
        BY <1>1 DEF ItemInv
      <4>2. OnlyBy(c, a)
        BY <4>1, CommandsAssumption DEF Untouched, OnlyBy
      <4>4. OnlyBy(c, a)'
        BY <1>7, <4>2
      <4>3. Spared(c, a)'
        BY <1>5, <4>1 DEF Untouched, Spared, Recorded
      <4> QED
        BY <4>3, <4>4 DEF OwnInv, Spared
    <3>3. handler'[a].pc \in {"lookup", "write"}
      BY <1>2
    <3> QED
      BY <1>2, <1>3, <2>2, <3>1, <3>2, <3>3 DEF Waited, Serving
  <2> QED
    BY <2>1, <2>2
<1>11. WaitersInv'
  <2> SUFFICES ASSUME NEW d \in Sent, NEW e \in Sent,
                      pending'[d].waiter = pending'[e].waiter, pending'[d].waiter # None
               PROVE  d = e
    BY <1>3 DEF WaitersInv
  <2>1. CASE d # c /\ e # c
    BY <1>3, <2>1 DEF IInv, WaitersInv
  <2>2. CASE d = c \/ e = c
    BY <1>3, <1>9, <2>2
  <2> QED
    BY <2>1, <2>2
<1> QED
  BY <1>3, <1>4, <1>6, <1>8, <1>10, <1>11 DEF IInv

LEMMA SettlesFacts ==
    ASSUME Types, NEW c \in Sent, NEW f, f \in {"none", "uncertain", "rejected", "accepted", "conflict"},
           NEW g, g \in BOOLEAN, Settles(c, f, g)
    PROVE  /\ Sent' = Sent /\ pending' \in [Sent -> Item]
           /\ \A d \in Sent : d # c => pending'[d] = pending[d]
           /\ pending'[c].phase = f /\ pending'[c].before = "none"
           /\ pending'[c].waiter = None /\ pending'[c].receipt = g
<1> DEFINE i == [phase |-> f, before |-> "none", receipt |-> g, waiter |-> None]
<1>1. pending' = [pending EXCEPT ![c] = i]
  BY DEF Settles
<1>2. i \in Item /\ i.phase = f /\ i.before = "none" /\ i.waiter = None /\ i.receipt = g
  BY DEF Item, Phases
<1> HIDE DEF i
<1> QED
  BY <1>1, <1>2 DEF Types, Sent

\* The browser takes an answer, or goes on without one.
LEMMA SettleStep ==
    ASSUME IInv, NEW c \in Sent, NEW a \in Attempts, pending[c].waiter = a,
           NEW f, f \in {"none", "uncertain", "rejected", "accepted", "conflict"},
           NEW g, g \in BOOLEAN, Settles(c, f, g),
           UNCHANGED handler \/ handler' = [handler EXCEPT ![a] = Without("gone")],
           UNCHANGED handler \/ handler[a].pc = "answered",
           UNCHANGED <<ledger, worker, ticket>>,
           f \in {"none", "rejected"} => Untouched(c)',
           g \/ f = "accepted" => Recorded(c),
           f = "conflict" => Conflicts(c)
    PROVE  IInv'
<1>1. Types /\ AttemptInv(a) /\ c \in Commands /\ a # None
  BY CommandsAssumption DEF IInv, Types
<1>2. /\ Sent' = Sent /\ pending' \in [Sent -> Item]
      /\ \A d \in Sent : d # c => pending'[d] = pending[d]
      /\ pending'[c].phase = f /\ pending'[c].before = "none"
      /\ pending'[c].waiter = None /\ pending'[c].receipt = g
  BY <1>1, SettlesFacts
<1>3. /\ handler' \in [Attempts -> Handler]
      /\ \A b \in Attempts : b # a => handler'[b] = handler[b]
      /\ \/ handler'[a] = handler[a]
         \/ handler'[a].pc = "gone" /\ handler'[a].command = None /\ ~handler'[a].reconciles
  BY <1>1, WithoutFacts DEF Types
<1>4. Types'
  BY <1>1, <1>2, <1>3 DEF Types
<1>5. ASSUME NEW b \in Attempts PROVE AttemptInv(b)'
  <2>1. AttemptInv(b)
    BY DEF IInv
  <2>2. CASE handler'[b] = handler[b]
    BY <2>1, <2>2 DEF AttemptInv, Recorded, Conflicts
  <2>3. CASE handler'[b] # handler[b]
    <3>1. /\ b = a /\ handler[a].pc = "answered" /\ handler'[a].pc = "gone"
          /\ handler'[a].command = None /\ ~handler'[a].reconciles
      BY <1>3, <2>3
    <3>2. ticket[a] = None /\ None \notin Accepted \cup {"command_conflict"}
      BY <1>1, <3>1, CommandsAssumption DEF AttemptInv, Accepted, Completions, Errors
    <3> QED
      BY <1>1, <3>1, <3>2 DEF AttemptInv, Serving, Recorded
  <2> QED
    BY <2>2, <2>3
<1>6. ASSUME NEW d \in Sent, NEW w, OnlyBy(d, w) PROVE OnlyBy(d, w)'
  <2>1. d # None
    BY <1>1, CommandsAssumption DEF Types
  <2> QED
    BY <1>3, <1>6, <2>1 DEF OnlyBy
<1>7. ASSUME NEW d \in Sent PROVE ItemInv(d)'
  <2>1. CASE d # c
    <3>1. ItemInv(d) /\ pending'[d] = pending[d]
      BY <1>2, <2>1 DEF IInv
    <3>2. Untouched(d) => Untouched(d)'
      BY <1>6 DEF Untouched, Recorded
    <3> QED
      BY <3>1, <3>2 DEF ItemInv, Recorded, Conflicts
  <2>2. CASE d = c
    BY <1>2, <2>2 DEF ItemInv, Recorded, Conflicts
  <2> QED
    BY <2>1, <2>2
<1>8. ASSUME NEW d \in Sent, NEW b \in Attempts, pending'[d].waiter = b PROVE Waited(d, b)'
  <2>1. d # c
    BY <1>2, <1>8, CommandsAssumption
  <2>5. pending[d].waiter = b /\ pending'[d] = pending[d]
    BY <1>2, <1>8, <2>1
  <2>6. b # a
    BY <1>1, <2>1, <2>5 DEF IInv, WaitersInv
  <2>2. pending[d].waiter = b /\ b # a /\ pending'[d] = pending[d] /\ handler'[b] = handler[b]
    BY <1>3, <2>5, <2>6
  <2>3. Waited(d, b)
    BY <2>2 DEF IInv
  <2>4. OwnInv(d, b) => OwnInv(d, b)'
    BY <1>6, <2>2 DEF OwnInv, Spared, Recorded
  <2> QED
    BY <2>2, <2>3, <2>4 DEF Waited, Recorded, Conflicts
<1>9. WaitersInv'
  <2> SUFFICES ASSUME NEW d \in Sent, NEW e \in Sent,
                      pending'[d].waiter = pending'[e].waiter, pending'[d].waiter # None
               PROVE  d = e
    BY <1>2 DEF WaitersInv
  <2>1. d # c /\ e # c
    BY <1>2
  <2>2. pending'[d] = pending[d] /\ pending'[e] = pending[e]
    BY <1>2, <2>1
  <2> QED
    BY <2>2 DEF IInv, WaitersInv
<1> QED
  BY <1>2, <1>4, <1>5, <1>7, <1>8, <1>9 DEF IInv

LEMMA Settled ==
    ASSUME IInv, NEW c \in Sent, NEW a \in Attempts, pending[c].waiter = a
    PROVE  /\ pending[c].phase \in {"sending", "reconciling"} /\ pending[c].receipt \in BOOLEAN
           /\ ItemInv(c) /\ Waited(c, a)
<1>1. ItemInv(c) /\ Waited(c, a) /\ pending[c] \in Item /\ a # None
  BY CommandsAssumption DEF IInv, Types
<1>2. pending[c].receipt \in BOOLEAN
  BY <1>1, SMT DEF Item
<1> QED
  BY <1>1, <1>2 DEF ItemInv

\* What a failure makes of a command: it is rejected only when the refusal is
\* about all that was sent, or when it was rejected before the reconciliation.
LEMMA FailureFacts ==
    ASSUME IInv, NEW c \in Sent, NEW a \in Attempts, pending[c].waiter = a, NEW r,
           r = "conflict" => Conflicts(c),
           r = "refused" /\ pending[c].phase = "sending" /\ pending[c].before # "uncertain" =>
              Untouched(c)',
           Untouched(c) => Untouched(c)'
    PROVE  LET f == commandFailure(pending[c], r)
           IN  /\ f \in {"uncertain", "rejected", "accepted", "conflict"}
               /\ f = "rejected" => Untouched(c)'
               /\ pending[c].receipt \/ f = "accepted" => Recorded(c)
               /\ f = "conflict" => Conflicts(c)
<1>1. /\ pending[c].phase \in {"sending", "reconciling"} /\ ItemInv(c)
  BY Settled
<1> QED
  BY <1>1 DEF commandFailure, ItemInv

LEMMA AbortStep ==
    ASSUME IInv, NEW c \in Sent, Abort(c)
    PROVE  IInv'
<1>1. pending[c].waiter # None /\ pending[c] \in Item
  BY DEF Abort, IInv, Types
<1>2. pending[c].waiter \in Attempts
  BY <1>1, SMT DEF Item
<1>3. PICK a \in Attempts : pending[c].waiter = a
  BY <1>2
<1>4. PICK f : f = commandFailure(pending[c], "no_answer")
  OBVIOUS
<1>5. PICK g : g = pending[c].receipt
  OBVIOUS
<1>6. /\ Settles(c, f, g) /\ UNCHANGED <<ledger, handler, worker, ticket>>
  BY <1>4, <1>5 DEF Abort
<1>7. Untouched(c) => Untouched(c)'
  BY <1>6 DEF Untouched, OnlyBy, Recorded
<1>8. /\ f \in {"uncertain", "rejected", "accepted", "conflict"}
      /\ f = "rejected" => Untouched(c)'
      /\ g \/ f = "accepted" => Recorded(c)
      /\ f = "conflict" => Conflicts(c)
  BY <1>3, <1>4, <1>5, <1>7, FailureFacts, SMT
<1>9. g \in BOOLEAN
  BY <1>3, <1>5, Settled
<1> QED
  BY <1>3, <1>6, <1>8, <1>9, SettleStep

LEMMA DeliverStep ==
    ASSUME IInv, NEW c \in Sent, Deliver(c)
    PROVE  IInv'
<1>1. pending[c].waiter # None /\ pending[c] \in Item
  BY DEF Deliver, IInv, Types
<1>2. pending[c].waiter \in Attempts
  BY <1>1, SMT DEF Item
<1>3. PICK a \in Attempts : pending[c].waiter = a
  BY <1>2
<1>4. PICK r : r = handler[a].reply
  OBVIOUS
<1>5. /\ handler[a].pc = "answered" /\ handler' = [handler EXCEPT ![a] = Without("gone")]
      /\ UNCHANGED <<ledger, worker, ticket>>
  BY <1>3 DEF Deliver
<1>6. PICK g : g = pending[c].receipt
  OBVIOUS
<1>7. /\ g \in BOOLEAN /\ pending[c].phase \in {"sending", "reconciling"}
      /\ ItemInv(c) /\ Waited(c, a)
  BY <1>3, <1>6, Settled
<1>8. /\ handler \in [Attempts -> Handler] /\ c \in Commands /\ c # None /\ a # None
  BY CommandsAssumption DEF IInv, Types
<1>9. ASSUME NEW w, OnlyBy(c, w) PROVE OnlyBy(c, w)'
  BY <1>5, <1>8, <1>9, WithoutFacts DEF OnlyBy
<1>10. Untouched(c) => Untouched(c)'
  BY <1>5, <1>9 DEF Untouched, Recorded
<1>11. ASSUME r = "refused", pending[c].phase = "sending", pending[c].before # "uncertain"
       PROVE  Untouched(c)'
  <2>1. OnlyBy(c, a) /\ Spared(c, a)
    BY <1>4, <1>5, <1>7, <1>11 DEF Waited, OwnInv
  <2>2. OnlyBy(c, None)
    BY <1>5, <1>7, <1>8, <2>1 DEF OnlyBy, Spared, IInv, AttemptInv, Serving
  <2> QED
    BY <1>10, <2>1, <2>2 DEF Untouched, Spared
<1>12. CASE r = "accepted"
  <2>1. Settles(c, "accepted", TRUE)
    BY <1>3, <1>4, <1>12 DEF Deliver
  <2>2. Recorded(c)
    BY <1>4, <1>5, <1>7, <1>12 DEF Waited
  <2> QED
    BY <1>3, <1>5, <2>1, <2>2, SettleStep
<1>13. CASE r = "not_found"
  <2>1. PICK f : f = IF g THEN "accepted" ELSE pending[c].before
    OBVIOUS
  <2>2. Settles(c, f, g)
    BY <1>3, <1>4, <1>6, <1>13, <2>1 DEF Deliver
  <2>3. pending[c].phase = "reconciling"
    BY <1>4, <1>5, <1>7, <1>13 DEF Waited
  <2>4. /\ f \in {"uncertain", "rejected", "accepted"}
        /\ f = "rejected" => Untouched(c)'
        /\ g \/ f = "accepted" => Recorded(c)
    BY <1>6, <1>7, <1>10, <2>1, <2>3 DEF ItemInv
  <2> QED
    BY <1>3, <1>5, <1>7, <2>2, <2>4, SettleStep
<1>14. CASE r \notin {"accepted", "not_found"}
  <2>1. PICK f : f = commandFailure(pending[c], r)
    OBVIOUS
  <2>2. Settles(c, f, g)
    BY <1>3, <1>4, <1>6, <1>14, <2>1 DEF Deliver
  <2>3. r = "conflict" => Conflicts(c)
    BY <1>4, <1>5, <1>7 DEF Waited
  <2>4. /\ f \in {"uncertain", "rejected", "accepted", "conflict"}
        /\ f = "rejected" => Untouched(c)'
        /\ g \/ f = "accepted" => Recorded(c)
        /\ f = "conflict" => Conflicts(c)
    BY <1>3, <1>6, <1>10, <1>11, <2>1, <2>3, FailureFacts, SMT
  <2> QED
    BY <1>3, <1>5, <1>7, <2>2, <2>4, SettleStep
<1> QED
  BY <1>12, <1>13, <1>14

-----------------------------------------------------------------------------
(***************************************************************************)
(* The theorems about commands.                                            *)
(***************************************************************************)

LEMMA InitInv ==
    Init => IInv
<1> SUFFICES ASSUME Init PROVE IInv
  OBVIOUS
<1> DEFINE i == [phase |-> "none", before |-> "none", receipt |-> FALSE, waiter |-> None]
<1>1. PICK sent \in Scenarios : pending = [c \in sent |-> i]
  BY DEF Init
<1>2. sent \subseteq Commands /\ Sent = sent
  BY <1>1, CommandsAssumption DEF Sent
<1>3. i \in Item /\ i.phase = "none" /\ i.before = "none" /\ ~i.receipt /\ i.waiter = None
  BY DEF Item, Phases
<1>4. /\ NoWorker \in Worker /\ NoWorker.pc = "none" /\ NoWorker.command = None
  BY SMT DEF NoWorker, Worker
<1> HIDE DEF i
<1>5. /\ \A c \in Sent : pending[c] = i
      /\ \A a \in Attempts : handler[a] = Without("idle")
      /\ \A a \in Attempts : worker[a] = NoWorker /\ ticket[a] = None
      /\ \A o \in Ops : ledger[o] = None
  BY <1>1, <1>2 DEF Init
<1>6. Types
  <2>1. handler \in [Attempts -> Handler]
    BY WithoutFacts DEF Init
  <2>2. worker \in [Attempts -> Worker]
    BY <1>4 DEF Init
  <2>3. pending \in [Sent -> Item]
    BY <1>1, <1>2, <1>3
  <2>4. ledger \in [Ops -> Commands \cup {None}] /\ ticket \in [Attempts -> Ticket]
    BY DEF Init, Ticket
  <2> QED
    BY <1>2, <2>1, <2>2, <2>3, <2>4 DEF Types
<1>7. ASSUME NEW a \in Attempts PROVE AttemptInv(a)
  <2>1. handler[a].pc = "idle" /\ handler[a].command = None /\ ~handler[a].reconciles
    BY <1>5, WithoutFacts
  <2>2. None \notin Accepted \cup {"command_conflict"}
    BY CommandsAssumption DEF Accepted, Completions, Errors
  <2> QED
    BY <1>4, <1>5, <2>1, <2>2 DEF AttemptInv, Serving, Live
<1>8. ASSUME NEW c \in Sent PROVE ItemInv(c)
  <2>1. c.op \in Ops /\ c # None /\ c \in Commands
    BY <1>2, CommandsAssumption DEF Ops
  <2>2. Untouched(c)
    BY <1>4, <1>5, <2>1, WithoutFacts DEF Untouched, OnlyBy, Recorded
  <2> QED
    BY <1>3, <1>5, <2>2 DEF ItemInv
<1> QED
  BY <1>3, <1>5, <1>6, <1>7, <1>8, CommandsAssumption DEF IInv, WaitersInv

LEMMA StutterStep ==
    ASSUME IInv, UNCHANGED <<ledger, handler, worker, ticket, pending>>
    PROVE  IInv'
<1>1. \A a \in Attempts : AttemptInv(a)'
  BY DEF IInv, AttemptInv, Recorded, Conflicts
<1>2. Sent' = Sent
  BY DEF Sent
<1>3. \A c : OnlyBy(c, None) = OnlyBy(c, None)'
  BY DEF OnlyBy
<1>4. \A c, a : OnlyBy(c, a) = OnlyBy(c, a)'
  BY DEF OnlyBy
<1>5. \A c \in Sent : ItemInv(c)'
  BY <1>3 DEF IInv, ItemInv, Untouched, Recorded, Conflicts
<1>6. ASSUME NEW c \in Sent, NEW a \in Attempts, pending[c].waiter = a PROVE Waited(c, a)'
  <2>1. Waited(c, a)
    BY <1>6 DEF IInv
  <2>2. OwnInv(c, a) => OwnInv(c, a)'
    BY <1>4 DEF OwnInv, Spared, Recorded
  <2> QED
    BY <2>1, <2>2 DEF Waited, Recorded, Conflicts
<1>7. Types' /\ WaitersInv'
  BY <1>2 DEF IInv, Types, WaitersInv
<1> QED
  BY <1>1, <1>2, <1>5, <1>6, <1>7 DEF IInv

LEMMA NextStep ==
    ASSUME IInv, [Next]_vars
    PROVE  IInv'
<1>1. ASSUME NEW a \in Attempts,
             \/ Lookup(a) \/ Prepare(a) \/ Write(a) \/ Wait(a) \/ Refresh(a) \/ reconcile(a)
             \/ Closed(a) \/ Drop(a)
      PROVE  IInv'
  BY <1>1, LookupStep, PrepareStep, WriteStep, WaitStep, RefreshStep, ReconcileStep, ClosedStep,
     DropStep
<1>2. ASSUME NEW a \in Attempts,
             OpenSession(a) \/ Accept(a) \/ Notify(a) \/ Finish(a) \/ Lose(a)
      PROVE  IInv'
  BY <1>2, OpenSessionStep, AcceptStep, NotifyStep, FinishStep, LoseStep
<1>3. ASSUME NEW c \in Sent, NEW a \in Attempts, Execute(c, a)
      PROVE  IInv'
  <2>1. /\ pending[c].phase \in {"none", "uncertain", "rejected"} /\ handler[a].pc = "idle"
        /\ Sends(a, c, FALSE) /\ Awaits(c, "sending", a)
        /\ UNCHANGED <<ledger, worker, ticket>>
    BY <1>3 DEF Execute, Fresh
  <2> QED
    BY <2>1, SendStep
<1>4. ASSUME NEW c \in Sent, NEW a \in Attempts, ReconcileTask(c, a)
      PROVE  IInv'
  <2>1. /\ c.kind = "task" /\ pending[c].phase \in {"uncertain", "rejected", "accepted"}
        /\ handler[a].pc = "idle"
        /\ Sends(a, c, TRUE) /\ Awaits(c, "reconciling", a)
        /\ UNCHANGED <<ledger, worker, ticket>>
    BY <1>4 DEF ReconcileTask, Fresh
  <2> QED
    BY <2>1, SendStep
<1>5. CASE \E c \in Sent : Deliver(c) \/ Abort(c)
  BY <1>5, DeliverStep, AbortStep
<1>6. CASE Initiate \/ UNCHANGED vars
  BY <1>6, StutterStep DEF Initiate, vars
<1> QED
  BY <1>1, <1>2, <1>3, <1>4, <1>5, <1>6 DEF Next

\* The inductive invariant: what the browser waits for, what the handlers are
\* about to answer and what they left with the host agree with the ledger.
THEOREM Invariant == Spec => []IInv
<1>1. IInv /\ [Next]_vars => IInv'
  BY NextStep
<1> QED
  BY <1>1, InitInv, PTL DEF Spec

\* Whatever is lost, retried or closed, what the browser shows of a command is
\* so: rejected means that it is not recorded and that nothing sent for it can
\* still record it, accepted that the ledger holds it with its text, conflict
\* that the ledger holds another command under the operation or, for a task alone,
\* this one as another attempt prepared it.
THEOREM Answers == Spec => []AnswersAreTrue
<1>1. IInv => AnswersAreTrue
  <2> SUFFICES ASSUME IInv, NEW c \in Sent
      PROVE /\ pending[c].phase = "rejected" =>
                  ~Recorded(c) /\ \A a \in Attempts : worker[a].command # c
            /\ pending[c].phase = "accepted" \/ pending[c].receipt => Recorded(c)
            /\ pending[c].phase = "conflict" =>
                  ledger[c.op] # None /\ (Recorded(c) => c.kind = "task")
    BY DEF AnswersAreTrue
  <2>1. ItemInv(c) /\ \A a \in Attempts : a # None
    BY CommandsAssumption DEF IInv
  <2> QED
    BY <2>1 DEF ItemInv, Untouched, OnlyBy, Conflicts, Recorded
<1> QED
  BY <1>1, Invariant, PTL

-----------------------------------------------------------------------------
(***************************************************************************)
(* Serving (HttpService), for any sockets, page size and history.          *)
(***************************************************************************)

CONSTANTS Sockets, Streams, PageSize, MaxHead
VARIABLES serving, shutdown, network_close, host, network, failure, outcome, head, socket, stream

Service == INSTANCE HttpService

\* What serve has waited for stays so: the network has ended, then the sockets
\* are gone, then the host has its outcome.
ServeInv ==
    /\ socket \in [Sockets -> {"free", "open", "retired"}]
    /\ serving \in {"connections", "ticket", "done"} => network \in Service!Ended
    /\ serving \in {"ticket", "done"} => \A k \in Sockets : socket[k] # "open"
    /\ serving = "done" =>
          /\ outcome.shutdown = host /\ host \in {"closed", "incomplete"}
          /\ failure => outcome.http = "accept_failed"
    /\ serving = "dropped" => network_close /\ host # "open"

LEMMA ServeInit == Service!Init => ServeInv
BY DEF Service!Init, ServeInv

LEMMA ServeNext ==
    ASSUME ServeInv, Service!Next \/ UNCHANGED Service!vars
    PROVE  ServeInv'
<1> USE DEF ServeInv
<1>1. CASE Service!Start
  BY <1>1 DEF Service!Start
<1>2. CASE Service!Select
  BY <1>2 DEF Service!Select, Service!initiate
<1>3. CASE Service!NetworkEnded
  BY <1>3 DEF Service!NetworkEnded
<1>4. CASE Service!Connections
  BY <1>4 DEF Service!Connections, Service!SocketsRetired, Service!NoSocket, Service!Open
<1>5. CASE Service!Finish
  <2>1. /\ outcome'.shutdown = host /\ (failure => outcome'.http = "accept_failed")
    BY <1>5, SMT DEF Service!Finish
  <2> QED
    BY <1>5, <2>1 DEF Service!Finish
<1>6. CASE Service!DropServe
  BY <1>6 DEF Service!DropServe, Service!initiate
<1>7. CASE Service!Cancel
  BY <1>7 DEF Service!Cancel
<1>8. CASE Service!WorkerLost \/ Service!HostCloses
  BY <1>8 DEF Service!WorkerLost, Service!HostCloses
<1>9. CASE Service!AcceptFails
  BY <1>9 DEF Service!AcceptFails, Service!CloseNetwork, Service!Ended
<1>10. CASE Service!AxumReturns
  BY <1>10 DEF Service!AxumReturns, Service!Ended
<1>11. CASE Service!Record
  BY <1>11 DEF Service!Record, Service!serveVars
<1>12. ASSUME NEW k \in Sockets, Service!Accept(k) \/ Service!Retire(k)
       PROVE  ServeInv'
  <2>1. UNCHANGED <<serving, network_close, host, network, failure, outcome>>
    BY <1>12 DEF Service!Accept, Service!Retire, Service!serveVars
  <2>2. CASE Service!Accept(k)
    <3>1. /\ serving \in {"select", "network"} /\ socket' = [socket EXCEPT ![k] = "open"]
      BY <2>2 DEF Service!Accept
    <3> QED
      BY <2>1, <3>1
  <2>3. CASE Service!Retire(k)
    <3>1. socket' = [socket EXCEPT ![k] = "retired"]
      BY <2>3 DEF Service!Retire
    <3> QED
      BY <2>1, <3>1
  <2> QED
    BY <1>12, <2>2, <2>3
<1>13. ASSUME NEW k \in Sockets, Service!Events(k)
       PROVE  ServeInv'
  <2>1. UNCHANGED <<serving, network_close, host, network, failure, outcome, socket>>
    BY <1>13 DEF Service!Events, Service!OpenStream, Service!Emit, Service!EndOfPage, Service!Poll,
       Service!Read, Service!Becomes, Service!serveVars
  <2> QED
    BY <2>1
<1>14. CASE UNCHANGED Service!vars
  BY <1>14 DEF Service!vars, Service!serveVars
<1> QED
  BY <1>1, <1>2, <1>3, <1>4, <1>5, <1>6, <1>7, <1>8, <1>9, <1>10, <1>11, <1>12, <1>13, <1>14
     DEF Service!Next, Service!Owner

\* What serve returns is final: it has waited for the network, the sockets and
\* the host in an order in which none of them can come back, and a future that
\* is dropped has begun the shutdown.
THEOREM Outcome == Service!Spec => []Service!OutcomeIsFinal
<1>1. ServeInv /\ [Service!Next]_(Service!vars) => ServeInv'
  BY ServeNext
<1>2. ServeInv => Service!OutcomeIsFinal
  BY DEF ServeInv, Service!OutcomeIsFinal, Service!NoSocket, Service!Open
<1> QED
  BY <1>1, <1>2, ServeInit, PTL DEF Service!Spec

\* A stream: its cursor is at the last record that it has sent.
StreamFields == {"pc", "start", "after", "through", "last", "more", "sent", "end"}
IsStream(s) ==
    /\ DOMAIN s = StreamFields /\ s.start \in Nat /\ s.after \in Nat /\ s.sent \in Seq(Nat)
    /\ s.pc # "ended" => s.after = s.start + Len(s.sent)
    /\ \A i \in 1..Len(s.sent) : s.sent[i] = s.start + i

StreamInv ==
    /\ DOMAIN stream = Sockets
    /\ \A k \in Sockets : IsStream(stream[k]) /\ (stream[k].end = "wi.closed" => network_close)

\* What moves on without sending.
SameCursor(n, s) ==
    DOMAIN n = DOMAIN s /\ n.start = s.start /\ n.after = s.after /\ n.sent = s.sent

LEMMA SameStream ==
    ASSUME NEW n, NEW s, IsStream(s), SameCursor(n, s),
           s.pc # "ended" \/ n.pc = "ended"
    PROVE  IsStream(n)
BY DEF IsStream, SameCursor

LEMMA MovesFacts ==
    ASSUME NEW s, DOMAIN s = StreamFields
    PROVE  /\ \A p : LET n == [s EXCEPT !.pc = p] IN SameCursor(n, s) /\ n.end = s.end
           /\ \A e : LET n == Service!Ends(s, e) IN SameCursor(n, s) /\ n.end = e
           /\ \A t : LET n == Service!Page(s, t) IN SameCursor(n, s) /\ n.end = s.end
           /\ \A t : LET n == [s EXCEPT !.through = t] IN SameCursor(n, s) /\ n.end = s.end
           /\ SameCursor(Service!NextPage(s), s) /\ Service!NextPage(s).end = s.end
<1>1. \A p : LET n == [s EXCEPT !.pc = p] IN SameCursor(n, s) /\ n.end = s.end
  BY SMT DEF StreamFields, SameCursor
<1>2. \A e : LET n == Service!Ends(s, e) IN SameCursor(n, s) /\ n.end = e
  BY SMT DEF StreamFields, SameCursor, Service!Ends
<1>3. \A t : LET n == Service!Page(s, t) IN SameCursor(n, s) /\ n.end = s.end
  BY SMT DEF StreamFields, SameCursor, Service!Page
<1>4. \A t : LET n == [s EXCEPT !.through = t] IN SameCursor(n, s) /\ n.end = s.end
  BY SMT DEF StreamFields, SameCursor
<1>5. SameCursor(Service!NextPage(s), s) /\ Service!NextPage(s).end = s.end
  BY SMT DEF StreamFields, SameCursor, Service!NextPage
<1> QED
  BY <1>1, <1>2, <1>3, <1>4, <1>5

LEMMA FreshStream ==
    ASSUME NEW b, b \in Nat
    PROVE  LET s == [Service!NoStream EXCEPT !.start = b, !.after = b]
               e == [Service!NoStream EXCEPT !.pc = "ended", !.start = b]
           IN  /\ IsStream(Service!NoStream) /\ Service!NoStream.end = None
               /\ IsStream(s) /\ s.end = None /\ s.pc = "none"
               /\ IsStream(e) /\ e.end = None
<1> DEFINE s == [Service!NoStream EXCEPT !.start = b, !.after = b]
           e == [Service!NoStream EXCEPT !.pc = "ended", !.start = b]
           z == Service!NoStream
<1>1. /\ DOMAIN z = StreamFields /\ z.start = 0 /\ z.after = 0 /\ z.sent = <<>> /\ z.end = None
      /\ z.pc = "none"
  BY SMT DEF StreamFields, Service!NoStream
<1>2. /\ DOMAIN s = StreamFields /\ s.start = b /\ s.after = b /\ s.sent = <<>> /\ s.end = None
      /\ s.pc = "none"
  BY SMT DEF StreamFields, Service!NoStream
<1>3. /\ DOMAIN e = StreamFields /\ e.start = b /\ e.after = 0 /\ e.sent = <<>> /\ e.end = None
      /\ e.pc = "ended"
  BY SMT DEF StreamFields, Service!NoStream
<1> HIDE DEF s, e, z
<1>4. IsStream(z)
  BY <1>1, SMT DEF IsStream
<1>5. IsStream(s)
  BY <1>2, SMT DEF IsStream
<1>6. IsStream(e)
  BY <1>3, SMT DEF IsStream
<1> QED
  BY <1>1, <1>2, <1>3, <1>4, <1>5, <1>6 DEF s, e, z

LEMMA SentFacts ==
    ASSUME NEW s, IsStream(s), s.pc = "emit"
    PROVE  LET n == [s EXCEPT !.sent = Append(@, s.after + 1), !.after = @ + 1]
           IN  IsStream(n) /\ n.end = s.end
<1> DEFINE n == [s EXCEPT !.sent = Append(@, s.after + 1), !.after = @ + 1]
<1>1. DOMAIN s = StreamFields
  BY DEF IsStream
<1>2. /\ DOMAIN n = StreamFields /\ n.pc = s.pc /\ n.start = s.start /\ n.after = s.after + 1
      /\ n.sent = Append(s.sent, s.after + 1) /\ n.end = s.end
  BY <1>1, SMT DEF StreamFields
<1> HIDE DEF n
<1>3. /\ s.start \in Nat /\ s.after \in Nat /\ s.sent \in Seq(Nat)
      /\ s.after = s.start + Len(s.sent) /\ \A i \in 1..Len(s.sent) : s.sent[i] = s.start + i
  BY DEF IsStream
<1>4. /\ n.start \in Nat /\ n.after \in Nat /\ n.sent \in Seq(Nat)
      /\ n.after = n.start + Len(n.sent)
  BY <1>2, <1>3, SMT
<1>5. ASSUME NEW i \in 1..Len(n.sent) PROVE n.sent[i] = n.start + i
  <2>1. PICK q : q = s.sent
    OBVIOUS
  <2>2. PICK b : b = s.start
    OBVIOUS
  <2>3. /\ q \in Seq(Nat) /\ b \in Nat /\ n.sent = Append(q, b + Len(q) + 1) /\ n.start = b
        /\ \A j \in 1..Len(q) : q[j] = b + j
    BY <1>2, <1>3, <2>1, <2>2
  <2>4. Len(n.sent) = Len(q) + 1 /\ i \in Nat
    BY <2>3, SMT
  <2>5. CASE i = Len(q) + 1
    BY <2>3, <2>5, SMT
  <2>6. CASE i # Len(q) + 1
    <3>1. i \in 1..Len(q)
      BY <2>3, <2>4, <2>6, SMT
    <3> QED
      BY <2>3, <3>1, SMT
  <2> QED
    BY <2>5, <2>6
<1> QED
  BY <1>2, <1>4, <1>5 DEF n, IsStream

LEMMA BecomesStep ==
    ASSUME StreamInv, NEW k \in Sockets, NEW n, Service!Becomes(k, n), IsStream(n),
           n.end = "wi.closed" => network_close
    PROVE  StreamInv'
<1>1. stream' = [stream EXCEPT ![k] = n] /\ network_close' = network_close
  BY DEF Service!Becomes, Service!serveVars
<1> QED
  BY <1>1 DEF StreamInv

LEMMA EventsStep ==
    ASSUME None # "wi.closed", StreamInv, NEW k \in Sockets, Service!Events(k)
    PROVE  StreamInv'
<1>1. PICK s : s = stream[k]
  OBVIOUS
<1>2. IsStream(s) /\ (s.end = "wi.closed" => network_close) /\ DOMAIN s = StreamFields
  BY <1>1 DEF StreamInv, IsStream
<1>3. CASE Service!OpenStream(k)
  <2>1. PICK b \in 0..MaxHead :
           \/ Service!Becomes(k, [Service!Page([Service!NoStream EXCEPT !.start = b, !.after = b], None)
                                    EXCEPT !.through = head])
           \/ Service!Becomes(k, [Service!NoStream EXCEPT !.pc = "ended", !.start = b])
    BY <1>3 DEF Service!OpenStream
  <2>2. b \in Nat
    BY SMT
  <2> DEFINE z == [Service!NoStream EXCEPT !.start = b, !.after = b]
             y == Service!Page(z, None)
             x == [y EXCEPT !.through = head]
             e == [Service!NoStream EXCEPT !.pc = "ended", !.start = b]
  <2>3. IsStream(z) /\ z.end = None /\ z.pc = "none" /\ IsStream(e) /\ e.end = None
    BY <2>2, FreshStream
  <2>4. SameCursor(y, z) /\ y.end = None /\ y.pc = "emit"
    <3>1. DOMAIN z = StreamFields
      BY <2>3 DEF IsStream
    <3> HIDE DEF z
    <3>2. y.pc = "emit"
      BY <3>1, SMT DEF Service!Page, StreamFields
    <3> QED
      BY <2>3, <3>1, <3>2, MovesFacts
  <2>5. IsStream(y)
    BY <2>3, <2>4, SameStream
  <2>6. SameCursor(x, y) /\ x.end = None
    <3>1. DOMAIN y = StreamFields
      BY <2>5 DEF IsStream
    <3> HIDE DEF y
    <3> QED
      BY <2>4, <3>1, MovesFacts
  <2>7. IsStream(x)
    BY <2>4, <2>5, <2>6, SameStream
  <2>8. Service!Becomes(k, x) \/ Service!Becomes(k, e)
    BY <2>1
  <2> HIDE DEF x, e
  <2> QED
    BY <2>3, <2>6, <2>7, <2>8, BecomesStep
<1>4. CASE Service!Emit(k)
  <2>1. s.pc = "emit"
    BY <1>1, <1>4 DEF Service!Emit
  <2>2. CASE network_close /\ Service!Becomes(k, Service!Ends(s, "wi.closed"))
    <3> DEFINE n == Service!Ends(s, "wi.closed")
    <3>1. IsStream(n)
      BY <1>2, <2>1, MovesFacts, SameStream
    <3> HIDE DEF n
    <3> QED
      BY <2>2, <3>1, BecomesStep DEF n
  <2>3. CASE Service!Becomes(k, [s EXCEPT !.sent = Append(@, s.after + 1), !.after = @ + 1])
    <3> DEFINE n == [s EXCEPT !.sent = Append(@, s.after + 1), !.after = @ + 1]
    <3>1. IsStream(n) /\ n.end = s.end
      BY <1>2, <2>1, SentFacts
    <3>2. Service!Becomes(k, n)
      BY <2>3
    <3> HIDE DEF n
    <3> QED
      BY <1>2, <3>1, <3>2, BecomesStep
  <2> QED
    BY <1>1, <1>4, <2>2, <2>3 DEF Service!Emit
<1>5. CASE Service!EndOfPage(k)
  <2> DEFINE n == Service!NextPage(s)
  <2>1. s.pc # "ended" /\ Service!Becomes(k, n)
    BY <1>1, <1>5 DEF Service!EndOfPage
  <2>2. SameCursor(n, s) /\ n.end = s.end
    BY <1>2, MovesFacts
  <2> HIDE DEF n
  <2>3. IsStream(n)
    BY <1>2, <2>1, <2>2, SameStream
  <2> QED
    BY <1>2, <2>1, <2>2, <2>3, BecomesStep
<1>6. CASE Service!Poll(k)
  <2>1. s.pc # "ended"
    BY <1>1, <1>6 DEF Service!Poll
  <2>2. CASE network_close /\ Service!Becomes(k, Service!Ends(s, "wi.closed"))
    <3> DEFINE n == Service!Ends(s, "wi.closed")
    <3>1. IsStream(n)
      BY <1>2, <2>1, MovesFacts, SameStream
    <3> HIDE DEF n
    <3> QED
      BY <2>2, <3>1, BecomesStep DEF n
  <2>3. CASE Service!Becomes(k, [s EXCEPT !.pc = "read"])
    <3> DEFINE n == [s EXCEPT !.pc = "read"]
    <3>1. SameCursor(n, s) /\ n.end = s.end
      BY <1>2, MovesFacts
    <3>2. Service!Becomes(k, n)
      BY <2>3
    <3> HIDE DEF n
    <3>3. IsStream(n)
      BY <1>2, <2>1, <3>1, SameStream
    <3> QED
      BY <1>2, <3>1, <3>2, <3>3, BecomesStep
  <2> QED
    BY <1>1, <1>6, <2>2, <2>3 DEF Service!Poll
<1>7. CASE Service!Read(k)
  <2>1. s.pc # "ended"
    BY <1>1, <1>7 DEF Service!Read
  <2>2. PICK n : /\ Service!Becomes(k, n)
                 /\ \/ n = [s EXCEPT !.pc = "ended"]
                    \/ n = Service!Page(s, s.through)
                    \/ n = Service!Ends(s, "wi.error")
    BY <1>1, <1>7 DEF Service!Read, Service!ReadPage
  <2>3. SameCursor(n, s) /\ n.end \in {s.end, "wi.error"}
    <3>1. CASE n = [s EXCEPT !.pc = "ended"]
      BY <1>2, <3>1, MovesFacts
    <3>2. CASE n = Service!Page(s, s.through)
      BY <1>2, <3>2, MovesFacts
    <3>3. CASE n = Service!Ends(s, "wi.error")
      BY <1>2, <3>3, MovesFacts
    <3> QED
      BY <2>2, <3>1, <3>2, <3>3
  <2>4. IsStream(n)
    BY <1>2, <2>1, <2>3, SameStream
  <2> QED
    BY <1>2, <2>2, <2>3, <2>4, BecomesStep
<1> QED
  BY <1>3, <1>4, <1>5, <1>6, <1>7 DEF Service!Events

LEMMA StreamNext ==
    ASSUME None # "wi.closed", StreamInv, Service!Next \/ UNCHANGED Service!vars
    PROVE  StreamInv'
<1>1. ASSUME NEW k \in Sockets, Service!Events(k) PROVE StreamInv'
  BY <1>1, EventsStep
<1>2. ASSUME NEW k \in Sockets, Service!Retire(k) PROVE StreamInv'
  <2>1. PICK s : s = stream[k]
    OBVIOUS
  <2> DEFINE p == IF s.pc = "none" THEN s.pc ELSE "ended"
             n == [s EXCEPT !.pc = p]
  <2>2. stream' = [stream EXCEPT ![k] = n] /\ network_close' = network_close
    BY <1>2, <2>1, SMT DEF Service!Retire, Service!serveVars
  <2>3. IsStream(s) /\ (s.end = "wi.closed" => network_close) /\ DOMAIN s = StreamFields
    BY <2>1 DEF StreamInv, IsStream
  <2>4. SameCursor(n, s) /\ n.end = s.end
    BY <2>3, MovesFacts
  <2>5. n.pc = p
    BY <2>3, SMT DEF StreamFields
  <2>6. s.pc # "ended" \/ n.pc = "ended"
    BY <2>5
  <2> HIDE DEF n
  <2>7. IsStream(n)
    BY <2>3, <2>4, <2>6, SameStream
  <2> QED
    BY <2>2, <2>3, <2>4, <2>7 DEF StreamInv
<1>3. ASSUME UNCHANGED stream, network_close => network_close' PROVE StreamInv'
  BY <1>3 DEF StreamInv
<1>4. CASE Service!Owner \/ Service!DropServe \/ Service!Cancel
  BY <1>3, <1>4 DEF Service!Owner, Service!Start, Service!Select, Service!NetworkEnded,
     Service!Connections, Service!Finish, Service!DropServe, Service!Cancel, Service!initiate
<1>5. CASE \/ Service!WorkerLost \/ Service!HostCloses \/ Service!AcceptFails
           \/ Service!AxumReturns \/ Service!Record
  BY <1>3, <1>5 DEF Service!WorkerLost, Service!HostCloses, Service!AcceptFails,
     Service!CloseNetwork, Service!AxumReturns, Service!Record, Service!serveVars
<1>6. ASSUME NEW k \in Sockets, Service!Accept(k) PROVE StreamInv'
  BY <1>3, <1>6 DEF Service!Accept, Service!serveVars
<1>7. CASE UNCHANGED Service!vars
  BY <1>3, <1>7 DEF Service!vars, Service!serveVars
<1> QED
  BY <1>1, <1>2, <1>4, <1>5, <1>6, <1>7 DEF Service!Next

\* Over any number of pages, polls and appends, a stream sends the records
\* behind its cursor one by one, and its closing event only when the network is
\* closed.
THEOREM EventStreams ==
    ASSUME None # "wi.closed"
    PROVE  Service!Spec => []Service!EventsExact
<1>1. Service!Init => StreamInv
  <2>1. IsStream(Service!NoStream) /\ Service!NoStream.end = None
    BY FreshStream, 0 \in Nat
  <2> QED
    BY <2>1 DEF Service!Init, StreamInv
<1>2. StreamInv /\ [Service!Next]_(Service!vars) => StreamInv'
  BY StreamNext
<1>3. StreamInv => Service!EventsExact
  <2> SUFFICES ASSUME StreamInv, NEW k \in Sockets
               PROVE  /\ \A i \in DOMAIN stream[k].sent : stream[k].sent[i] = stream[k].start + i
                      /\ stream[k].end = "wi.closed" => network_close
    BY DEF Service!EventsExact
  <2>1. IsStream(stream[k]) /\ (stream[k].end = "wi.closed" => network_close)
    BY DEF StreamInv
  <2>2. DOMAIN stream[k].sent = 1..Len(stream[k].sent)
    BY <2>1, SMT DEF IsStream
  <2> QED
    BY <2>1, <2>2 DEF IsStream
<1> QED
  BY <1>1, <1>2, <1>3, PTL DEF Service!Spec

-----------------------------------------------------------------------------
(***************************************************************************)
(* The checks of a request, for any number of altered fields.              *)
(***************************************************************************)

CONSTANT MaxAltered
VARIABLES request, altered

Requests == INSTANCE HttpRequest

\* There is a least number among any.
LEMMA Least ==
    ASSUME NEW S, S \subseteq Nat, S # {}
    PROVE  \E i \in S : \A j \in S : i <= j
<1>1. PICK x \in S : \A y \in S : ~(<<y, x>> \in OpToRel(<, Nat))
  BY NatLessThanWellFounded, WFMin
<1>2. ASSUME NEW y \in S, y < x PROVE FALSE
  <2>1. y \in Nat /\ x \in Nat
    OBVIOUS
  <2>2. <<y, x>> \in Nat \X Nat /\ <<y, x>>[1] = y /\ <<y, x>>[2] = x
    BY <2>1
  <2>3. <<y, x>>[1] < <<y, x>>[2]
    BY <1>2, <2>2
  <2> QED
    BY <1>1, <2>2, <2>3 DEF OpToRel
<1> QED
  BY <1>2, SMT

\* A list of checks answers with the first that fails.
LEMMA RefusedFacts ==
    ASSUME NEW n, n \in Nat, NEW checks, DOMAIN checks = 1..n
    PROVE  \/ /\ \A i \in 1..n : checks[i].holds
              /\ Requests!Refused(checks) = Requests!Check(TRUE, "none", "none")
           \/ \E i \in 1..n :
                 /\ ~checks[i].holds
                 /\ \A j \in 1..n : j < i => checks[j].holds
                 /\ Requests!Refused(checks) = checks[i]
<1>1. PICK failing : failing = {i \in 1..n : ~checks[i].holds}
  OBVIOUS
<1>2. CASE failing = {}
  BY <1>1, <1>2 DEF Requests!Refused
<1>3. CASE failing # {}
  <2>1. failing \subseteq Nat
    BY <1>1, SMT
  <2>2. \E i \in failing : \A j \in failing : i <= j
    BY <1>3, <2>1, Least
  <2>3. PICK i : i = CHOOSE k \in failing : \A j \in failing : k <= j
    OBVIOUS
  <2>4. i \in failing /\ \A j \in failing : i <= j
    BY <2>2, <2>3
  <2>5. Requests!Refused(checks) = checks[i]
    BY <1>1, <1>3, <2>3 DEF Requests!Refused
  <2>6. i \in 1..n /\ ~checks[i].holds
    BY <1>1, <2>4
  <2>7. ASSUME NEW j \in 1..n, j < i PROVE checks[j].holds
    <3>1. j \notin failing
      BY <2>1, <2>4, <2>7, SMT
    <3> QED
      BY <1>1, <3>1
  <2> QED
    BY <2>5, <2>6, <2>7
<1> QED
  BY <1>2, <1>3

\* A request is refused under one of these names when one of the first m checks fails,
\* if those have such names and the others do not.
LEMMA NamesFacts ==
    ASSUME NEW n, n \in Nat, NEW m, m \in Nat, m <= n,
           NEW checks, DOMAIN checks = 1..n, NEW names, "none" \notin names,
           \A i \in 1..n : i <= m => checks[i].name \in names \/ checks[i].holds,
           \A i \in 1..n : i > m => checks[i].name \notin names
    PROVE  Requests!Refused(checks).name \in names <=> ~\A i \in 1..m : checks[i].holds
<1>1. 1..m \subseteq 1..n /\ \A i \in 1..n : i \in 1..m <=> i <= m
  BY SMT
<1>2. CASE \A i \in 1..n : checks[i].holds
  <2>1. Requests!Refused(checks) = Requests!Check(TRUE, "none", "none")
    BY <1>2, RefusedFacts
  <2>2. Requests!Refused(checks).name = "none"
    BY <2>1, SMT DEF Requests!Check
  <2> QED
    BY <1>1, <1>2, <2>2
<1>3. ASSUME NEW i \in 1..n, ~checks[i].holds, \A j \in 1..n : j < i => checks[j].holds,
             Requests!Refused(checks) = checks[i]
      PROVE  Requests!Refused(checks).name \in names <=> ~\A j \in 1..m : checks[j].holds
  <2>1. CASE i <= m
    BY <1>1, <1>3, <2>1
  <2>2. CASE ~(i <= m)
    <3>1. i > m /\ \A j \in 1..m : j < i
      BY <2>2, SMT
    <3> QED
      BY <1>1, <1>3, <3>1
  <2> QED
    BY <2>1, <2>2
<1> QED
  BY <1>2, <1>3, RefusedFacts

-----------------------------------------------------------------------------
(***************************************************************************)
(* The lists of checks.                                                    *)
(***************************************************************************)

IsSeq(s) == \E S : s \in Seq(S)
IsJoin(x, s, t) == x = s \o t
Joined(x, s, t) ==
    /\ IsSeq(x) /\ Len(x) = Len(s) + Len(t)
    /\ \A i \in 1..Len(s) : x[i] = s[i]
    /\ \A i \in 1..Len(t) : x[Len(s) + i] = t[i]

LEMMA JoinFacts ==
    ASSUME NEW x, NEW s, NEW t, IsJoin(x, s, t), IsSeq(s), IsSeq(t)
    PROVE  Joined(x, s, t)
<1>1. PICK S : s \in Seq(S)
  BY DEF IsSeq
<1>2. PICK T : t \in Seq(T)
  BY DEF IsSeq
<1>3. s \in Seq(S \cup T) /\ t \in Seq(S \cup T)
  BY <1>1, <1>2, SMT
<1>4. x \in Seq(S \cup T)
  BY <1>3, SMT DEF IsJoin
<1>5. /\ Len(x) = Len(s) + Len(t)
      /\ \A i \in 1..Len(s) : x[i] = s[i]
      /\ \A i \in 1..Len(t) : x[Len(s) + i] = t[i]
  BY <1>3, SMT DEF IsJoin
<1> QED
  BY <1>4, <1>5 DEF IsSeq, Joined

\* Behind the first m checks there are only those of display, cursors and body.
LateNames == {"display", "cursor", "body"}
Late(s, m) == \A i \in 1..Len(s) : i > m => s[i].name \in LateNames
Extended(x, s, m) == IsSeq(x) /\ m <= Len(x) /\ Late(x, m) /\ \A i \in 1..m : x[i] = s[i]

LEMMA LateJoins ==
    ASSUME NEW x, NEW s, NEW t, IsJoin(x, s, t), IsSeq(s), IsSeq(t),
           NEW m, m \in Nat, m <= Len(s), Late(s, m), Late(t, 0)
    PROVE  Extended(x, s, m)
<1>0. Joined(x, s, t)
  BY JoinFacts
<1>1. /\ IsSeq(x) /\ Len(x) = Len(s) + Len(t)
      /\ \A i \in 1..Len(s) : x[i] = s[i]
      /\ \A i \in 1..Len(t) : x[Len(s) + i] = t[i]
  BY <1>0 DEF Joined
<1>2. Len(s) \in Nat /\ Len(t) \in Nat
  BY SMT DEF IsSeq
<1>3. 1..m \subseteq 1..Len(s)
  BY <1>2, SMT
<1>4. ASSUME NEW i \in 1..(Len(s) + Len(t)), i > m PROVE x[i].name \in LateNames
  <2>1. CASE i <= Len(s)
    <3>1. i \in 1..Len(s)
      BY <1>2, <2>1, SMT
    <3> QED
      BY <1>1, <1>4, <3>1 DEF Late
  <2>2. CASE ~(i <= Len(s))
    <3>1. PICK j \in 1..Len(t) : i = Len(s) + j /\ j > 0
      <4>1. i - Len(s) \in 1..Len(t) /\ i = Len(s) + (i - Len(s)) /\ i - Len(s) > 0
        BY <1>2, <2>2, SMT
      <4> QED
        BY <4>1
    <3> QED
      BY <1>1, <3>1 DEF Late
  <2> QED
    BY <2>1, <2>2
<1>5. Late(x, m)
  <2>1. 1..Len(x) = 1..(Len(s) + Len(t))
    BY <1>1
  <2> QED
    BY <1>4, <2>1 DEF Late
<1>6. \A i \in 1..m : x[i] = s[i]
  BY <1>1, <1>3
<1>7. m <= Len(x)
  BY <1>1, <1>2, SMT
<1> QED
  BY <1>1, <1>5, <1>6, <1>7 DEF Extended

\* Lists of up to seven.
LEMMA ListFacts ==
    ASSUME NEW a, NEW b, NEW c, NEW d, NEW e, NEW f, NEW g
    PROVE  /\ IsSeq(<<a>>) /\ Len(<<a>>) = 1
           /\ IsSeq(<<a, b, c>>) /\ Len(<<a, b, c>>) = 3
           /\ IsSeq(<<a, b, c, d>>) /\ Len(<<a, b, c, d>>) = 4
           /\ IsSeq(<<a, b, c, d, e, f>>) /\ Len(<<a, b, c, d, e, f>>) = 6
           /\ IsSeq(<<a, b, c, d, e, f, g>>) /\ Len(<<a, b, c, d, e, f, g>>) = 7
<1> DEFINE S == {a, b, c, d, e, f, g}
<1>1. <<a>> \in Seq(S) /\ Len(<<a>>) = 1
  BY SMT
<1>2. <<a, b, c>> \in Seq(S) /\ Len(<<a, b, c>>) = 3
  BY SMT
<1>3. <<a, b, c, d>> \in Seq(S) /\ Len(<<a, b, c, d>>) = 4
  BY SMT
<1>4. <<a, b, c, d, e, f>> \in Seq(S) /\ Len(<<a, b, c, d, e, f>>) = 6
  BY SMT
<1>5. <<a, b, c, d, e, f, g>> \in Seq(S) /\ Len(<<a, b, c, d, e, f, g>>) = 7
  BY SMT
<1> HIDE DEF S
<1> QED
  BY <1>1, <1>2, <1>3, <1>4, <1>5 DEF IsSeq

\* What a request needs before the token and for its route.
Bound(r) == /\ r.host \in {"public", "listener"} /\ r.target \in {"relative", "same"}
            /\ r.origin \in {"none", "public"}
Found(r, method) ==
    /\ r.route \in Requests!Routes /\ Requests!supports(r.route, method) /\ r.ids
    /\ Requests!query(r, method)

LEMMA BoundaryFacts ==
    ASSUME NEW r, NEW b, b = Requests!Boundary(r)
    PROVE  /\ IsSeq(b) /\ Len(b) = 3
           /\ b[1].name = "host" /\ b[2].name = "host" /\ b[3].name = "origin"
           /\ b[1].holds /\ b[2].holds /\ b[3].holds <=> Bound(r)
<1>1. PICK x, y, z : Requests!Boundary(r) = <<x, y, z>>
  BY DEF Requests!Boundary
<1>2. IsSeq(<<x, y, z>>) /\ Len(<<x, y, z>>) = 3
  BY ListFacts
<1>3. LET l == Requests!Boundary(r) IN
      l[1].name = "host" /\ l[2].name = "host" /\ l[3].name = "origin"
  BY DEF Requests!Boundary, Requests!Check
<1>4. LET l == Requests!Boundary(r) IN l[1].holds /\ l[2].holds /\ l[3].holds <=> Bound(r)
  BY DEF Requests!Boundary, Requests!Check, Bound
<1> QED
  BY <1>1, <1>2, <1>3, <1>4

LEMMA RoutedFacts ==
    ASSUME NEW r, NEW b, b = Requests!Routed(r)
    PROVE  /\ IsSeq(b) /\ Len(b) = 4
           /\ b[1].name = "route" /\ b[2].name = "method" /\ b[3].name = "ids"
           /\ b[4].name = "query"
           /\ b[1].holds /\ b[2].holds /\ b[3].holds /\ b[4].holds <=> Found(r, r.method)
<1>1. PICK x, y, z, w : Requests!Routed(r) = <<x, y, z, w>>
  BY DEF Requests!Routed
<1>2. IsSeq(<<x, y, z, w>>) /\ Len(<<x, y, z, w>>) = 4
  BY ListFacts
<1>3. LET l == Requests!Routed(r) IN
      l[1].name = "route" /\ l[2].name = "method" /\ l[3].name = "ids" /\ l[4].name = "query"
  BY DEF Requests!Routed, Requests!Check
<1>4. LET l == Requests!Routed(r) IN
      l[1].holds /\ l[2].holds /\ l[3].holds /\ l[4].holds <=> Found(r, r.method)
  BY DEF Requests!Routed, Requests!Check, Found
<1> QED
  BY <1>1, <1>2, <1>3, <1>4

LEMMA TokenFacts ==
    ASSUME NEW r, NEW b, b = Requests!authenticate(r), r.token = "owner"
    PROVE  IsSeq(b) /\ Len(b) = 1 /\ b[1].holds
<1>1. PICK x : Requests!authenticate(r) = <<x>>
  BY DEF Requests!authenticate
<1>2. IsSeq(<<x>>) /\ Len(<<x>>) = 1
  BY ListFacts
<1>3. Requests!authenticate(r)[1].holds
  BY DEF Requests!authenticate, Requests!Check
<1> QED
  BY <1>1, <1>2, <1>3

LEMMA LaterFacts ==
    ASSUME NEW r, NEW b, b \in {Requests!Display(r), Requests!Cursors(r), Requests!Body(r)}
    PROVE  IsSeq(b) /\ Late(b, 0)
<1>1. ASSUME b = Requests!Display(r) PROVE IsSeq(b) /\ Late(b, 0)
  <2>1. PICK u, v, w, x, y, z : Requests!Display(r) = <<u, v, w, x, y, z>>
    BY DEF Requests!Display
  <2>2. IsSeq(b) /\ Len(b) = 6
    BY <1>1, <2>1, ListFacts
  <2>3. LET l == Requests!Display(r) IN
        /\ l[1].name = "display" /\ l[2].name = "display" /\ l[3].name = "display"
        /\ l[4].name = "display" /\ l[5].name = "display" /\ l[6].name = "display"
    BY DEF Requests!Display, Requests!Check
  <2>4. \A i \in 1..6 : i = 1 \/ i = 2 \/ i = 3 \/ i = 4 \/ i = 5 \/ i = 6
    BY SMT
  <2> QED
    BY <1>1, <2>2, <2>3, <2>4 DEF Late, LateNames
<1>2. ASSUME b = Requests!Cursors(r) PROVE IsSeq(b) /\ Late(b, 0)
  <2>1. PICK u, v, w, x : Requests!Cursors(r) = <<u, v, w, x>>
    BY DEF Requests!Cursors
  <2>2. IsSeq(b) /\ Len(b) = 4
    BY <1>2, <2>1, ListFacts
  <2>3. LET l == Requests!Cursors(r) IN
        /\ l[1].name = "cursor" /\ l[2].name = "cursor" /\ l[3].name = "cursor"
        /\ l[4].name = "cursor"
    BY DEF Requests!Cursors, Requests!Check
  <2>4. \A i \in 1..4 : i = 1 \/ i = 2 \/ i = 3 \/ i = 4
    BY SMT
  <2> QED
    BY <1>2, <2>2, <2>3, <2>4 DEF Late, LateNames
<1>3. ASSUME b = Requests!Body(r) PROVE IsSeq(b) /\ Late(b, 0)
  <2>1. PICK u, v, w, x, y, z, t : Requests!Body(r) = <<u, v, w, x, y, z, t>>
    BY DEF Requests!Body
  <2>2. IsSeq(b) /\ Len(b) = 7
    BY <1>3, <2>1, ListFacts
  <2>3. LET l == Requests!Body(r) IN
        /\ l[1].name = "body" /\ l[2].name = "body" /\ l[3].name = "body" /\ l[4].name = "body"
        /\ l[5].name = "body" /\ l[6].name = "body" /\ l[7].name = "body"
    BY DEF Requests!Body, Requests!Check
  <2>4. \A i \in 1..7 : i = 1 \/ i = 2 \/ i = 3 \/ i = 4 \/ i = 5 \/ i = 6 \/ i = 7
    BY SMT
  <2> QED
    BY <1>3, <2>2, <2>3, <2>4 DEF Late, LateNames
<1> QED
  BY <1>1, <1>2, <1>3

\* The preflight of a request asks for its origin, its route and its query.
LEMMA PreflightFacts ==
    ASSUME NEW r, NEW b, b = Requests!preflight(r)
    PROVE  /\ IsSeq(b) /\ Len(b) = 7
           /\ \A i \in 1..7 : b[i].name # "none"
           /\ /\ b[1].holds /\ b[2].holds /\ b[3].holds /\ b[4].holds /\ b[5].holds
              /\ b[6].holds /\ b[7].holds
              <=> /\ r.origin # "none" /\ r.asks \notin {"none", "many"}
                  /\ r.names \subseteq Requests!Known /\ Found(r, r.asks)
<1>1. PICK t, u, v, w, x, y, z : Requests!preflight(r) = <<t, u, v, w, x, y, z>>
  BY DEF Requests!preflight
<1>2. IsSeq(<<t, u, v, w, x, y, z>>) /\ Len(<<t, u, v, w, x, y, z>>) = 7
  BY ListFacts
<1>3. LET l == Requests!preflight(r) IN
      /\ l[1].name = "origin" /\ l[2].name = "route" /\ l[3].name = "ids" /\ l[4].name = "asks"
      /\ l[5].name = "method" /\ l[6].name = "names" /\ l[7].name = "query"
  BY DEF Requests!preflight, Requests!Check, Requests!preflight_headers
<1>4. \A i \in 1..7 : i = 1 \/ i = 2 \/ i = 3 \/ i = 4 \/ i = 5 \/ i = 6 \/ i = 7
  BY SMT
<1>5. \A i \in 1..7 : b[i].name # "none"
  BY <1>3, <1>4
<1>6. LET l == Requests!preflight(r) IN
      /\ l[1].holds <=> r.origin # "none"
      /\ l[2].holds <=> r.route \in Requests!Routes
      /\ l[3].holds <=> r.ids
      /\ l[4].holds <=> r.asks \notin {"none", "many"}
      /\ l[5].holds <=> Requests!supports(r.route, r.asks)
      /\ l[6].holds <=> r.names \subseteq Requests!Known
      /\ l[7].holds <=> Requests!query(r, r.asks)
  BY DEF Requests!preflight, Requests!Check, Requests!preflight_headers, Requests!AskedQuery
<1> QED
  BY <1>1, <1>2, <1>5, <1>6 DEF Found

\* A list of checks that all have a name of their own, and one whose checks all hold.
Checks(s) == IsSeq(s) /\ \A i \in 1..Len(s) : s[i].name # "none"
Hold(s) == \A i \in 1..Len(s) : s[i].holds
Holding(x, s, t) == Checks(x) /\ (Hold(x) <=> Hold(s) /\ Hold(t))

LEMMA ChecksJoin ==
    ASSUME NEW x, NEW s, NEW t, IsJoin(x, s, t), Checks(s), Checks(t)
    PROVE  Holding(x, s, t)
<1>1. Joined(x, s, t)
  BY JoinFacts DEF Checks
<1>2. /\ IsSeq(x) /\ Len(x) = Len(s) + Len(t)
      /\ \A i \in 1..Len(s) : x[i] = s[i]
      /\ \A i \in 1..Len(t) : x[Len(s) + i] = t[i]
  BY <1>1 DEF Joined
<1>3. Len(s) \in Nat /\ Len(t) \in Nat
  BY SMT DEF IsSeq, Checks
<1>4. ASSUME NEW i \in 1..Len(x), i \notin 1..Len(s) PROVE \E j \in 1..Len(t) : i = Len(s) + j
  <2>1. i - Len(s) \in 1..Len(t) /\ i = Len(s) + (i - Len(s))
    BY <1>2, <1>3, <1>4, SMT
  <2> QED
    BY <2>1
<1>5. \A i \in 1..Len(x) : (\E j \in 1..Len(s) : x[i] = s[j]) \/ \E j \in 1..Len(t) : x[i] = t[j]
  BY <1>2, <1>4
<1>6. Checks(x)
  BY <1>2, <1>5 DEF Checks
<1>7. ASSUME Hold(s), Hold(t) PROVE Hold(x)
  BY <1>5, <1>7 DEF Hold
<1>8. ASSUME Hold(x) PROVE Hold(s) /\ Hold(t)
  <2>1. \A i \in 1..Len(s) : i \in 1..Len(x)
    BY <1>2, <1>3, SMT
  <2>2. \A i \in 1..Len(t) : Len(s) + i \in 1..Len(x)
    BY <1>2, <1>3, SMT
  <2>3. ASSUME NEW i \in 1..Len(s) PROVE s[i].holds
    BY <1>2, <1>8, <2>1 DEF Hold
  <2>4. ASSUME NEW i \in 1..Len(t) PROVE t[i].holds
    <3>1. x[Len(s) + i] = t[i] /\ x[Len(s) + i].holds
      BY <1>2, <1>8, <2>2 DEF Hold
    <3> QED
      BY <3>1
  <2> QED
    BY <2>3, <2>4 DEF Hold
<1> QED
  BY <1>6, <1>7, <1>8 DEF Holding

\* A list of checks refuses nothing when they all hold.
LEMMA NoneRefused ==
    ASSUME NEW x, Checks(x)
    PROVE  Requests!Refused(x).name = "none" <=> Hold(x)
<1>1. PICK n : n = Len(x)
  OBVIOUS
<1>2. n \in Nat /\ DOMAIN x = 1..n
  BY <1>1, SMT DEF Checks, IsSeq
<1>3. \/ /\ \A i \in 1..n : x[i].holds
         /\ Requests!Refused(x) = Requests!Check(TRUE, "none", "none")
      \/ \E i \in 1..n : ~x[i].holds /\ Requests!Refused(x) = x[i]
  BY <1>2, RefusedFacts
<1>4. Requests!Check(TRUE, "none", "none").name = "none"
  BY DEF Requests!Check
<1> QED
  BY <1>1, <1>3, <1>4 DEF Checks, Hold

\* The lists that handle joins.
LEMMA ListsCheck ==
    ASSUME NEW r
    PROVE  /\ Checks(Requests!Boundary(r)) /\ Checks(Requests!authenticate(r))
           /\ Checks(Requests!Routed(r)) /\ Checks(Requests!Display(r))
           /\ Checks(Requests!Cursors(r)) /\ Checks(Requests!Body(r))
<1>1. PICK b : b = Requests!Boundary(r)
  OBVIOUS
<1>2. Checks(b)
  <2>1. /\ IsSeq(b) /\ Len(b) = 3
        /\ b[1].name = "host" /\ b[2].name = "host" /\ b[3].name = "origin"
    BY <1>1, BoundaryFacts
  <2>2. \A i \in 1..3 : i = 1 \/ i = 2 \/ i = 3
    BY SMT
  <2> QED
    BY <2>1, <2>2 DEF Checks
<1>3. PICK t : t = Requests!Routed(r)
  OBVIOUS
<1>4. Checks(t)
  <2>1. /\ IsSeq(t) /\ Len(t) = 4
        /\ t[1].name = "route" /\ t[2].name = "method" /\ t[3].name = "ids"
        /\ t[4].name = "query"
    BY <1>3, RoutedFacts
  <2>2. \A i \in 1..4 : i = 1 \/ i = 2 \/ i = 3 \/ i = 4
    BY SMT
  <2> QED
    BY <2>1, <2>2 DEF Checks
<1>5. Checks(Requests!authenticate(r))
  <2>1. PICK x : Requests!authenticate(r) = <<x>>
    BY DEF Requests!authenticate
  <2>2. IsSeq(<<x>>) /\ Len(<<x>>) = 1
    BY ListFacts
  <2>3. Requests!authenticate(r)[1].name # "none"
    BY DEF Requests!authenticate, Requests!Check
  <2>4. \A i \in 1..1 : i = 1
    BY SMT
  <2> QED
    BY <2>1, <2>2, <2>3, <2>4 DEF Checks
<1>6. ASSUME NEW s, s \in {Requests!Display(r), Requests!Cursors(r), Requests!Body(r)}
      PROVE  Checks(s)
  <2>1. IsSeq(s) /\ Late(s, 0)
    BY <1>6, LaterFacts
  <2>2. \A i \in 1..Len(s) : i > 0
    BY <2>1, SMT DEF IsSeq
  <2>3. "none" \notin LateNames
    BY DEF LateNames
  <2> QED
    BY <2>1, <2>2, <2>3 DEF Late, Checks
<1> QED
  BY <1>1, <1>2, <1>3, <1>4, <1>5, <1>6

\* A preflight is granted when all of it holds.
LEMMA Granted ==
    ASSUME NEW r, r.method = "OPTIONS"
    PROVE  Requests!handle(r).name = "none" <=>
              /\ Bound(r) /\ r.origin # "none" /\ r.asks \notin {"none", "many"}
              /\ r.names \subseteq Requests!Known /\ Found(r, r.asks)
<1>1. PICK b : b = Requests!Boundary(r)
  OBVIOUS
<1>2. PICK q : q = Requests!preflight(r)
  OBVIOUS
<1>3. PICK all : IsJoin(all, b, q)
  BY DEF IsJoin
<1>4. Requests!handle(r) = Requests!Refused(all)
  BY <1>1, <1>2, <1>3 DEF Requests!handle, IsJoin
<1>5. /\ Len(b) = 3
      /\ b[1].holds /\ b[2].holds /\ b[3].holds <=> Bound(r)
  BY <1>1, BoundaryFacts
<1>6. /\ IsSeq(q) /\ Len(q) = 7
      /\ \A i \in 1..7 : q[i].name # "none"
      /\ /\ q[1].holds /\ q[2].holds /\ q[3].holds /\ q[4].holds /\ q[5].holds
         /\ q[6].holds /\ q[7].holds
         <=> /\ r.origin # "none" /\ r.asks \notin {"none", "many"}
             /\ r.names \subseteq Requests!Known /\ Found(r, r.asks)
  BY <1>2, PreflightFacts
<1>7. Checks(b) /\ Checks(q)
  BY <1>1, <1>6, ListsCheck DEF Checks
<1>8. Checks(all) /\ (Hold(all) <=> Hold(b) /\ Hold(q))
  <2>1. Holding(all, b, q)
    BY <1>3, <1>7, ChecksJoin
  <2> QED
    BY <2>1 DEF Holding
<1>9. /\ \A i \in 1..3 : i = 1 \/ i = 2 \/ i = 3
      /\ \A i \in 1..7 : i = 1 \/ i = 2 \/ i = 3 \/ i = 4 \/ i = 5 \/ i = 6 \/ i = 7
      /\ {1, 2, 3} \subseteq 1..3 /\ {1, 2, 3, 4, 5, 6, 7} \subseteq 1..7
  BY SMT
<1>10. Hold(b) <=> Bound(r)
  BY <1>5, <1>9 DEF Hold
<1>11. Hold(q) <=> /\ r.origin # "none" /\ r.asks \notin {"none", "many"}
                   /\ r.names \subseteq Requests!Known /\ Found(r, r.asks)
  BY <1>6, <1>9 DEF Hold
<1>12. Requests!Refused(all).name = "none" <=> Hold(all)
  BY <1>8, NoneRefused
<1> QED
  BY <1>4, <1>8, <1>10, <1>11, <1>12

\* Any other request reaches its handler when all of its checks hold.
LEMMA Reached ==
    ASSUME NEW r, r.method # "OPTIONS", ~Requests!IsAsset(r)
    PROVE  Requests!handle(r).name = "none" <=>
              /\ Hold(Requests!Boundary(r)) /\ Hold(Requests!authenticate(r))
              /\ Hold(Requests!Routed(r)) /\ Hold(Requests!Display(r))
              /\ Hold(Requests!Cursors(r)) /\ Hold(Requests!Body(r))
<1>1. PICK b, a, t : b = Requests!Boundary(r) /\ a = Requests!authenticate(r) /\ t = Requests!Routed(r)
  OBVIOUS
<1>2. PICK d, c, e : d = Requests!Display(r) /\ c = Requests!Cursors(r) /\ e = Requests!Body(r)
  OBVIOUS
<1>3. PICK x1, x2, x3, x4 : IsJoin(x1, a, t) /\ IsJoin(x2, x1, d) /\ IsJoin(x3, x2, c) /\ IsJoin(x4, x3, e)
  BY DEF IsJoin
<1>4. PICK all : IsJoin(all, b, x4)
  BY DEF IsJoin
<1>5. Requests!handle(r) = Requests!Refused(all)
  BY <1>1, <1>2, <1>3, <1>4 DEF Requests!handle, IsJoin
<1>6. Checks(b) /\ Checks(a) /\ Checks(t) /\ Checks(d) /\ Checks(c) /\ Checks(e)
  BY <1>1, <1>2, ListsCheck
<1>7. Checks(x1) /\ (Hold(x1) <=> Hold(a) /\ Hold(t))
  BY <1>3, <1>6, ChecksJoin DEF Holding
<1>8. Checks(x2) /\ (Hold(x2) <=> Hold(x1) /\ Hold(d))
  BY <1>3, <1>6, <1>7, ChecksJoin DEF Holding
<1>9. Checks(x3) /\ (Hold(x3) <=> Hold(x2) /\ Hold(c))
  BY <1>3, <1>6, <1>8, ChecksJoin DEF Holding
<1>10. Checks(x4) /\ (Hold(x4) <=> Hold(x3) /\ Hold(e))
  BY <1>3, <1>6, <1>9, ChecksJoin DEF Holding
<1>11. Checks(all) /\ (Hold(all) <=> Hold(b) /\ Hold(x4))
  BY <1>4, <1>6, <1>10, ChecksJoin DEF Holding
<1>12. Requests!Refused(all).name = "none" <=> Hold(all)
  BY <1>11, NoneRefused
<1> QED
  BY <1>1, <1>2, <1>5, <1>7, <1>8, <1>9, <1>10, <1>11, <1>12

\* A request with the owner's token is refused under one of these names when its origin,
\* its route or its query is not what it should be.
RouteNames == {"host", "origin", "route", "method", "ids", "query"}

LEMMA RefusedByRoute ==
    ASSUME NEW r, r.method # "OPTIONS", ~Requests!IsAsset(r), r.token = "owner"
    PROVE  Requests!handle(r).name \in RouteNames <=> ~(Bound(r) /\ Found(r, r.method))
<1>1. PICK b : b = Requests!Boundary(r)
  OBVIOUS
<1>2. PICK a : a = Requests!authenticate(r)
  OBVIOUS
<1>3. PICK t : t = Requests!Routed(r)
  OBVIOUS
<1>4. PICK d, c, e : d = Requests!Display(r) /\ c = Requests!Cursors(r) /\ e = Requests!Body(r)
  OBVIOUS
<1>5. PICK x1, x2, x3, x4 : IsJoin(x1, a, t) /\ IsJoin(x2, x1, d) /\ IsJoin(x3, x2, c) /\ IsJoin(x4, x3, e)
  BY DEF IsJoin
<1>6. PICK all : IsJoin(all, b, x4)
  BY DEF IsJoin
<1>7. Requests!handle(r) = Requests!Refused(all)
  BY <1>1, <1>2, <1>3, <1>4, <1>5, <1>6 DEF Requests!handle, IsJoin
<1>8. /\ IsSeq(b) /\ Len(b) = 3
      /\ b[1].name = "host" /\ b[2].name = "host" /\ b[3].name = "origin"
      /\ b[1].holds /\ b[2].holds /\ b[3].holds <=> Bound(r)
  BY <1>1, BoundaryFacts
<1>9. IsSeq(a) /\ Len(a) = 1 /\ a[1].holds
  BY <1>2, TokenFacts
<1>10. /\ IsSeq(t) /\ Len(t) = 4
       /\ t[1].name = "route" /\ t[2].name = "method" /\ t[3].name = "ids"
       /\ t[4].name = "query"
       /\ t[1].holds /\ t[2].holds /\ t[3].holds /\ t[4].holds <=> Found(r, r.method)
  BY <1>3, RoutedFacts
<1>11. /\ IsSeq(d) /\ Late(d, 0) /\ IsSeq(c) /\ Late(c, 0) /\ IsSeq(e) /\ Late(e, 0)
  BY <1>4, LaterFacts
<1>12. /\ IsSeq(x1) /\ Len(x1) = 5 /\ Late(x1, 5)
       /\ x1[1] = a[1] /\ x1[2] = t[1] /\ x1[3] = t[2] /\ x1[4] = t[3] /\ x1[5] = t[4]
  <2>0. Joined(x1, a, t)
    BY <1>5, <1>9, <1>10, JoinFacts
  <2>1. /\ IsSeq(x1) /\ Len(x1) = Len(a) + Len(t)
        /\ \A i \in 1..Len(a) : x1[i] = a[i]
        /\ \A i \in 1..Len(t) : x1[Len(a) + i] = t[i]
    BY <2>0 DEF Joined
  <2>2. Len(x1) = 5
    BY <1>9, <1>10, <2>1, SMT
  <2>3. x1[1] = a[1] /\ x1[2] = t[1] /\ x1[3] = t[2] /\ x1[4] = t[3] /\ x1[5] = t[4]
    <3>1. 1 \in 1..1 /\ {1, 2, 3, 4} \subseteq 1..4 /\ 1 + 1 = 2 /\ 1 + 2 = 3 /\ 1 + 3 = 4 /\ 1 + 4 = 5
      BY SMT
    <3> QED
      BY <1>9, <1>10, <2>1, <3>1
  <2>4. \A i \in 1..5 : ~(i > 5)
    BY SMT
  <2> QED
    BY <2>1, <2>2, <2>3, <2>4 DEF Late
<1>13. 5 \in Nat /\ \A n \in Nat : 5 <= 5 + n
  BY SMT
<1>14. \A s : IsSeq(s) => Len(s) \in Nat
  BY SMT DEF IsSeq
<1>15. IsSeq(x2) /\ 5 <= Len(x2) /\ Late(x2, 5) /\ \A i \in 1..5 : x2[i] = x1[i]
  <2>1. 5 <= Len(x1)
    BY <1>12, SMT
  <2>2. Extended(x2, x1, 5)
    BY <1>5, <1>11, <1>12, <1>13, <2>1, LateJoins
  <2> QED
    BY <2>2 DEF Extended
<1>16. IsSeq(x3) /\ 5 <= Len(x3) /\ Late(x3, 5) /\ \A i \in 1..5 : x3[i] = x1[i]
  <2>1. Extended(x3, x2, 5)
    BY <1>5, <1>11, <1>13, <1>15, LateJoins
  <2> QED
    BY <1>15, <2>1 DEF Extended
<1>17. IsSeq(x4) /\ 5 <= Len(x4) /\ Late(x4, 5) /\ \A i \in 1..5 : x4[i] = x1[i]
  <2>1. Extended(x4, x3, 5)
    BY <1>5, <1>11, <1>13, <1>16, LateJoins
  <2> QED
    BY <1>16, <2>1 DEF Extended
<1>18. /\ IsSeq(all) /\ Len(all) = 3 + Len(x4)
       /\ \A i \in 1..3 : all[i] = b[i]
       /\ \A i \in 1..Len(x4) : all[3 + i] = x4[i]
  <2>1. Joined(all, b, x4)
    BY <1>6, <1>8, <1>17, JoinFacts
  <2> QED
    BY <1>8, <2>1 DEF Joined
<1>19. PICK n : n = Len(all)
  OBVIOUS
<1>20. n \in Nat /\ 8 \in Nat /\ 8 <= n /\ DOMAIN all = 1..n
  BY <1>14, <1>17, <1>18, <1>19, SMT DEF IsSeq
<1>21. /\ all[1] = b[1] /\ all[2] = b[2] /\ all[3] = b[3] /\ all[4] = a[1]
       /\ all[5] = t[1] /\ all[6] = t[2] /\ all[7] = t[3] /\ all[8] = t[4]
  <2>1. /\ {1, 2, 3} \subseteq 1..3 /\ {1, 2, 3, 4, 5} \subseteq 1..5
        /\ 3 + 1 = 4 /\ 3 + 2 = 5 /\ 3 + 3 = 6 /\ 3 + 4 = 7 /\ 3 + 5 = 8
    BY SMT
  <2>2. \A i \in 1..5 : i \in 1..Len(x4)
    BY <1>14, <1>17, SMT
  <2>3. \A i \in 1..5 : all[3 + i] = x1[i]
    BY <1>17, <1>18, <2>2
  <2>4. all[3 + 1] = x1[1] /\ all[3 + 2] = x1[2] /\ all[3 + 3] = x1[3] /\ all[3 + 4] = x1[4]
        /\ all[3 + 5] = x1[5]
    BY <2>1, <2>3
  <2> QED
    BY <1>12, <1>18, <2>1, <2>4
<1>22. \A i \in 1..8 : i = 1 \/ i = 2 \/ i = 3 \/ i = 4 \/ i = 5 \/ i = 6 \/ i = 7 \/ i = 8
  BY SMT
<1>23. \A i \in 1..8 : all[i].name \in RouteNames \/ all[i].holds
  <2>1. \A i \in {1, 2, 3, 5, 6, 7, 8} : all[i].name \in RouteNames
    BY <1>8, <1>10, <1>21 DEF RouteNames
  <2> QED
    BY <1>9, <1>21, <1>22, <2>1
<1>24. \A i \in 1..n : i <= 8 => all[i].name \in RouteNames \/ all[i].holds
  <2>1. \A i \in 1..n : i <= 8 => i \in 1..8
    BY <1>20, SMT
  <2> QED
    BY <1>23, <2>1
<1>25. \A i \in 1..n : i > 8 => all[i].name \notin RouteNames
  <2>1. SUFFICES ASSUME NEW i \in 1..n, i > 8 PROVE all[i].name \notin RouteNames
    OBVIOUS
  <2>2. PICK j \in 1..Len(x4) : i = 3 + j /\ j > 5
    <3>1. i - 3 \in 1..Len(x4) /\ i = 3 + (i - 3) /\ i - 3 > 5
      BY <1>14, <1>17, <1>18, <1>19, <2>1, SMT
    <3> QED
      BY <3>1
  <2>3. all[i].name \in LateNames
    BY <1>17, <1>18, <2>2 DEF Late
  <2> QED
    BY <2>3 DEF LateNames, RouteNames
<1>26. "none" \notin RouteNames
  BY DEF RouteNames
<1>27. Requests!Refused(all).name \in RouteNames <=> ~\A i \in 1..8 : all[i].holds
  BY <1>20, <1>24, <1>25, <1>26, NamesFacts
<1>28. (\A i \in 1..8 : all[i].holds) <=> Bound(r) /\ Found(r, r.method)
  <2>1. {1, 2, 3, 4, 5, 6, 7, 8} \subseteq 1..8
    BY SMT
  <2>2. (\A i \in 1..8 : all[i].holds) <=>
          /\ all[1].holds /\ all[2].holds /\ all[3].holds /\ all[4].holds
          /\ all[5].holds /\ all[6].holds /\ all[7].holds /\ all[8].holds
    BY <1>22, <2>1
  <2> QED
    BY <1>8, <1>9, <1>10, <1>21, <2>2
<1> QED
  BY <1>7, <1>27, <1>28

\* The fields of a request, of the one sent ahead of it and of the one sent with the token.
Fields == {"host", "target", "origin", "method", "route", "ids", "entry", "asks", "names", "token",
           "spelled", "keys", "bad", "last", "coding", "extra", "media", "length", "body"}

LEMMA WellFormedFields ==
    ASSUME NEW route, NEW method
    PROVE  /\ DOMAIN Requests!WellFormed(route, method) = Fields
           /\ Requests!WellFormed(route, method).route = route
           /\ Requests!WellFormed(route, method).method = method
  BY SMT DEF Requests!WellFormed, Fields

LEMMA AheadFields ==
    ASSUME NEW r, NEW q, q = Requests!Ahead(r)
    PROVE  /\ q.host = r.host /\ q.target = r.target /\ q.origin = r.origin /\ q.ids = r.ids
           /\ q.asks = r.method /\ q.spelled = r.spelled /\ q.keys = r.keys
           /\ q.route = r.route /\ q.method = "OPTIONS" /\ q.names = Requests!Carried(r)
<1>1. PICK w : w = Requests!WellFormed(r.route, "OPTIONS")
  OBVIOUS
<1>2. DOMAIN w = Fields /\ w.route = r.route /\ w.method = "OPTIONS"
  BY <1>1, WellFormedFields
<1>3. PICK c : c = Requests!Carried(r)
  OBVIOUS
<1>4. q = [w EXCEPT !.host = r.host, !.target = r.target, !.origin = r.origin, !.ids = r.ids,
                    !.asks = r.method, !.names = c, !.spelled = r.spelled, !.keys = r.keys]
  BY <1>1, <1>3 DEF Requests!Ahead
<1>5. /\ q.host = r.host /\ q.target = r.target /\ q.origin = r.origin /\ q.ids = r.ids
      /\ q.asks = r.method /\ q.spelled = r.spelled /\ q.keys = r.keys
      /\ q.route = r.route /\ q.method = "OPTIONS" /\ q.names = c
  BY ONLY <1>2, <1>4, SMT DEF Fields
<1> QED
  BY <1>3, <1>5

LEMMA TokenFields ==
    ASSUME NEW r, DOMAIN r = Fields, NEW q, q = [r EXCEPT !.token = "owner"]
    PROVE  /\ q.host = r.host /\ q.target = r.target /\ q.origin = r.origin /\ q.ids = r.ids
           /\ q.method = r.method /\ q.spelled = r.spelled /\ q.keys = r.keys
           /\ q.route = r.route /\ q.token = "owner"
  BY SMT DEF Fields

LEMMA BareFields ==
    ASSUME NEW r, DOMAIN r = Fields, NEW q, q = Requests!Bare(r)
    PROVE  /\ q.host = r.host /\ q.target = r.target /\ q.origin = r.origin /\ q.ids = r.ids
           /\ q.method = r.method /\ q.spelled = r.spelled /\ q.keys = r.keys
           /\ q.route = r.route /\ q.token = r.token /\ q.entry = r.entry /\ q.bad = r.bad
           /\ q.last = r.last /\ q.media = r.media /\ q.length = r.length /\ q.body = r.body
           /\ q.coding = "none" /\ q.extra = FALSE
  BY SMT DEF Fields, Requests!Bare

\* What no preflight grants is not needed either.
LEMMA BareReached ==
    ASSUME NEW r, DOMAIN r = Fields, r.method # "OPTIONS", ~Requests!IsAsset(r),
           Requests!handle(r).name = "none", NEW q, q = Requests!Bare(r)
    PROVE  Requests!handle(q).name = "none"
<1>1. /\ q.host = r.host /\ q.target = r.target /\ q.origin = r.origin /\ q.ids = r.ids
      /\ q.method = r.method /\ q.spelled = r.spelled /\ q.keys = r.keys
      /\ q.route = r.route /\ q.token = r.token /\ q.entry = r.entry /\ q.bad = r.bad
      /\ q.last = r.last /\ q.media = r.media /\ q.length = r.length /\ q.body = r.body
      /\ q.coding = "none" /\ q.extra = FALSE
  BY BareFields
<1>2. Requests!Boundary(q) = Requests!Boundary(r)
  BY ONLY <1>1 DEF Requests!Boundary
<1>3. Requests!authenticate(q) = Requests!authenticate(r)
  BY ONLY <1>1 DEF Requests!authenticate
<1>4. Requests!Routed(q) = Requests!Routed(r)
  BY ONLY <1>1 DEF Requests!Routed, Requests!query
<1>5. Requests!Display(q) = Requests!Display(r)
  BY ONLY <1>1 DEF Requests!Display, Requests!Has, Requests!Good
<1>6. Requests!Cursors(q) = Requests!Cursors(r)
  BY ONLY <1>1 DEF Requests!Cursors, Requests!Has, Requests!Good
<1>7. /\ Hold(Requests!Boundary(r)) /\ Hold(Requests!authenticate(r))
      /\ Hold(Requests!Routed(r)) /\ Hold(Requests!Display(r))
      /\ Hold(Requests!Cursors(r)) /\ Hold(Requests!Body(r))
  BY Reached
<1>8. Hold(Requests!Body(q))
  <2>1. Requests!Body(q)[1].holds
    BY ONLY <1>1 DEF Requests!Body, Requests!Check
  <2>2. /\ Requests!Body(q)[2].holds <=> Requests!Body(r)[2].holds
        /\ Requests!Body(q)[3].holds <=> Requests!Body(r)[3].holds
        /\ Requests!Body(q)[4].holds <=> Requests!Body(r)[4].holds
        /\ Requests!Body(q)[5].holds <=> Requests!Body(r)[5].holds
        /\ Requests!Body(q)[6].holds <=> Requests!Body(r)[6].holds
        /\ Requests!Body(q)[7].holds <=> Requests!Body(r)[7].holds
    BY ONLY <1>1 DEF Requests!Body, Requests!Check
  <2>3. \A s : Len(Requests!Body(s)) = 7
    <3>1. SUFFICES ASSUME NEW s PROVE Len(Requests!Body(s)) = 7
      OBVIOUS
    <3>2. PICK a, b, c, d, e, f, g : Requests!Body(s) = <<a, b, c, d, e, f, g>>
      BY DEF Requests!Body
    <3> QED
      BY <3>2, ListFacts
  <2>4. /\ \A i \in 1..7 : i = 1 \/ i = 2 \/ i = 3 \/ i = 4 \/ i = 5 \/ i = 6 \/ i = 7
        /\ {1, 2, 3, 4, 5, 6, 7} \subseteq 1..7
    BY SMT
  <2>5. \A i \in 1..7 : Requests!Body(r)[i].holds
    BY <1>7, <2>3 DEF Hold
  <2>6. \A i \in 1..7 : Requests!Body(q)[i].holds
    BY ONLY <2>1, <2>2, <2>4, <2>5
  <2> QED
    BY <2>3, <2>6 DEF Hold
<1>9. q.method # "OPTIONS" /\ ~Requests!IsAsset(q)
  BY <1>1 DEF Requests!IsAsset
<1> QED
  BY <1>2, <1>3, <1>4, <1>5, <1>6, <1>7, <1>8, <1>9, Reached

\* A request has all of its fields, whichever are altered.
RequestInv == DOMAIN request = Fields

\* A request and its preflight agree on where the request goes.
LEMMA SameAddress ==
    ASSUME NEW r, DOMAIN r = Fields, r.method \in {"GET", "POST"}, r.origin = "public",
           ~Requests!IsAsset(r), NEW p, p = r \/ p = Requests!Bare(r), NEW q, q = Requests!Ahead(p),
           NEW o, o = [r EXCEPT !.token = "owner"]
    PROVE  Requests!handle(q).name = "none" <=>
             /\ Requests!handle(o).name \notin RouteNames
             /\ Requests!Carried(p) \subseteq Requests!Known
<1>1. /\ q.host = p.host /\ q.target = p.target /\ q.origin = p.origin /\ q.ids = p.ids
      /\ q.asks = p.method /\ q.spelled = p.spelled /\ q.keys = p.keys
      /\ q.route = p.route /\ q.method = "OPTIONS" /\ q.names = Requests!Carried(p)
  BY AheadFields
<1>2. /\ p.host = r.host /\ p.target = r.target /\ p.origin = r.origin /\ p.ids = r.ids
      /\ p.method = r.method /\ p.spelled = r.spelled /\ p.keys = r.keys /\ p.route = r.route
  BY BareFields
<1>3. /\ q.host = r.host /\ q.target = r.target /\ q.origin = r.origin /\ q.ids = r.ids
      /\ q.asks = r.method /\ q.spelled = r.spelled /\ q.keys = r.keys /\ q.route = r.route
  BY ONLY <1>1, <1>2
<1>4. /\ o.host = r.host /\ o.target = r.target /\ o.origin = r.origin /\ o.ids = r.ids
      /\ o.method = r.method /\ o.spelled = r.spelled /\ o.keys = r.keys
      /\ o.route = r.route /\ o.token = "owner"
  BY TokenFields
<1>5. r.method # "OPTIONS" /\ r.method \notin {"none", "many"} /\ r.origin # "none"
  OBVIOUS
<1>6. Bound(q) <=> Bound(o)
  BY ONLY <1>3, <1>4 DEF Bound
<1>7. Found(q, r.method) <=> Found(o, r.method)
  BY ONLY <1>3, <1>4 DEF Found, Requests!query
<1>8. Requests!handle(q).name = "none" <=>
        Bound(q) /\ Found(q, r.method) /\ Requests!Carried(p) \subseteq Requests!Known
  <2>1. Requests!handle(q).name = "none" <=>
          /\ Bound(q) /\ q.origin # "none" /\ q.asks \notin {"none", "many"}
          /\ q.names \subseteq Requests!Known /\ Found(q, q.asks)
    BY <1>1, Granted
  <2>2. q.names = Requests!Carried(p)
    BY <1>1
  <2> QED
    BY ONLY <1>3, <1>5, <2>1, <2>2
<1>9. Requests!handle(o).name \in RouteNames <=> ~(Bound(o) /\ Found(o, r.method))
  <2>1. ~Requests!IsAsset(o)
    BY <1>4 DEF Requests!IsAsset
  <2>2. o.method # "OPTIONS" /\ o.token = "owner"
    BY <1>4, <1>5
  <2>3. Requests!handle(o).name \in RouteNames <=> ~(Bound(o) /\ Found(o, o.method))
    BY <2>1, <2>2, RefusedByRoute
  <2> QED
    BY <1>4, <2>3
<1> QED
  BY <1>6, <1>7, <1>8, <1>9

\* A request with all of its fields agrees with its preflight.
LEMMA Agrees == RequestInv => Requests!PreflightAgrees
<1>1. PICK r : r = request
  OBVIOUS
<1>2. PICK o : o = [r EXCEPT !.token = "owner"]
  OBVIOUS
<1>3. PICK p : p = Requests!Bare(r)
  OBVIOUS
<1>4. SUFFICES ASSUME DOMAIN r = Fields, r.method \in {"GET", "POST"}, r.origin = "public",
                      ~Requests!IsAsset(r)
               PROVE  /\ Requests!handle(Requests!Ahead(r)).name = "none" =>
                           Requests!handle(o).name \notin RouteNames
                      /\ Requests!handle(o).name \notin RouteNames =>
                           Requests!handle(Requests!Ahead(p)).name = "none"
                      /\ Requests!handle(r).name = "none" => Requests!handle(p).name = "none"
  BY <1>1, <1>2, <1>3 DEF RequestInv, RouteNames, Requests!PreflightAgrees, Requests!Addressing
<1>5. Requests!handle(Requests!Ahead(r)).name = "none" => Requests!handle(o).name \notin RouteNames
  BY <1>2, <1>4, SameAddress
<1>6. Requests!Carried(p) \subseteq Requests!Known
  <2>1. p.coding = "none" /\ p.extra = FALSE
    BY <1>3, <1>4, BareFields
  <2> QED
    BY ONLY <2>1 DEF Requests!Carried, Requests!Known, Requests!Headers
<1>7. Requests!handle(o).name \notin RouteNames => Requests!handle(Requests!Ahead(p)).name = "none"
  BY <1>2, <1>3, <1>4, <1>6, SameAddress
<1>8. Requests!handle(r).name = "none" => Requests!handle(p).name = "none"
  BY <1>3, <1>4, BareReached
<1> QED
  BY <1>5, <1>7, <1>8

\* Whatever fields of a request are altered, a browser that was told 204 for it is not refused
\* for its host, origin, route, method, identifiers or query once it sends it; one that would
\* not be refused for these is granted its preflight, but for the headers that no preflight
\* grants; and no request needs those (preflight, preflight_headers, Boundary and dispatch).
THEOREM Preflight == Requests!RequestSpec => []Requests!PreflightAgrees
<1>1. Requests!RequestInit => RequestInv
  <2>1. SUFFICES ASSUME NEW route, NEW method, request = Requests!WellFormed(route, method)
                 PROVE  RequestInv
    BY DEF Requests!RequestInit
  <2>2. DOMAIN Requests!WellFormed(route, method) = Fields
    BY WellFormedFields
  <2> QED
    BY <2>1, <2>2 DEF RequestInv
<1>2. RequestInv /\ [Requests!Alter]_Requests!requestVars => RequestInv'
  BY DEF RequestInv, Requests!Alter, Requests!requestVars
<1> QED
  BY <1>1, <1>2, Agrees, PTL DEF Requests!RequestSpec

===============================================================================
