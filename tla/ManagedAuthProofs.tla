-------------------------- MODULE ManagedAuthProofs --------------------------
(***************************************************************************)
(* Theorems about ManagedAuth for any agents, profile names, crashes and   *)
(* power losses: the inductive invariant, the steps that get no token from *)
(* the provider under the lock, those that enter new tokens and the loss   *)
(* of power, and what follows.  At the end, the logins in the browser and  *)
(* the credentials of a session.                                           *)
(***************************************************************************)
EXTENDS ManagedAuth, TLAPS

\* Most steps are first-order; the ones with arithmetic or records cite SMT.
USE ZenonT(60)

HolderStages == {"guard", "flush", "exchange", "answer", "write", "sync", "finish"}

Tasks == [pc : {"idle", "bound", "wait", "authorize", "enter"} \cup HolderStages,
          op : {"none", "renew", "login", "logout"}, name : Names \cup {None}, force : BOOLEAN,
          source : 0..MaxTokens, copy : Document, token : 0..MaxTokens,
          removed : 0..MaxTokens, finish : Seq(Tokens)]

\* TypeOK, with the exact type of a task.
Types ==
    /\ doc \in Document /\ guards \subseteq Tokens
    /\ stable \in [doc : Document, guards : SUBSET Tokens]
    /\ lock \in Agents \cup {None}
    /\ task \in [Agents -> Tasks]
    /\ \A a \in Agents : lock = a <=> task[a].pc \in HolderStages
    /\ issued \in 0..MaxTokens /\ live \subseteq 1..issued /\ expired \subseteq 1..issued
    /\ submitted \in [Tokens -> Nat]
    /\ gone \subseteq 1..issued
    /\ crashes \in 0..MaxCrashes /\ losses \in 0..MaxLosses

\* A profile is somewhere under a name: in the document, in what the last sync
\* made durable, or in the copy that the holder of the lock will write.
Holds(d, n, i, r) == d[n].incarnation = i /\ d[n].refresh = r /\ i # 0

Entry(n, i, r) ==
    \/ Holds(doc, n, i, r) \/ Holds(stable.doc, n, i, r)
    \/ \E a \in Agents : Holds(task[a].copy, n, i, r)

\* An incarnation is under one name, and a refresh token belongs to one
\* incarnation, of all the profiles that a power loss could bring back.
EntryInv ==
    /\ \A n, m \in Names : \A i, r, s \in Tokens : Entry(n, i, r) /\ Entry(m, i, s) => n = m
    /\ \A n, m \in Names : \A i, j, r \in Tokens : Entry(n, i, r) /\ Entry(m, j, r) => i = j
    /\ \A n \in Names : \A i, r \in Tokens :
          Entry(n, i, r) => i \in 1..issued /\ r \in 1..issued /\ i \notin gone

\* The guards that any power loss leaves.
Lasting == guards \cap stable.guards

\* Unless it needs a new login or its guard will last, a profile has a token
\* that the provider accepts.
Sound(d) ==
    \A n \in Names : d[n].incarnation # 0 /\ ~d[n].reauth /\ d[n].incarnation \notin Lasting
                     => d[n].refresh \in live

SoundInv == Sound(doc) /\ Sound(stable.doc) /\ \A a \in Agents : Sound(task[a].copy)

\* A token that the provider accepts has not been sent to it.
ProviderInv ==
    /\ \A t \in live : submitted[t] = 0
    /\ \A t \in Tokens : t > issued => submitted[t] = 0
    /\ \A t \in Tokens : submitted[t] <= 1

\* A token that an agent has just received is nobody else's.
FreshInv ==
    \A a \in Agents :
      LET t == task[a] IN
      /\ t.pc = "enter" =>
           /\ t.token \in live /\ t.token \notin gone
           /\ \A n \in Names : \A i, r \in Tokens : Entry(n, i, r) => i # t.token /\ r # t.token
           /\ \A b \in Agents : task[b].removed # t.token
           /\ \A b \in Agents : task[b].pc \in {"enter", "answer"} /\ task[b].token = t.token => a = b
      /\ t.pc = "answer" /\ t.token # 0 =>
           /\ t.token \in live
           /\ \A n \in Names : \A i, r \in Tokens : Entry(n, i, r) => r # t.token

Carried(d, n) ==
    /\ d[n].incarnation = doc[n].incarnation /\ d[n].refresh = doc[n].refresh
    /\ doc[n].reauth => d[n].reauth

Blank(t) == (\A n \in Names : t.copy[n] = NoProfile) /\ t.removed = 0 /\ t.finish = <<>>

\* What an agent works on.  Only the holder of the lock has a copy; it differs
\* from the document in the one profile that the operation is about; the guards
\* that are removed in the end are of profiles whose token the provider accepts,
\* and the removed incarnation is not in the copy.
CopyInv(t) ==
    /\ t.pc # "idle" => t.name \in Names
    /\ t.pc \notin HolderStages => Blank(t)
    /\ t.pc \in {"guard", "flush", "exchange", "answer", "write"} =>
         \A n \in Names \ {t.name} : Carried(t.copy, n)
    /\ t.pc \in {"sync", "finish"} => doc = t.copy
    /\ t.pc = "finish" => stable.doc = doc
    /\ \A n \in Names, k \in 1..Len(t.finish) :
         t.copy[n].incarnation = t.finish[k] => t.copy[n].refresh \in live
    /\ t.removed # 0 => /\ t.removed \in 1..issued
                        /\ \A n \in Names : t.copy[n].incarnation # t.removed

\* A login enters a token that is new; a renewal sends the token that is in the
\* document, expired unless it was forced, under a guard that lasts.
RenewalInv(t) ==
    /\ t.pc \in {"wait", "exchange", "answer"} => t.op = "renew"
    /\ t.pc \in {"authorize", "enter"} => t.op = "login"
    /\ t.pc = "guard" /\ t.op # "renew" =>
         t.op = "login" /\ t.token # 0 /\ \A n \in Names : doc[n].incarnation # t.token
    /\ t.pc \in {"guard", "flush", "exchange"} /\ t.op = "renew" =>
         /\ doc[t.name].incarnation = t.source /\ t.source # 0
         /\ doc[t.name].refresh = t.token
         /\ t.token \in live
         /\ t.force \/ t.token \in expired
    /\ t.pc \in {"guard", "flush", "exchange", "answer"} /\ t.op = "renew" =>
         Carried(t.copy, t.name) /\ t.copy[t.name].incarnation = t.source /\ t.source # 0 /\ t.finish = <<>>
    /\ t.pc = "flush" /\ t.op = "renew" => t.source \in guards
    /\ t.pc \in {"exchange", "answer"} => t.source \in Lasting

TaskInvOf(a) == CopyInv(task[a]) /\ RenewalInv(task[a])

TaskInv == \A a \in Agents : TaskInvOf(a)

IInv == Types /\ EntryInv /\ SoundInv /\ ProviderInv /\ FreshInv /\ TaskInv

-----------------------------------------------------------------------------

\* A name without a profile is the one whose incarnation is 0.
LEMMA ProfileFacts ==
    ASSUME NEW d \in Document, NEW n \in Names
    PROVE  /\ d[n].incarnation \in 0..MaxTokens /\ d[n].refresh \in 0..MaxTokens
           /\ d[n].reauth \in BOOLEAN
           /\ d[n].incarnation # 0 <=> Present(d, n)
           /\ d[n].incarnation # 0 => d[n].incarnation \in Tokens /\ d[n].refresh \in Tokens
<1>1. d[n] \in Profile
  BY DEF Document
<1>2. CASE d[n] = NoProfile
  BY <1>2, AuthAssumption, SMT DEF NoProfile, Present
<1>3. CASE d[n] \in [incarnation : Tokens, refresh : Tokens, reauth : BOOLEAN]
  <2>1. 0 \notin Tokens /\ Tokens \subseteq 0..MaxTokens
    BY AuthAssumption, SMT DEF Tokens
  <2>2. d[n].incarnation \in Tokens /\ d[n].refresh \in Tokens /\ d[n].reauth \in BOOLEAN
    BY <1>3
  <2>3. Present(d, n)
    BY <2>1, <2>2, SMT DEF NoProfile, Present
  <2>4. QED
    BY <2>1, <2>2, <2>3
<1>4. QED
  BY <1>1, <1>2, <1>3 DEF Profile

\* Reading the document marks the guarded profiles and changes nothing else.
LEMMA ReadFacts ==
    ASSUME doc \in Document
    PROVE  /\ Read \in Document
           /\ \A n \in Names :
                /\ Read[n].incarnation = doc[n].incarnation /\ Read[n].refresh = doc[n].refresh
                /\ Read[n].reauth <=> doc[n].reauth \/ (doc[n].incarnation # 0 /\ doc[n].incarnation \in guards)
<1>1. ASSUME NEW n \in Names
      PROVE  /\ Read[n] \in Profile
             /\ Read[n].incarnation = doc[n].incarnation /\ Read[n].refresh = doc[n].refresh
             /\ Read[n].reauth <=> doc[n].reauth \/ (doc[n].incarnation # 0 /\ doc[n].incarnation \in guards)
  <2>1. CASE Present(doc, n) /\ doc[n].incarnation \in guards
    <3>1. Read[n] = [doc[n] EXCEPT !.reauth = TRUE]
      BY <2>1 DEF Read
    <3>2. doc[n] \in [incarnation : Tokens, refresh : Tokens, reauth : BOOLEAN]
      BY <2>1 DEF Document, Profile, Present
    <3>3. QED
      BY <2>1, <3>1, <3>2, ProfileFacts DEF Profile
  <2>2. CASE ~(Present(doc, n) /\ doc[n].incarnation \in guards)
    <3>1. Read[n] = doc[n]
      BY <2>2 DEF Read
    <3>2. QED
      BY <2>2, <3>1, ProfileFacts DEF Document
  <2>3. QED
    BY <2>1, <2>2
<1>2. Read \in Document
  BY <1>1 DEF Read, Document
<1>3. QED
  BY <1>1, <1>2

\* An idle agent has an empty copy.
LEMMA IdleFacts ==
    /\ Idle \in Tasks /\ Idle.pc = "idle" /\ Blank(Idle) /\ Idle.source = 0
    /\ Idle.op = "none" /\ Idle.token = 0 /\ Idle.name = None /\ Idle.removed = 0
    /\ Idle.finish = <<>> /\ [n \in Names |-> NoProfile] \in Document
<1>1. [n \in Names |-> NoProfile] \in Document
  BY DEF Document, Profile
<1>2. 0 \in 0..MaxTokens /\ <<>> \in Seq(Tokens)
  BY AuthAssumption, SMT
<1>3. QED
  BY <1>1, <1>2 DEF Idle, Tasks, Blank

LEMMA InitIInv == Init => IInv
<1> SUFFICES ASSUME Init PROVE IInv
  BY SMT
<1>1. doc \in Document /\ stable.doc \in Document /\ stable \in [doc : Document, guards : SUBSET Tokens]
  BY IdleFacts DEF Init
<1>2. Types
  BY <1>1, IdleFacts, AuthAssumption, SMT DEF Init, Types, HolderStages, Tokens
<1>3. /\ \A n \in Names : doc[n].incarnation = 0 /\ stable.doc[n].incarnation = 0
      /\ \A a \in Agents, n \in Names : task[a].copy[n].incarnation = 0
  BY IdleFacts, SMT DEF Init, Blank, NoProfile
<1>4. \A n \in Names, i, r \in Tokens : ~Entry(n, i, r)
  BY <1>3 DEF Entry, Holds
<1>5. EntryInv
  BY <1>4 DEF EntryInv
<1>6. SoundInv /\ ProviderInv
  BY <1>3, AuthAssumption, SMT DEF SoundInv, Sound, ProviderInv, Init, Tokens
<1>7. \A a \in Agents : task[a] = Idle
  BY DEF Init
<1>8. FreshInv /\ TaskInv
  BY <1>7, IdleFacts, SMT DEF FreshInv, TaskInv, TaskInvOf, CopyInv, RenewalInv, HolderStages
<1>9. QED
  BY <1>2, <1>5, <1>6, <1>8 DEF IInv

-----------------------------------------------------------------------------

\* Only the holder of the lock works on a copy.
LEMMA OneHolder ==
    ASSUME IInv, NEW a \in Agents, NEW b \in Agents, a # b, task[a].pc \in HolderStages
    PROVE  task[b].pc \notin HolderStages
BY DEF IInv, Types

LEMMA BlankFacts ==
    ASSUME NEW t \in Tasks, Blank(t)
    PROVE  /\ \A n \in Names : t.copy[n].incarnation = 0
           /\ Len(t.finish) = 0 /\ t.finish = <<>> /\ t.removed = 0
BY SMT DEF Blank, NoProfile

\* A task with no copy asks for a name and the right operation, and no more.
LEMMA BlankTask ==
    ASSUME NEW t \in Tasks, Blank(t), t.pc \in {"idle", "bound", "wait", "authorize", "enter"},
           t.pc # "idle" => t.name \in Names, t.pc = "wait" => t.op = "renew",
           t.pc \in {"authorize", "enter"} => t.op = "login"
    PROVE  (CopyInv(t) /\ RenewalInv(t))'
<1>1. \A n \in Names, k \in 1..Len(t.finish) : FALSE
  BY BlankFacts, SMT
<1>2. CopyInv(t)'
  BY <1>1, BlankFacts DEF CopyInv, HolderStages
<1>3. RenewalInv(t)'
  BY DEF RenewalInv
<1>4. QED
  BY <1>2, <1>3

\* A task that holds nothing depends on nothing but itself.
LEMMA FreeTask ==
    ASSUME IInv, NEW b \in Agents, task'[b] = task[b], task[b].pc \notin HolderStages
    PROVE  TaskInvOf(b)'
<1>1. /\ task[b].pc # "idle" => task[b].name \in Names
      /\ Blank(task[b]) /\ (task[b].pc = "wait" => task[b].op = "renew")
      /\ task[b].pc \in {"authorize", "enter"} => task[b].op = "login"
  BY DEF IInv, TaskInv, TaskInvOf, CopyInv, RenewalInv
<1>2. task[b] \in Tasks /\ task[b].pc \in {"idle", "bound", "wait", "authorize", "enter"}
  BY DEF IInv, Types, Tasks, HolderStages
<1>3. QED
  BY <1>1, <1>2, BlankTask DEF TaskInvOf

\* Entries disappear, or nothing happens to them.
LEMMA EntryFrame ==
    ASSUME IInv, issued' \in 0..MaxTokens, issued <= issued',
           \A n \in Names : \A i, r \in Tokens : Entry(n, i, r)' => Entry(n, i, r) /\ i \notin gone'
    PROVE  EntryInv'
<1>1. 1..issued \subseteq 1..issued'
  BY SMT DEF IInv, Types
<1>2. \A n \in Names : \A i, r \in Tokens : Entry(n, i, r)' => i \in 1..issued' /\ r \in 1..issued' /\ i \notin gone'
  BY <1>1 DEF IInv, EntryInv
<1>3. QED
  BY <1>2, SMT DEF IInv, EntryInv

\* A task goes on when nothing that it relies on is taken away.
LEMMA TaskFrame ==
    ASSUME IInv, NEW b \in Agents, task'[b] = task[b],
           doc' = doc, stable' = stable, guards' = guards,
           live \subseteq live', expired \subseteq expired', 1..issued \subseteq 1..issued'
    PROVE  TaskInvOf(b)'
<1>1. CopyInv(task[b]) /\ RenewalInv(task[b])
  BY DEF IInv, TaskInv, TaskInvOf
<1>2. CopyInv(task[b])'
  BY <1>1, SMT DEF CopyInv, Carried, Blank
<1>3. RenewalInv(task[b])'
  BY <1>1 DEF RenewalInv, Carried, Lasting
<1>4. QED
  BY <1>2, <1>3 DEF TaskInvOf

\* A task that keeps to itself: its agent holds no lock, and the document, the
\* guards and the provider stay as they are.
LEMMA RestStep ==
    ASSUME IInv, NEW a \in Agents, NEW t \in Tasks, NEW g \in SUBSET (1..issued),
           t.pc \in {"idle", "bound", "wait", "authorize"}, Blank(t),
           t.pc # "idle" => t.name \in Names, t.pc = "wait" => t.op = "renew",
           t.pc = "authorize" => t.op = "login",
           task' = [task EXCEPT ![a] = t], lock' = Released(a),
           gone' = gone \cup g,
           \A n \in Names : \A i, r \in Tokens : Holds(doc, n, i, r) \/ Holds(stable.doc, n, i, r) => i \notin g,
           \A b \in Agents : task[b].pc = "enter" => task[b].token \notin g,
           g = {} \/ task[a].pc \in HolderStages,
           UNCHANGED <<files, provider, expired, losses>>, crashes' \in 0..MaxCrashes
    PROVE  IInv'
<1>1. /\ task' \in [Agents -> Tasks] /\ task'[a] = t
      /\ \A b \in Agents \ {a} : task'[b] = task[b]
  BY DEF IInv, Types
<1>2. /\ doc' = doc /\ guards' = guards /\ stable' = stable /\ live' = live /\ issued' = issued
      /\ submitted' = submitted /\ expired' = expired /\ losses' = losses
  BY DEF files, provider
<1>3. Types'
  <2>1. t.pc \notin HolderStages
    BY DEF HolderStages
  <2>2. \A b \in Agents : lock' = b <=> task'[b].pc \in HolderStages
    BY <1>1, <2>1, AuthAssumption DEF IInv, Types, Released
  <2>3. lock' \in Agents \cup {None} /\ gone' \subseteq 1..issued
    BY DEF IInv, Types, Released
  <2>4. QED
    BY <1>1, <1>2, <2>2, <2>3 DEF IInv, Types
<1>4. \A n \in Names : t.copy[n].incarnation = 0
  BY BlankFacts
<1>5. \A n \in Names : \A i, r \in Tokens : Entry(n, i, r)' => Entry(n, i, r)
  BY <1>1, <1>2, <1>4, SMT DEF Entry, Holds
<1>6. EntryInv'
  <2>1. ASSUME NEW n \in Names, NEW i \in Tokens, NEW r \in Tokens, Entry(n, i, r)'
        PROVE  i \notin gone'
    <3>1. i \notin gone
      BY <1>5, <2>1 DEF IInv, EntryInv
    <3>2. CASE g = {}
      BY <3>1, <3>2
    <3>3. CASE task[a].pc \in HolderStages
      <4>1. \A b \in Agents \ {a} : \A m \in Names : task[b].copy[m].incarnation = 0
        BY <3>3, OneHolder, SMT DEF IInv, TaskInv, TaskInvOf, CopyInv, RenewalInv, Blank, NoProfile
      <4>2. Holds(doc, n, i, r) \/ Holds(stable.doc, n, i, r)
        BY <1>1, <1>2, <1>4, <2>1, <4>1 DEF Entry, Holds
      <4>3. QED
        BY <3>1, <4>2
    <3>4. QED
      BY <3>2, <3>3
  <2>2. QED
    BY <1>2, <1>5, <2>1, EntryFrame, SMT DEF IInv, Types
<1>7. SoundInv'
  BY <1>1, <1>2, <1>4 DEF IInv, SoundInv, Sound, Lasting
<1>8. ProviderInv'
  BY <1>2 DEF IInv, ProviderInv
<1>9. FreshInv'
  <2>1. t.pc \notin {"enter", "answer"} /\ t.removed = 0
    BY DEF Blank
  <2>2. 0 \notin live
    BY SMT DEF IInv, Types
  <2>3. QED
    BY <1>1, <1>2, <1>5, <2>1, <2>2, SMT DEF IInv, FreshInv
<1>10. TaskInv'
  <2>1. TaskInvOf(a)'
    BY <1>1, BlankTask DEF TaskInvOf
  <2>2. ASSUME NEW b \in Agents, b # a PROVE TaskInvOf(b)'
    BY <1>1, <1>2, <2>2, TaskFrame DEF IInv, Types
  <2>3. QED
    BY <2>1, <2>2 DEF TaskInv
<1>11. QED
  BY <1>3, <1>6, <1>7, <1>8, <1>9, <1>10 DEF IInv

\* The same when no removal is acknowledged.
LEMMA QuietStep ==
    ASSUME IInv, NEW a \in Agents, NEW t \in Tasks,
           t.pc \in {"idle", "bound", "wait", "authorize"}, Blank(t),
           t.pc # "idle" => t.name \in Names, t.pc = "wait" => t.op = "renew",
           t.pc = "authorize" => t.op = "login",
           task' = [task EXCEPT ![a] = t], lock' = Released(a),
           UNCHANGED <<files, provider, expired, gone, losses>>,
           crashes' \in {crashes} \cup (0..MaxCrashes)
    PROVE  IInv'
<1>1. gone' = gone \cup {} /\ crashes' \in 0..MaxCrashes
  BY DEF IInv, Types
<1>2. {} \in SUBSET (1..issued)
  BY SMT
<1>3. \A n \in Names : \A i, r \in Tokens : Holds(doc, n, i, r) \/ Holds(stable.doc, n, i, r) => i \notin {}
  BY SMT
<1>4. \A b \in Agents : task[b].pc = "enter" => task[b].token \notin {}
  BY SMT
<1>5. QED
  BY <1>1, <1>2, <1>3, <1>4, RestStep

\* A selection of a profile is a task that holds nothing.
LEMMA SelectedFacts ==
    ASSUME NEW n \in Names, NEW i \in 0..MaxTokens
    PROVE  LET t == [Idle EXCEPT !.pc = "bound", !.name = n, !.source = i] IN
           t \in Tasks /\ t.pc = "bound" /\ t.name = n /\ Blank(t)
<1>1. /\ Idle \in Tasks /\ Idle.removed = 0 /\ Idle.finish = <<>>
      /\ \A m \in Names : Idle.copy[m] = NoProfile
  BY IdleFacts DEF Blank
<1>2. QED
  BY <1>1 DEF Tasks, Blank

LEMMA EndedFacts ==
    ASSUME IInv, NEW a \in Agents, task[a].pc # "idle"
    PROVE  /\ Ended(a) \in Tasks /\ Ended(a).pc \in {"idle", "bound"} /\ Blank(Ended(a))
           /\ Ended(a).pc # "idle" => Ended(a).name \in Names
<1>1. task[a].name \in Names /\ task[a].source \in 0..MaxTokens
  BY DEF IInv, Types, Tasks, TaskInv, TaskInvOf, CopyInv, RenewalInv
<1>2. QED
  BY <1>1, IdleFacts, SelectedFacts DEF Ended

LEMMA SelectStep ==
    ASSUME IInv, NEW a \in Agents, NEW n \in Names, Select(a, n)
    PROVE  IInv'
<1> DEFINE t == [Idle EXCEPT !.pc = "bound", !.name = n, !.source = Read[n].incarnation]
<1>1. Read[n].incarnation \in 0..MaxTokens
  BY ReadFacts, ProfileFacts DEF IInv, Types
<1>2. t \in Tasks /\ t.pc = "bound" /\ t.name = n /\ Blank(t)
  BY <1>1, SelectedFacts
<1>3. task' = [task EXCEPT ![a] = t] /\ lock' = Released(a)
  BY AuthAssumption DEF Select, Becomes, Released
<1> HIDE DEF t
<1>4. QED
  BY <1>2, <1>3, QuietStep DEF Select

LEMMA DeselectStep ==
    ASSUME IInv, NEW a \in Agents, Deselect(a)
    PROVE  IInv'
<1>1. task' = [task EXCEPT ![a] = Idle] /\ lock' = Released(a)
  BY DEF Deselect, Becomes, Released, IInv, Types, HolderStages
<1>2. QED
  BY <1>1, IdleFacts, QuietStep DEF Deselect

LEMMA PrepareStep ==
    ASSUME IInv, NEW a \in Agents, NEW force \in BOOLEAN, Prepare(a, force)
    PROVE  IInv'
<1> DEFINE t == [task[a] EXCEPT !.pc = "wait", !.op = "renew", !.force = force]
<1>1. task[a] \in Tasks /\ Blank(task[a]) /\ task[a].name \in Names
  BY DEF IInv, Types, TaskInv, TaskInvOf, CopyInv, RenewalInv, Prepare, HolderStages
<1>2. t \in Tasks /\ t.pc = "wait" /\ t.op = "renew" /\ t.name \in Names /\ Blank(t)
  BY <1>1 DEF Tasks, Blank
<1>3. task' = [task EXCEPT ![a] = t] /\ lock' = Released(a)
  BY AuthAssumption DEF Prepare, Becomes, Released
<1> HIDE DEF t
<1>4. QED
  BY <1>2, <1>3, QuietStep DEF Prepare

LEMMA RenewalNotDueStep ==
    ASSUME IInv, NEW a \in Agents, RenewalNotDue(a)
    PROVE  IInv'
<1>1. task' = [task EXCEPT ![a] = Ended(a)] /\ lock' = Released(a)
  BY AuthAssumption DEF RenewalNotDue, Becomes, Released
<1>2. QED
  BY <1>1, EndedFacts, QuietStep DEF RenewalNotDue

LEMMA LoginStep ==
    ASSUME IInv, NEW a \in Agents, NEW n \in Names, NEW replace \in BOOLEAN, Login(a, n, replace)
    PROVE  IInv'
<1> DEFINE t == [Idle EXCEPT !.pc = "authorize", !.op = "login", !.name = n, !.force = replace]
<1>1. /\ Idle \in Tasks /\ Idle.removed = 0 /\ Idle.finish = <<>>
      /\ \A m \in Names : Idle.copy[m] = NoProfile
  BY IdleFacts DEF Blank
<1>2. t \in Tasks /\ t.pc = "authorize" /\ t.op = "login" /\ t.name = n /\ Blank(t)
  BY <1>1 DEF Tasks, Blank
<1>3. task' = [task EXCEPT ![a] = t] /\ lock' = Released(a)
  BY AuthAssumption DEF Login, Becomes, Released
<1> HIDE DEF t
<1>4. QED
  BY <1>2, <1>3, QuietStep DEF Login

LEMMA FailStep ==
    ASSUME IInv, NEW a \in Agents, Fail(a)
    PROVE  IInv'
<1>1. task' = [task EXCEPT ![a] = Ended(a)] /\ lock' = Released(a)
  BY DEF Fail, Becomes
<1>2. QED
  BY <1>1, EndedFacts, QuietStep DEF Fail

LEMMA CrashStep ==
    ASSUME IInv, NEW a \in Agents, Crash(a)
    PROVE  IInv'
<1>1. task' = [task EXCEPT ![a] = Idle] /\ lock' = Released(a)
  BY DEF Crash, Becomes
<1>2. crashes' \in 0..MaxCrashes
  BY AuthAssumption, SMT DEF Crash, IInv, Types
<1>3. QED
  BY <1>1, <1>2, IdleFacts, QuietStep DEF Crash

\* The removed incarnation is in no document any more when its removal is
\* acknowledged.
LEMMA AcknowledgeStep ==
    ASSUME IInv, NEW a \in Agents, Acknowledge(a)
    PROVE  IInv'
<1> DEFINE g == {task[a].removed} \ {0}
<1>1. task[a].pc = "finish" /\ task[a].pc \in HolderStages /\ task[a] \in Tasks
  BY DEF Acknowledge, HolderStages, IInv, Types
<1>2. g \in SUBSET (1..issued)
  BY DEF IInv, TaskInv, TaskInvOf, CopyInv, RenewalInv
<1>3. \A n \in Names : \A i, r \in Tokens : Holds(doc, n, i, r) \/ Holds(stable.doc, n, i, r) => i \notin g
  BY <1>1, SMT DEF IInv, TaskInv, TaskInvOf, CopyInv, RenewalInv, Holds
<1>4. \A b \in Agents : task[b].pc = "enter" => task[b].token \notin g
  BY DEF IInv, FreshInv
<1>5. task' = [task EXCEPT ![a] = Ended(a)] /\ lock' = Released(a) /\ gone' = gone \cup g
  BY <1>1 DEF Acknowledge, Becomes, Released, IInv, Types
<1> HIDE DEF g
<1>6. QED
  BY <1>1, <1>2, <1>3, <1>4, <1>5, EndedFacts, RestStep DEF Acknowledge, IInv, Types

-----------------------------------------------------------------------------

LEMMA ExpireStep ==
    ASSUME IInv, NEW t \in Tokens, Expire(t)
    PROVE  IInv'
<1>1. /\ UNCHANGED <<doc, guards, stable, lock, task, live, issued, submitted, gone, crashes, losses>>
      /\ expired' = expired \cup {t} /\ t \in 1..issued
  BY DEF Expire, files, provider
<1>2. Types'
  BY <1>1 DEF IInv, Types
<1>3. \A n \in Names : \A i, r \in Tokens : Entry(n, i, r)' <=> Entry(n, i, r)
  BY <1>1, SMT DEF Entry, Holds
<1>4. EntryInv'
  BY <1>1, <1>3, EntryFrame, SMT DEF IInv, EntryInv, Types
<1>5. ProviderInv' /\ SoundInv'
  BY <1>1 DEF IInv, ProviderInv, SoundInv, Sound, Lasting
<1>6. FreshInv'
  BY <1>1, <1>3 DEF IInv, FreshInv
<1>7. TaskInv'
  BY <1>1, TaskFrame DEF TaskInv
<1>8. QED
  BY <1>2, <1>4, <1>5, <1>6, <1>7 DEF IInv

\* An agent goes to the next stage with its task unchanged otherwise.
Onward(t, u) ==
    /\ t.op = u.op /\ t.name = u.name /\ t.force = u.force /\ t.source = u.source
    /\ t.copy = u.copy /\ t.token = u.token /\ t.removed = u.removed /\ t.finish = u.finish

LEMMA GoesFacts ==
    ASSUME Types, NEW a \in Agents, NEW where \in HolderStages, Goes(a, where)
    PROVE  \E t \in Tasks : /\ task' = [task EXCEPT ![a] = t]
                            /\ t.pc = where /\ Onward(t, task[a])
<1> DEFINE t == [task[a] EXCEPT !.pc = where]
<1>1. task' = [task EXCEPT ![a] = t]
  BY DEF Goes
<1>2. task[a] \in Tasks
  BY DEF Types
<1>3. t \in Tasks /\ t.pc = where /\ Onward(t, task[a])
  BY <1>2 DEF Tasks, Onward
<1>4. QED
  BY <1>1, <1>3

LEMMA AuthorizeStep ==
    ASSUME IInv, NEW a \in Agents, Authorize(a)
    PROVE  IInv'
<1> DEFINE t == [task[a] EXCEPT !.pc = "enter", !.token = issued + 1]
<1>1. /\ UNCHANGED <<doc, guards, stable, lock, submitted, expired, gone, crashes, losses>>
      /\ issued \in 0..MaxTokens /\ issued' = issued + 1 /\ issued' \in 0..MaxTokens
      /\ live' = live \cup {issued'} /\ task[a].pc = "authorize"
      /\ task' = [task EXCEPT ![a] = t]
  BY AuthAssumption, SMT DEF Authorize, Becomes, files, IInv, Types
<1>2. task[a] \in Tasks /\ Blank(task[a]) /\ task[a].name \in Names /\ task[a].op = "login"
  BY <1>1 DEF IInv, Types, TaskInv, TaskInvOf, CopyInv, RenewalInv, HolderStages
<1>3. t \in Tasks /\ t.pc = "enter" /\ t.op = "login" /\ t.token = issued' /\ Blank(t) /\ t.name \in Names /\ t.copy = task[a].copy
  BY <1>1, <1>2 DEF Tasks, Blank
<1> HIDE DEF t
<1>4. task' \in [Agents -> Tasks] /\ task'[a] = t /\ \A b \in Agents \ {a} : task'[b] = task[b]
  BY <1>1, <1>3 DEF IInv, Types
<1>5. 1..issued \subseteq 1..issued' /\ issued' \notin 1..issued /\ issued' # 0 /\ issued' \in 1..issued'
  BY <1>1, SMT
<1>6. Types'
  <2>1. \A b \in Agents : lock' = b <=> task'[b].pc \in HolderStages
    BY <1>1, <1>3, <1>4 DEF IInv, Types, HolderStages
  <2>2. live' \subseteq 1..issued' /\ expired' \subseteq 1..issued' /\ gone' \subseteq 1..issued'
    BY <1>1, <1>5 DEF IInv, Types
  <2>3. QED
    BY <1>1, <1>4, <2>1, <2>2 DEF IInv, Types
<1>7. \A n \in Names : \A i, r \in Tokens : Entry(n, i, r)' <=> Entry(n, i, r)
  BY <1>1, <1>3, <1>4, SMT DEF Entry, Holds
<1>8. EntryInv'
  BY <1>1, <1>7, EntryFrame, SMT DEF IInv, EntryInv
<1>9. SoundInv'
  <2>1. \A b \in Agents : task'[b].copy = task[b].copy
    BY <1>3, <1>4
  <2>2. QED
    BY <1>1, <2>1, SMT DEF IInv, SoundInv, Sound, Lasting
<1>10. ProviderInv'
  <2>1. issued' \in Tokens /\ submitted[issued'] = 0
    BY <1>1, SMT DEF IInv, ProviderInv, Tokens
  <2>2. \A u \in Tokens : u > issued' => u > issued
    BY <1>1, SMT DEF Tokens
  <2>3. QED
    BY <1>1, <2>1, <2>2 DEF IInv, ProviderInv
<1>11. FreshInv'
  <2>1. \A b \in Agents : task'[b].removed = task[b].removed /\ task[b].removed # issued'
    BY <1>2, <1>3, <1>4, <1>5 DEF IInv, TaskInv, TaskInvOf, CopyInv, RenewalInv, Blank
  <2>2. \A b \in Agents \ {a} : task[b].pc \in {"enter", "answer"} => task[b].token # issued'
    BY <1>5, SMT DEF IInv, FreshInv, Types
  <2>3. \A n \in Names : \A i, r \in Tokens : Entry(n, i, r) => i # issued' /\ r # issued'
    BY <1>5 DEF IInv, EntryInv
  <2>4. issued' \in live' /\ issued' \notin gone' /\ live \subseteq live' /\ gone' = gone
    BY <1>1, <1>5 DEF IInv, Types
  <2>5. QED
    BY <1>3, <1>4, <1>7, <2>1, <2>2, <2>3, <2>4, SMT DEF IInv, FreshInv
<1>12. TaskInv'
  <2>1. TaskInvOf(a)'
    BY <1>3, <1>4, BlankTask DEF TaskInvOf
  <2>2. \A b \in Agents \ {a} : TaskInvOf(b)'
    BY <1>1, <1>4, <1>5, TaskFrame
  <2>3. QED
    BY <2>1, <2>2 DEF TaskInv
<1>13. QED
  BY <1>6, <1>8, <1>9, <1>10, <1>11, <1>12 DEF IInv

\* A step of the agent that holds the lock, or takes it.
LEMMA HolderCore ==
    ASSUME IInv, NEW a \in Agents, NEW t \in Tasks, task' = [task EXCEPT ![a] = t],
           t.pc \in HolderStages, lock \in {None, a}, lock' = a,
           doc' \in Document, guards' \subseteq Tokens,
           stable' \in [doc : Document, guards : SUBSET Tokens],
           UNCHANGED <<provider, expired, gone, crashes, losses>>,
           EntryInv', FreshInv',
           Sound(doc)', Sound(stable.doc)', Sound(t.copy)', TaskInvOf(a)'
    PROVE  IInv'
<1>1. /\ task' \in [Agents -> Tasks] /\ task'[a] = t
      /\ \A b \in Agents \ {a} : task'[b] = task[b] /\ task[b].pc \notin HolderStages
  BY AuthAssumption DEF IInv, Types
<1>2. UNCHANGED <<live, issued, submitted>>
  BY DEF provider
<1>3. Types'
  <2>1. \A b \in Agents : lock' = b <=> task'[b].pc \in HolderStages
    BY <1>1
  <2>2. QED
    BY <1>1, <1>2, <2>1 DEF IInv, Types
<1>4. SoundInv'
  <2>1. ASSUME NEW b \in Agents, b # a PROVE Sound(task[b].copy)'
    <3>1. \A n \in Names : task'[b].copy[n].incarnation = 0
      BY <1>1, <2>1, SMT DEF IInv, TaskInv, TaskInvOf, CopyInv, RenewalInv, Blank, NoProfile
    <3>2. QED
      BY <3>1 DEF Sound
  <2>2. Sound(task[a].copy)'
    BY <1>1 DEF Sound
  <2>3. QED
    BY <2>1, <2>2 DEF SoundInv
<1>5. ProviderInv'
  BY <1>2 DEF IInv, ProviderInv
<1>6. TaskInv'
  BY <1>1, FreeTask DEF TaskInv
<1>7. QED
  BY <1>3, <1>4, <1>5, <1>6 DEF IInv

\* One that brings in no new profile.
LEMMA HolderStep ==
    ASSUME IInv, NEW a \in Agents, NEW t \in Tasks, task' = [task EXCEPT ![a] = t],
           t.pc \in HolderStages \ {"answer"}, lock \in {None, a}, lock' = a,
           doc' \in Document, guards' \subseteq Tokens,
           stable' \in [doc : Document, guards : SUBSET Tokens],
           UNCHANGED <<provider, expired, gone, crashes, losses>>,
           \A n \in Names : \A i, r \in Tokens : Entry(n, i, r)' => Entry(n, i, r),
           \A b \in Agents : task[b].pc = "enter" => t.removed # task[b].token,
           Sound(doc)', Sound(stable.doc)', Sound(t.copy)', TaskInvOf(a)'
    PROVE  IInv'
<1>1. task'[a] = t /\ \A b \in Agents \ {a} : task'[b] = task[b]
  BY DEF IInv, Types
<1>2. UNCHANGED <<live, issued, gone>>
  BY DEF provider
<1>3. EntryInv'
  BY <1>2, EntryFrame, SMT DEF IInv, EntryInv, Types
<1>4. FreshInv'
  <2>1. t.pc \notin {"enter", "answer"}
    BY DEF HolderStages
  <2>2. QED
    BY <1>1, <1>2, <2>1, SMT DEF IInv, FreshInv
<1>5. QED
  BY <1>3, <1>4, HolderCore

\* One that brings in a profile with a token just received: the only one that
\* is new has no token of another, and the incarnation of none under another name.
Brings(m, j, s) ==
    /\ j \in 1..issued /\ s \in 1..issued /\ j \notin gone
    /\ \A n \in Names : \A i, r \in Tokens :
          Entry(n, i, r)' => Entry(n, i, r) \/ (n = m /\ i = j /\ r = s)
    /\ \A n \in Names : \A i, r \in Tokens : Entry(n, i, r) => r # s /\ (i = j => n = m)

Strange(a, t, j, s) ==
    \A b \in Agents \ {a} : task[b].pc = "enter" =>
        t.removed # task[b].token /\ j # task[b].token /\ s # task[b].token

LEMMA NewProfileStep ==
    ASSUME IInv, NEW a \in Agents, NEW t \in Tasks, task' = [task EXCEPT ![a] = t],
           t.pc \in HolderStages \ {"answer"}, lock \in {None, a}, lock' = a,
           UNCHANGED <<files, provider, expired, gone, crashes, losses>>,
           NEW m \in Names, NEW j \in Tokens, NEW s \in Tokens,
           Brings(m, j, s), Strange(a, t, j, s),
           Sound(t.copy)', TaskInvOf(a)'
    PROVE  IInv'
<1>1. task'[a] = t /\ \A b \in Agents \ {a} : task'[b] = task[b]
  BY DEF IInv, Types
<1>2. UNCHANGED <<doc, guards, stable, live, issued, gone>>
  BY DEF provider, files
<1>3. EntryInv'
  <2>1. \A n \in Names : \A i, r \in Tokens :
          Entry(n, i, r)' => i \in 1..issued' /\ r \in 1..issued' /\ i \notin gone'
    BY <1>2, SMT DEF Brings, IInv, EntryInv
  <2>2. \A n, o \in Names : \A i, r, u \in Tokens : Entry(n, i, r)' /\ Entry(o, i, u)' => n = o
    BY SMT DEF Brings, IInv, EntryInv
  <2>3. \A n, o \in Names : \A i, k, r \in Tokens : Entry(n, i, r)' /\ Entry(o, k, r)' => i = k
    BY SMT DEF Brings, IInv, EntryInv
  <2>4. QED
    BY <2>1, <2>2, <2>3 DEF EntryInv
<1>4. FreshInv'
  <2>1. t.pc \notin {"enter", "answer"}
    BY DEF HolderStages
  <2>2. ASSUME NEW b \in Agents, b # a, task[b].pc = "enter"
        PROVE  \A n \in Names : \A i, r \in Tokens : Entry(n, i, r)' => i # task[b].token /\ r # task[b].token
    BY <2>2 DEF Brings, Strange, IInv, FreshInv
  <2>3. ASSUME NEW b \in Agents, b # a PROVE task[b].pc # "answer"
    BY <2>3, AuthAssumption DEF IInv, Types, HolderStages
  <2>4. QED
    BY <1>1, <1>2, <2>1, <2>2, <2>3, SMT DEF Strange, IInv, FreshInv
<1>5. Sound(doc)' /\ Sound(stable.doc)'
  BY <1>2 DEF IInv, SoundInv, Sound, Lasting
<1>6. QED
  BY <1>2, <1>3, <1>4, <1>5, HolderCore DEF IInv, Types

LEMMA EnterRenewalStep ==
    ASSUME IInv, NEW a \in Agents, EnterRenewal(a)
    PROVE  IInv'
<1>1. /\ task[a].pc = "wait" /\ task[a] \in Tasks /\ Blank(task[a]) /\ task[a].op = "renew"
      /\ task[a].name \in Names /\ doc \in Document
  BY DEF EnterRenewal, IInv, Types, TaskInv, TaskInvOf, CopyInv, RenewalInv, HolderStages
<1>2. Read \in Document /\ Read[task[a].name].refresh \in 0..MaxTokens
  BY <1>1, ReadFacts, ProfileFacts
<1>3. PICK t \in Tasks :
        /\ task' = [task EXCEPT ![a] = t] /\ t.pc = "guard" /\ t.copy = Read
        /\ t.token = Read[t.name].refresh /\ t.op = "renew" /\ t.name = task[a].name
        /\ t.force = task[a].force /\ t.source = task[a].source
        /\ t.removed = 0 /\ t.finish = <<>>
  <2> DEFINE u == [task[a] EXCEPT !.pc = "guard", !.copy = Read, !.token = Read[task[a].name].refresh]
  <2>1. task' = [task EXCEPT ![a] = u]
    BY DEF EnterRenewal, Becomes
  <2>2. u \in Tasks
    BY <1>1, <1>2 DEF Tasks, HolderStages
  <2>3. /\ u.pc = "guard" /\ u.copy = Read /\ u.token = Read[u.name].refresh
        /\ u.op = "renew" /\ u.name = task[a].name /\ u.force = task[a].force /\ u.source = task[a].source
        /\ u.removed = 0 /\ u.finish = <<>>
    BY <1>1 DEF Tasks, Blank
  <2>4. QED
    BY <2>1, <2>2, <2>3
<1>4. \A n \in Names :
        /\ t.copy[n].incarnation = doc[n].incarnation /\ t.copy[n].refresh = doc[n].refresh
        /\ t.copy[n].reauth <=> doc[n].reauth \/ (doc[n].incarnation # 0 /\ doc[n].incarnation \in guards)
  BY <1>1, <1>3, ReadFacts
<1>5. UNCHANGED <<doc, guards, stable, live, expired>> /\ task'[a] = t
      /\ \A b \in Agents \ {a} : task'[b] = task[b]
  BY <1>3 DEF EnterRenewal, files, provider, IInv, Types
<1>6. /\ doc[t.name].incarnation = t.source /\ t.source # 0 /\ t.name \in Names
      /\ ~doc[t.name].reauth /\ doc[t.name].incarnation \notin guards
      /\ t.force \/ t.token \in expired
  BY <1>1, <1>2, <1>3, <1>4, ProfileFacts, SMT DEF EnterRenewal, Bound, Usable, Due
<1>7. doc[t.name].refresh \in live /\ doc[t.name].refresh = t.token
  BY <1>1, <1>3, <1>4, <1>6 DEF IInv, SoundInv, Sound, Lasting
<1>8. TaskInvOf(a)'
  <2>1. CopyInv(t)'
    BY <1>3, <1>4, <1>5, <1>6, <1>7, SMT DEF TaskInvOf, CopyInv, Carried, HolderStages
  <2>2. RenewalInv(t)'
    BY <1>3, <1>4, <1>5, <1>6, <1>7 DEF TaskInvOf, RenewalInv, Carried
  <2>3. QED
    BY <1>5, <2>1, <2>2 DEF TaskInvOf
<1>9. \A n \in Names : \A i, r \in Tokens : Entry(n, i, r)' => Entry(n, i, r)
  BY <1>4, <1>5, SMT DEF Entry, Holds
<1>10. Sound(doc)' /\ Sound(stable.doc)' /\ Sound(t.copy)'
  BY <1>4, <1>5 DEF IInv, SoundInv, Sound, Lasting
<1>11. \A b \in Agents : task[b].pc = "enter" => t.removed # task[b].token
  BY <1>3, SMT DEF IInv, FreshInv, Types
<1>12. QED
  BY <1>3, <1>5, <1>8, <1>9, <1>10, <1>11, HolderStep DEF EnterRenewal, Acquire, IInv, Types, HolderStages

\* Nothing new is anywhere when the holder only moves its copy on.
LEMMA EntryMoves ==
    ASSUME NEW a \in Agents, NEW t \in Tasks, task'[a] = t, \A b \in Agents \ {a} : task'[b] = task[b],
           t.copy = task[a].copy, doc' \in {doc, t.copy}, stable'.doc \in {doc, stable.doc}
    PROVE  \A n \in Names : \A i, r \in Tokens : Entry(n, i, r)' => Entry(n, i, r)
<1>1. SUFFICES ASSUME NEW n \in Names, NEW i \in Tokens, NEW r \in Tokens, Entry(n, i, r)'
               PROVE  Entry(n, i, r)
  OBVIOUS
<1>2. CASE Holds(doc, n, i, r)' \/ Holds(stable.doc, n, i, r)'
  BY <1>2 DEF Entry, Holds
<1>3. ASSUME NEW b \in Agents, Holds(task[b].copy, n, i, r)' PROVE Entry(n, i, r)
  <2>1. task'[b].copy = task[b].copy
    OBVIOUS
  <2>2. QED
    BY <1>3, <2>1 DEF Entry, Holds
<1>4. QED
  BY <1>1, <1>2, <1>3 DEF Entry

LEMMA GuardStep ==
    ASSUME IInv, NEW a \in Agents, Guard(a)
    PROVE  IInv'
<1>1. task[a].pc = "guard" /\ task[a] \in Tasks /\ lock = a /\ TaskInvOf(a)
  BY DEF Guard, IInv, Types, TaskInv, HolderStages
<1>2. PICK t \in Tasks : task' = [task EXCEPT ![a] = t] /\ t.pc = "flush" /\ Onward(t, task[a])
  BY GoesFacts DEF Guard, IInv, HolderStages
<1>3. Guarded(a) \in Tokens /\ (t.op = "renew" => Guarded(a) = t.source)
  BY <1>1, <1>2, AuthAssumption, SMT DEF Guarded, Tasks, Tokens, TaskInvOf, CopyInv, RenewalInv, Onward
<1>4. /\ UNCHANGED <<doc, stable, live, expired, issued>> /\ guards' = guards \cup {Guarded(a)}
      /\ task'[a] = t /\ \A b \in Agents \ {a} : task'[b] = task[b]
  BY <1>2 DEF Guard, provider, IInv, Types
<1>5. guards \subseteq guards' /\ Lasting \subseteq Lasting' /\ guards' \subseteq Tokens
  BY <1>3, <1>4 DEF Lasting, IInv, Types
<1>6. TaskInvOf(a)'
  <2>1. CopyInv(t)'
    BY <1>1, <1>2, <1>3, <1>4, <1>5, SMT DEF TaskInvOf, CopyInv, Carried, Onward, HolderStages
  <2>2. RenewalInv(t)'
    BY <1>1, <1>2, <1>3, <1>4, <1>5 DEF TaskInvOf, RenewalInv, Carried, Onward
  <2>3. QED
    BY <1>4, <2>1, <2>2 DEF TaskInvOf
<1>7. \A n \in Names : \A i, r \in Tokens : Entry(n, i, r)' => Entry(n, i, r)
  BY <1>2, <1>4, EntryMoves DEF Onward
<1>8. Sound(doc)' /\ Sound(stable.doc)' /\ Sound(t.copy)'
  BY <1>2, <1>4, <1>5 DEF IInv, SoundInv, Sound, Onward
<1>9. \A b \in Agents : task[b].pc = "enter" => t.removed # task[b].token
  BY <1>2 DEF IInv, FreshInv, Onward
<1>10. QED
  BY <1>1, <1>2, <1>4, <1>5, <1>6, <1>7, <1>8, <1>9, HolderStep DEF Guard, IInv, Types, HolderStages

LEMMA FlushStep ==
    ASSUME IInv, NEW a \in Agents, Flush(a)
    PROVE  IInv'
<1>1. task[a].pc = "flush" /\ task[a] \in Tasks /\ lock = a /\ TaskInvOf(a)
  BY DEF Flush, IInv, Types, TaskInv, HolderStages
<1>2. PICK where \in {"exchange", "write"} : Goes(a, where) /\ (where = "exchange" => task[a].op = "renew")
  BY DEF Flush
<1>3. PICK t \in Tasks : task' = [task EXCEPT ![a] = t] /\ t.pc = where /\ Onward(t, task[a])
  BY <1>2, GoesFacts, SMT DEF IInv, HolderStages
<1>4. /\ UNCHANGED <<doc, guards, live, expired, issued>> /\ stable' = [doc |-> doc, guards |-> guards]
      /\ task'[a] = t /\ \A b \in Agents \ {a} : task'[b] = task[b]
  BY <1>3 DEF Flush, Flushed, provider, IInv, Types
<1>5. Lasting \subseteq Lasting' /\ guards = Lasting' /\ stable'.doc = doc
      /\ stable' \in [doc : Document, guards : SUBSET Tokens]
  BY <1>4 DEF Lasting, IInv, Types
<1>6. TaskInvOf(a)'
  <2>1. CopyInv(t)'
    BY <1>1, <1>2, <1>3, <1>4, <1>5, SMT DEF TaskInvOf, CopyInv, Carried, Onward, HolderStages
  <2>2. RenewalInv(t)'
    BY <1>1, <1>2, <1>3, <1>4, <1>5 DEF TaskInvOf, RenewalInv, Carried, Onward
  <2>3. QED
    BY <1>4, <2>1, <2>2 DEF TaskInvOf
<1>7. \A n \in Names : \A i, r \in Tokens : Entry(n, i, r)' => Entry(n, i, r)
  BY <1>3, <1>4, <1>5, EntryMoves DEF Onward
<1>8. Sound(doc)' /\ Sound(stable.doc)' /\ Sound(t.copy)'
  BY <1>3, <1>4, <1>5 DEF IInv, SoundInv, Sound, Onward
<1>9. \A b \in Agents : task[b].pc = "enter" => t.removed # task[b].token
  BY <1>3 DEF IInv, FreshInv, Onward
<1>10. QED
  BY <1>1, <1>2, <1>3, <1>4, <1>5, <1>6, <1>7, <1>8, <1>9, HolderStep DEF Flush, IInv, Types, HolderStages

LEMMA WriteStep ==
    ASSUME IInv, NEW a \in Agents, Write(a)
    PROVE  IInv'
<1>1. task[a].pc = "write" /\ task[a] \in Tasks /\ lock = a /\ TaskInvOf(a)
  BY DEF Write, IInv, Types, TaskInv, HolderStages
<1>2. PICK t \in Tasks : task' = [task EXCEPT ![a] = t] /\ t.pc = "sync" /\ Onward(t, task[a])
  BY GoesFacts DEF Write, IInv, HolderStages
<1>3. /\ UNCHANGED <<guards, stable, live, expired, issued>> /\ doc' = t.copy /\ t.copy \in Document
      /\ task'[a] = t /\ \A b \in Agents \ {a} : task'[b] = task[b]
  BY <1>2 DEF Write, provider, IInv, Types, Onward, Tasks
<1>4. TaskInvOf(a)'
  <2>1. CopyInv(t)'
    BY <1>1, <1>2, <1>3 DEF TaskInvOf, CopyInv, Onward, HolderStages
  <2>2. RenewalInv(t)'
    BY <1>1, <1>2, <1>3 DEF TaskInvOf, RenewalInv, Onward
  <2>3. QED
    BY <1>3, <2>1, <2>2 DEF TaskInvOf
<1>5. \A n \in Names : \A i, r \in Tokens : Entry(n, i, r)' => Entry(n, i, r)
  BY <1>2, <1>3, EntryMoves DEF Onward
<1>6. Sound(doc)' /\ Sound(stable.doc)' /\ Sound(t.copy)'
  BY <1>2, <1>3 DEF IInv, SoundInv, Sound, Lasting, Onward
<1>7. \A b \in Agents : task[b].pc = "enter" => t.removed # task[b].token
  BY <1>2 DEF IInv, FreshInv, Onward
<1>8. QED
  BY <1>1, <1>2, <1>3, <1>4, <1>5, <1>6, <1>7, HolderStep DEF Write, IInv, Types, HolderStages

LEMMA SyncStep ==
    ASSUME IInv, NEW a \in Agents, Sync(a)
    PROVE  IInv'
<1>1. task[a].pc = "sync" /\ task[a] \in Tasks /\ lock = a /\ TaskInvOf(a)
  BY DEF Sync, IInv, Types, TaskInv, HolderStages
<1>2. PICK t \in Tasks : task' = [task EXCEPT ![a] = t] /\ t.pc = "finish" /\ Onward(t, task[a])
  BY GoesFacts DEF Sync, IInv, HolderStages
<1>3. /\ UNCHANGED <<doc, guards, live, expired, issued>> /\ stable' = [doc |-> doc, guards |-> guards]
      /\ task'[a] = t /\ \A b \in Agents \ {a} : task'[b] = task[b]
  BY <1>2 DEF Sync, provider, IInv, Types
<1>4. Lasting \subseteq Lasting' /\ stable'.doc = doc
      /\ stable' \in [doc : Document, guards : SUBSET Tokens]
  BY <1>3 DEF Lasting, IInv, Types
<1>5. TaskInvOf(a)'
  <2>1. CopyInv(t)'
    BY <1>1, <1>2, <1>3, <1>4 DEF TaskInvOf, CopyInv, Onward, HolderStages
  <2>2. RenewalInv(t)'
    BY <1>1, <1>2, <1>3, <1>4 DEF TaskInvOf, RenewalInv, Onward
  <2>3. QED
    BY <1>3, <2>1, <2>2 DEF TaskInvOf
<1>6. \A n \in Names : \A i, r \in Tokens : Entry(n, i, r)' => Entry(n, i, r)
  BY <1>2, <1>3, <1>4, EntryMoves DEF Onward
<1>7. Sound(doc)' /\ Sound(stable.doc)' /\ Sound(t.copy)'
  BY <1>2, <1>3, <1>4 DEF IInv, SoundInv, Sound, Onward
<1>8. \A b \in Agents : task[b].pc = "enter" => t.removed # task[b].token
  BY <1>2 DEF IInv, FreshInv, Onward
<1>9. QED
  BY <1>1, <1>2, <1>3, <1>4, <1>5, <1>6, <1>7, <1>8, HolderStep DEF Sync, IInv, Types, HolderStages

\* A guard is removed when the profile that it guarded is durable with a token
\* that the provider accepts.
LEMMA FinishGuardStep ==
    ASSUME IInv, NEW a \in Agents, NEW removed \in BOOLEAN, NEW synced \in BOOLEAN,
           FinishGuard(a, removed, synced)
    PROVE  IInv'
<1>1. /\ task[a].pc = "finish" /\ task[a] \in Tasks /\ lock = a /\ TaskInvOf(a)
      /\ task[a].finish \in Seq(Tokens) /\ task[a].finish # <<>>
  BY DEF FinishGuard, IInv, Types, TaskInv, HolderStages, Tasks
<1>2. PICK h \in Tokens : h = Head(task[a].finish)
  BY <1>1, SMT
<1>3. PICK t \in Tasks :
        /\ task' = [task EXCEPT ![a] = t] /\ t.pc = "finish" /\ t.finish = Tail(task[a].finish)
        /\ t.copy = task[a].copy /\ t.name = task[a].name /\ t.op = task[a].op /\ t.removed = task[a].removed
  <2> DEFINE u == [task[a] EXCEPT !.finish = Tail(task[a].finish)]
  <2>1. task' = [task EXCEPT ![a] = u]
    BY DEF FinishGuard
  <2>2. Tail(task[a].finish) \in Seq(Tokens)
    BY <1>1, SMT
  <2>3. u \in Tasks
    BY <1>1, <2>2 DEF Tasks
  <2>4. QED
    BY <1>1, <2>1, <2>3 DEF Tasks
<1>4. \A k \in 1..Len(t.finish) : k + 1 \in 1..Len(task[a].finish) /\ t.finish[k] = task[a].finish[k + 1]
  BY <1>1, <1>3, SMT
<1>5. /\ UNCHANGED <<doc, live, expired, issued>> /\ task'[a] = t
      /\ \A b \in Agents \ {a} : task'[b] = task[b]
      /\ guards' \subseteq guards /\ guards \ {h} \subseteq guards'
  BY <1>2, <1>3 DEF FinishGuard, provider, IInv, Types
<1>6. stable' \in [doc : Document, guards : SUBSET Tokens] /\ stable'.doc = stable.doc
      /\ (stable'.guards = stable.guards \/ stable'.guards = guards')
  BY <1>1, <1>5 DEF FinishGuard, IInv, Types, TaskInvOf, CopyInv, RenewalInv
<1>7. Lasting \ {h} \subseteq Lasting'
  BY <1>5, <1>6 DEF Lasting
<1>8. doc = t.copy /\ stable.doc = t.copy
  BY <1>1, <1>3 DEF TaskInvOf, CopyInv, RenewalInv
<1>9. Sound(t.copy)'
  <2>1. \A n \in Names : t.copy[n].incarnation = h => t.copy[n].refresh \in live
    <3>1. 1 \in 1..Len(task[a].finish) /\ task[a].finish[1] = h
      BY <1>1, <1>2, SMT
    <3>2. QED
      BY <1>1, <1>3, <3>1 DEF TaskInvOf, CopyInv, RenewalInv
  <2>2. QED
    BY <1>3, <1>5, <1>7, <2>1 DEF IInv, SoundInv, Sound
<1>10. Sound(doc)' /\ Sound(stable.doc)'
  BY <1>5, <1>6, <1>8, <1>9 DEF Sound
<1>11. TaskInvOf(a)'
  <2>1. \A n \in Names, k \in 1..Len(t.finish) :
          t.copy[n].incarnation = t.finish[k] => t.copy[n].refresh \in live
    BY <1>1, <1>3, <1>4 DEF TaskInvOf, CopyInv, RenewalInv
  <2>2. /\ t.name \in Names
        /\ t.removed # 0 => t.removed \in 1..issued /\ \A n \in Names : t.copy[n].incarnation # t.removed
    BY <1>1, <1>3 DEF TaskInvOf, CopyInv, RenewalInv
  <2>3. (\A n \in Names, k \in 1..Len(task[a].finish) :
          task[a].copy[n].incarnation = task[a].finish[k] => task[a].copy[n].refresh \in live)'
    BY <1>5, <2>1
  <2>4. (/\ doc = task[a].copy /\ stable.doc = doc)'
    BY <1>5, <1>6, <1>8
  <2>5. QED
    BY <1>3, <1>5, <2>2, <2>3, <2>4 DEF TaskInvOf, CopyInv, RenewalInv, HolderStages
<1>12. \A n \in Names : \A i, r \in Tokens : Entry(n, i, r)' => Entry(n, i, r)
  BY <1>3, <1>5, <1>6, SMT DEF Entry, Holds
<1>13. \A b \in Agents : task[b].pc = "enter" => t.removed # task[b].token
  BY <1>3 DEF IInv, FreshInv
<1>14. guards' \subseteq Tokens /\ doc' \in Document /\ lock' = a
  BY <1>1, <1>5 DEF FinishGuard, IInv, Types
<1>15. QED
  BY <1>1, <1>3, <1>6, <1>9, <1>10, <1>11, <1>12, <1>13, <1>14, HolderStep DEF FinishGuard, HolderStages

LEMMA LogoutStep ==
    ASSUME IInv, NEW a \in Agents, NEW m \in Names, Logout(a, m)
    PROVE  IInv'
<1>1. /\ task[a].pc = "idle" /\ lock = None /\ lock' = a /\ doc \in Document /\ Present(doc, m)
      /\ UNCHANGED <<files, provider, expired, gone, crashes, losses>>
  BY DEF Logout, Acquire, IInv, Types
<1>2. PICK j \in Tokens : j = doc[m].incarnation /\ j # 0
  BY <1>1, ProfileFacts
<1>3. PICK c \in Document : c = [Read EXCEPT ![m] = NoProfile]
  BY <1>1, ReadFacts DEF Document, Profile
<1>4. PICK t \in Tasks :
        /\ task' = [task EXCEPT ![a] = t] /\ t.pc = "write" /\ t.op = "logout" /\ t.name = m
        /\ t.copy = c /\ t.removed = j /\ t.finish = <<j>>
  <2> DEFINE u == [Idle EXCEPT !.pc = "write", !.op = "logout", !.name = m, !.copy = c,
                               !.removed = j, !.finish = <<j>>]
  <2>1. task' = [task EXCEPT ![a] = u]
    BY <1>2, <1>3 DEF Logout, Becomes
  <2>2. Idle \in Tasks /\ j \in 0..MaxTokens /\ <<j>> \in Seq(Tokens)
    BY <1>2, IdleFacts, SMT DEF Tokens
  <2>3. u \in Tasks
    BY <1>3, <2>2 DEF Tasks, HolderStages
  <2>4. u.pc = "write" /\ u.op = "logout" /\ u.name = m /\ u.copy = c /\ u.removed = j /\ u.finish = <<j>>
    BY DEF Idle
  <2>5. QED
    BY <2>1, <2>3, <2>4
<1>5. UNCHANGED <<doc, guards, stable, live, expired, issued>> /\ task'[a] = t
      /\ \A b \in Agents \ {a} : task'[b] = task[b]
  BY <1>1, <1>4 DEF files, provider, IInv, Types
<1>6. /\ c[m].incarnation = 0
      /\ \A n \in Names \ {m} :
        /\ c[n].incarnation = doc[n].incarnation /\ c[n].refresh = doc[n].refresh
        /\ c[n].reauth <=> doc[n].reauth \/ (doc[n].incarnation # 0 /\ doc[n].incarnation \in guards)
  BY <1>1, <1>3, ReadFacts DEF NoProfile, Document
<1>7. \A n \in Names : c[n].incarnation # j
  <2>1. ASSUME NEW n \in Names \ {m}, doc[n].incarnation = j PROVE FALSE
    <3>1. PICK r \in Tokens : doc[n].refresh = r
      BY <1>1, <1>2, <2>1, ProfileFacts
    <3>2. PICK s \in Tokens : doc[m].refresh = s
      BY <1>1, <1>2, ProfileFacts
    <3>3. Entry(n, j, r) /\ Entry(m, j, s)
      BY <1>2, <2>1, <3>1, <3>2 DEF Entry, Holds
    <3>4. QED
      BY <3>3 DEF IInv, EntryInv
  <2>2. QED
    BY <1>2, <1>6, <2>1
<1>8. PICK s \in Tokens : Entry(m, j, s)
  BY <1>1, <1>2, ProfileFacts DEF Entry, Holds
<1>9. j \in 1..issued
  BY <1>8 DEF IInv, EntryInv
<1>10. TaskInvOf(a)'
  BY <1>4, <1>5, <1>6, <1>7, <1>9, SMTT(30) DEF TaskInvOf, CopyInv, RenewalInv, Carried, HolderStages
<1>11. \A n \in Names : \A i, r \in Tokens : Entry(n, i, r)' => Entry(n, i, r)
  BY <1>4, <1>5, <1>6, SMTT(30) DEF Entry, Holds
<1>12. Sound(doc)' /\ Sound(stable.doc)' /\ Sound(t.copy)'
  BY <1>4, <1>5, <1>6, SMT DEF IInv, SoundInv, Sound, Lasting
<1>13. \A b \in Agents : task[b].pc = "enter" => t.removed # task[b].token
  BY <1>4, <1>8 DEF IInv, FreshInv
<1>14. QED
  BY <1>1, <1>4, <1>5, <1>10, <1>11, <1>12, <1>13, HolderStep DEF IInv, Types, HolderStages

LEMMA RotateStep ==
    ASSUME IInv, NEW a \in Agents, Rotate(a)
    PROVE  IInv'
<1>1. /\ task[a].pc = "answer" /\ task[a] \in Tasks /\ lock = a /\ TaskInvOf(a)
      /\ UNCHANGED <<files, lock, provider, expired, gone, crashes, losses>>
      /\ task[a].op = "renew" /\ task[a].source # 0 /\ task[a].token # 0
  BY DEF Rotate, IInv, Types, TaskInv, TaskInvOf, CopyInv, RenewalInv, HolderStages
<1>2. PICK m \in Names : m = task[a].name
  BY <1>1 DEF TaskInvOf, CopyInv, RenewalInv
<1>3. PICK j \in Tokens : j = task[a].source
  BY <1>1, AuthAssumption, SMT DEF Tasks, Tokens
<1>4. PICK s \in Tokens : s = task[a].token
  BY <1>1, AuthAssumption, SMT DEF Tasks, Tokens
<1>5. PICK p \in Profile : p = [incarnation |-> j, refresh |-> s, reauth |-> FALSE]
  BY DEF Profile
<1>6. PICK c \in Document : c = [task[a].copy EXCEPT ![m] = p]
  BY <1>1 DEF Document, Tasks
<1>7. PICK t \in Tasks :
        /\ task' = [task EXCEPT ![a] = t] /\ t.pc = "write" /\ t.op = "renew" /\ t.name = m
        /\ t.copy = c /\ t.removed = task[a].removed /\ t.finish = <<j>>
  <2> DEFINE u == [task[a] EXCEPT !.pc = "write", !.finish = <<j>>, !.copy = c]
  <2>1. task' = [task EXCEPT ![a] = u]
    BY <1>2, <1>3, <1>4, <1>5, <1>6 DEF Rotate, Becomes
  <2>2. u \in Tasks
    <3>1. <<j>> \in Seq(Tokens)
      BY SMT
    <3>2. QED
      BY <1>1, <1>6, <3>1 DEF Tasks, HolderStages
  <2>3. u.pc = "write" /\ u.op = "renew" /\ u.name = m /\ u.copy = c /\ u.removed = task[a].removed /\ u.finish = <<j>>
    BY <1>1, <1>2 DEF Tasks
  <2>4. QED
    BY <2>1, <2>2, <2>3
<1>8. UNCHANGED <<doc, guards, stable, live, expired, issued>> /\ task'[a] = t
      /\ \A b \in Agents \ {a} : task'[b] = task[b]
  BY <1>1, <1>7 DEF files, provider, IInv, Types
<1>9. /\ c[m].incarnation = j /\ c[m].refresh = s /\ ~c[m].reauth
      /\ \A n \in Names \ {m} : c[n] = task[a].copy[n]
  BY <1>1, <1>5, <1>6 DEF Document, Tasks
<1>10. s \in live /\ \A n \in Names : \A i, r \in Tokens : Entry(n, i, r) => r # s
  BY <1>1, <1>4 DEF IInv, FreshInv
<1>11. PICK r0 \in Tokens : Entry(m, j, r0)
  <2>1. task[a].copy \in Document /\ task[a].copy[m].incarnation = j /\ j # 0
    BY <1>1, <1>2, <1>3 DEF Tasks, TaskInvOf, CopyInv, RenewalInv
  <2>2. PICK r0 \in Tokens : task[a].copy[m].refresh = r0
    BY <2>1, ProfileFacts
  <2>3. QED
    BY <2>1, <2>2 DEF Entry, Holds
<1>12. \A n \in Names \ {m} : c[n].incarnation # j
  <2>1. ASSUME NEW n \in Names \ {m}, task[a].copy[n].incarnation = j PROVE FALSE
    <3>1. task[a].copy \in Document /\ j # 0
      BY <1>1, <1>3 DEF Tasks
    <3>2. PICK r \in Tokens : task[a].copy[n].refresh = r
      BY <2>1, <3>1, ProfileFacts
    <3>3. Entry(n, j, r)
      BY <2>1, <3>1, <3>2 DEF Entry, Holds
    <3>4. QED
      BY <1>11, <3>3 DEF IInv, EntryInv
  <2>2. QED
    BY <1>9, <2>1
<1>13. j \in 1..issued /\ s \in 1..issued /\ j \notin gone
  BY <1>10, <1>11 DEF IInv, EntryInv, Types
<1>14. TaskInvOf(a)'
  <2>1. \A n \in Names : c[n].incarnation = j => c[n].refresh \in live
    BY <1>9, <1>10, <1>12
  <2>2. \A n \in Names, k \in 1..Len(t.finish) : t.copy[n].incarnation = t.finish[k] => t.copy[n].refresh \in live
    BY <1>7, <2>1, SMT
  <2>3. t.removed # 0 => t.removed \in 1..issued /\ \A n \in Names : c[n].incarnation # t.removed
    BY <1>1, <1>2, <1>3, <1>7, <1>9 DEF TaskInvOf, CopyInv, RenewalInv
  <2>4. \A n \in Names \ {m} : Carried(c, n)
    BY <1>1, <1>2, <1>9 DEF TaskInvOf, CopyInv, RenewalInv, Carried
  <2>5. QED
    BY <1>7, <1>8, <2>2, <2>3, <2>4, SMT DEF TaskInvOf, CopyInv, RenewalInv, HolderStages, Carried
<1>15. \A n \in Names : \A i, r \in Tokens : Entry(n, i, r)' => Entry(n, i, r) \/ (n = m /\ i = j /\ r = s)
  BY <1>7, <1>8, <1>9, SMT DEF Entry, Holds
<1>16. Sound(t.copy)'
  BY <1>7, <1>8, <1>9, <1>10 DEF IInv, SoundInv, Sound, Lasting
<1>17. \A b \in Agents \ {a} : task[b].pc = "enter" =>
         t.removed # task[b].token /\ j # task[b].token /\ s # task[b].token
  BY <1>1, <1>4, <1>7, <1>11 DEF IInv, FreshInv
<1>18. \A n \in Names : \A i, r \in Tokens : Entry(n, i, r) => r # s /\ (i = j => n = m)
  BY <1>10, <1>11 DEF IInv, EntryInv
<1>19. t.pc \in HolderStages \ {"answer"} /\ lock \in {None, a} /\ lock' = a
  BY <1>1, <1>7 DEF HolderStages
<1>20. QED
  <2>1. Brings(m, j, s)
    BY <1>13, <1>15, <1>18 DEF Brings
  <2>2. Strange(a, t, j, s)
    BY <1>17 DEF Strange
  <2>3. QED
    BY <1>1, <1>7, <1>14, <1>16, <1>19, <2>1, <2>2, NewProfileStep

LEMMA EnterLoginStep ==
    ASSUME IInv, NEW a \in Agents, EnterLogin(a)
    PROVE  IInv'
<1>1. /\ task[a].pc = "enter" /\ task[a] \in Tasks /\ lock = None /\ lock' = a /\ TaskInvOf(a)
      /\ task[a].op = "login" /\ doc \in Document
      /\ UNCHANGED <<files, provider, expired, gone, crashes, losses>>
  BY DEF EnterLogin, Acquire, IInv, Types, TaskInv, TaskInvOf, CopyInv, RenewalInv
<1>2. PICK m \in Names : m = task[a].name
  BY <1>1 DEF TaskInvOf, CopyInv, RenewalInv
<1>3. PICK s \in Tokens : s = task[a].token /\ s \in live /\ s \notin gone
  <2>1. task[a].token \in live /\ task[a].token \notin gone
    BY <1>1 DEF IInv, FreshInv
  <2>2. live \subseteq Tokens
    BY AuthAssumption, SMT DEF IInv, Types, Tokens
  <2>3. QED
    BY <2>1, <2>2
<1>4. PICK o \in 0..MaxTokens : o = doc[m].incarnation
  BY <1>1, ProfileFacts
<1>5. PICK p \in Profile : p = [incarnation |-> s, refresh |-> s, reauth |-> FALSE]
  BY DEF Profile
<1>6. PICK c \in Document : c = [Read EXCEPT ![m] = p]
  BY <1>1, ReadFacts DEF Document
<1>7. PICK f \in Seq(Tokens) : /\ f = IF Present(doc, m) THEN <<s, o>> ELSE <<s>>
                               /\ \A k \in 1..Len(f) : f[k] = s \/ (f[k] = o /\ o # 0)
  <2>1. CASE Present(doc, m)
    <3>1. o \in Tokens /\ o # 0
      BY <1>1, <1>4, <2>1, ProfileFacts
    <3>2. <<s, o>> \in Seq(Tokens) /\ \A k \in 1..Len(<<s, o>>) : <<s, o>>[k] = s \/ <<s, o>>[k] = o
      BY <3>1, SMT
    <3>3. QED
      BY <2>1, <3>1, <3>2
  <2>2. CASE ~Present(doc, m)
    <3>1. <<s>> \in Seq(Tokens) /\ \A k \in 1..Len(<<s>>) : <<s>>[k] = s
      BY SMT
    <3>2. QED
      BY <2>2, <3>1
  <2>3. QED
    BY <2>1, <2>2
<1>8. PICK t \in Tasks :
        /\ task' = [task EXCEPT ![a] = t] /\ t.pc = "guard" /\ t.op = "login" /\ t.name = m
        /\ t.token = s /\ t.copy = c /\ t.removed = o /\ t.finish = f
  <2> DEFINE u == [task[a] EXCEPT !.pc = "guard", !.copy = c, !.removed = o, !.finish = f]
  <2>1. task' = [task EXCEPT ![a] = u]
    BY <1>2, <1>3, <1>4, <1>5, <1>6, <1>7 DEF EnterLogin, Becomes
  <2>2. u \in Tasks
    BY <1>1 DEF Tasks, HolderStages
  <2>3. /\ u.pc = "guard" /\ u.op = "login" /\ u.name = m
        /\ u.token = s /\ u.copy = c /\ u.removed = o /\ u.finish = f
    BY <1>1, <1>2, <1>3 DEF Tasks
  <2>4. QED
    BY <2>1, <2>2, <2>3
<1>9. UNCHANGED <<doc, guards, stable, live, expired, issued>> /\ task'[a] = t
      /\ \A b \in Agents \ {a} : task'[b] = task[b]
  BY <1>1, <1>8 DEF files, provider, IInv, Types
<1>10. /\ c[m].incarnation = s /\ c[m].refresh = s
       /\ \A n \in Names \ {m} :
         /\ c[n].incarnation = doc[n].incarnation /\ c[n].refresh = doc[n].refresh
         /\ c[n].reauth <=> doc[n].reauth \/ (doc[n].incarnation # 0 /\ doc[n].incarnation \in guards)
  BY <1>1, <1>5, <1>6, ReadFacts DEF Document
<1>11. \A n \in Names : \A i, r \in Tokens : Entry(n, i, r) => i # s /\ r # s
  BY <1>1, <1>3 DEF IInv, FreshInv
<1>12. \A n \in Names : doc[n].incarnation # 0 => \E r \in Tokens : Entry(n, doc[n].incarnation, r)
  BY <1>1, ProfileFacts DEF Entry, Holds
<1>13. \A n \in Names : doc[n].incarnation # s
  BY <1>1, <1>3, <1>11, <1>12, ProfileFacts, SMT DEF Tokens
<1>14. \A n \in Names : o # 0 => c[n].incarnation # o /\ o \in 1..issued
  <2>1. SUFFICES ASSUME NEW n \in Names, o # 0 PROVE c[n].incarnation # o /\ o \in 1..issued
    BY SMT
  <2>2. PICK r \in Tokens : Entry(m, o, r)
    BY <1>4, <1>12, <2>1
  <2>3. o \in Tokens
    BY <2>1, AuthAssumption, SMT DEF Tokens
  <2>4. o \in 1..issued /\ o # s
    BY <1>11, <2>2, <2>3 DEF IInv, EntryInv
  <2>5. ASSUME n # m, doc[n].incarnation = o PROVE FALSE
    <3>1. PICK q \in Tokens : Entry(n, o, q)
      BY <1>12, <2>1, <2>5
    <3>2. QED
      BY <2>2, <2>3, <2>5, <3>1 DEF IInv, EntryInv
  <2>6. QED
    BY <1>10, <2>4, <2>5
<1>15. TaskInvOf(a)'
  <2>1. \A n \in Names, k \in 1..Len(f) : c[n].incarnation = f[k] => c[n].refresh \in live
    BY <1>3, <1>7, <1>10, <1>13, <1>14
  <2>2. (\A n \in Names, k \in 1..Len(task[a].finish) :
          task[a].copy[n].incarnation = task[a].finish[k] => task[a].copy[n].refresh \in live)'
    BY <1>8, <1>9, <2>1, SMT
  <2>3. t.removed # 0 => t.removed \in 1..issued /\ \A n \in Names : t.copy[n].incarnation # t.removed
    BY <1>8, <1>14
  <2>4. \A n \in Names \ {m} : Carried(c, n)
    BY <1>10 DEF Carried
  <2>5. (\A n \in Names \ {m} : Carried(c, n))'
    BY <1>9, <2>4 DEF Carried
  <2>6. s # 0
    BY SMT DEF Tokens
  <2>7. QED
    BY <1>8, <1>9, <1>13, <2>2, <2>3, <2>5, <2>6 DEF TaskInvOf, CopyInv, RenewalInv, HolderStages
<1>16. Brings(m, s, s)
  <2>1. \A n \in Names : \A i, r \in Tokens : Entry(n, i, r)' => Entry(n, i, r) \/ (n = m /\ i = s /\ r = s)
    BY <1>8, <1>9, <1>10, SMT DEF Entry, Holds
  <2>2. s \in 1..issued
    BY <1>3 DEF IInv, Types
  <2>3. QED
    BY <1>3, <1>11, <2>1, <2>2 DEF Brings
<1>17. Strange(a, t, s, s)
  <2>1. ASSUME NEW b \in Agents \ {a}, task[b].pc = "enter" PROVE o # task[b].token
    <3>1. CASE o = 0
      BY <2>1, <3>1, SMT DEF IInv, FreshInv, Types
    <3>2. CASE o # 0
      <4>1. o \in Tokens /\ \E r \in Tokens : Entry(m, o, r)
        BY <1>1, <1>4, <1>12, <3>2, ProfileFacts
      <4>2. QED
        BY <2>1, <4>1 DEF IInv, FreshInv
    <3>3. QED
      BY <3>1, <3>2
  <2>2. \A b \in Agents \ {a} : task[b].pc = "enter" => s # task[b].token
    BY <1>1, <1>3 DEF IInv, FreshInv
  <2>3. QED
    BY <1>8, <2>1, <2>2 DEF Strange
<1>18. Sound(t.copy)'
  BY <1>3, <1>8, <1>9, <1>10, SMT DEF IInv, SoundInv, Sound, Lasting
<1>19. t.pc \in HolderStages \ {"answer"} /\ lock \in {None, a}
  BY <1>1, <1>8 DEF HolderStages
<1>20. QED
  BY <1>1, <1>8, <1>15, <1>16, <1>17, <1>18, <1>19, NewProfileStep

\* The token is sent when its profile has a lasting guard; every profile that
\* holds it has the same guard.
LEMMA ExchangeStep ==
    ASSUME IInv, NEW a \in Agents, Exchange(a)
    PROVE  IInv'
<1>1. /\ task[a].pc = "exchange" /\ task[a] \in Tasks /\ lock = a /\ TaskInvOf(a)
      /\ task[a].op = "renew" /\ task[a].token \in live
      /\ issued \in 0..MaxTokens /\ live \subseteq 1..issued /\ issued < MaxTokens
  BY DEF Exchange, IInv, Types, TaskInv, TaskInvOf, CopyInv, RenewalInv, HolderStages
<1>2. PICK m \in Names : m = task[a].name
  BY <1>1 DEF TaskInvOf, CopyInv, RenewalInv
<1>3. PICK j \in Tokens : j = task[a].source /\ j \in Lasting
  BY <1>1 DEF TaskInvOf, CopyInv, RenewalInv, IInv, Types, Lasting
<1>4. PICK s \in Tokens : s = task[a].token
  <2>1. live \subseteq Tokens
    BY AuthAssumption, SMT DEF IInv, Types, Tokens
  <2>2. QED
    BY <1>1, <2>1
<1>5. PICK w \in Tokens : w = issued + 1
  BY <1>1, AuthAssumption, SMT DEF Tokens
<1>6. s \in live /\ w \notin 1..issued /\ w \in 1..w /\ 1..issued \subseteq 1..w /\ w # 0
  BY <1>1, <1>4, <1>5, SMT
<1>7. /\ UNCHANGED <<doc, guards, stable, lock, expired, gone, crashes, losses>>
      /\ issued' = w /\ live' = (live \ {s}) \cup {w}
      /\ submitted' = [submitted EXCEPT ![s] = submitted[s] + 1]
  BY <1>1, <1>4, <1>5, <1>6 DEF Exchange, files
<1>8. PICK t \in Tasks :
        /\ task' = [task EXCEPT ![a] = t] /\ t.pc = "answer" /\ t.op = "renew" /\ t.name = m
        /\ t.token = w /\ t.source = j /\ t.copy = task[a].copy /\ t.removed = task[a].removed
        /\ t.finish = task[a].finish
  <2> DEFINE u == [task[a] EXCEPT !.pc = "answer", !.token = w]
  <2>1. task' = [task EXCEPT ![a] = u]
    BY <1>1, <1>5 DEF Exchange, Becomes, Answered, Tasks
  <2>2. w \in 0..MaxTokens
    BY SMT DEF Tokens
  <2>3. u \in Tasks
    BY <1>1, <2>2 DEF Tasks, HolderStages
  <2>4. /\ u.pc = "answer" /\ u.op = "renew" /\ u.name = m
        /\ u.token = w /\ u.source = j /\ u.copy = task[a].copy /\ u.removed = task[a].removed
        /\ u.finish = task[a].finish
    BY <1>1, <1>2, <1>3 DEF Tasks
  <2>5. QED
    BY <2>1, <2>3, <2>4
<1>9. task' \in [Agents -> Tasks] /\ task'[a] = t /\ \A b \in Agents \ {a} : task'[b] = task[b]
  BY <1>8 DEF IInv, Types
<1>10. Types'
  <2>1. \A b \in Agents : lock' = b <=> task'[b].pc \in HolderStages
    BY <1>1, <1>7, <1>8, <1>9 DEF IInv, Types, HolderStages
  <2>2. live' \subseteq 1..issued' /\ expired' \subseteq 1..issued' /\ gone' \subseteq 1..issued'
    BY <1>1, <1>6, <1>7 DEF IInv, Types
  <2>3. submitted' \in [Tokens -> Nat] /\ issued' \in 0..MaxTokens
    BY <1>7, SMTT(30) DEF IInv, Types, Tokens
  <2>4. QED
    BY <1>7, <1>9, <2>1, <2>2, <2>3 DEF IInv, Types
<1>11. \A b \in Agents : task'[b].copy = task[b].copy /\ task'[b].removed = task[b].removed
  BY <1>8, <1>9
<1>12. \A n \in Names : \A i, r \in Tokens : Entry(n, i, r)' <=> Entry(n, i, r)
  BY <1>7, <1>11, SMT DEF Entry, Holds
<1>13. EntryInv'
  <2>1. issued <= issued' /\ issued' \in 0..MaxTokens
    BY <1>1, <1>5, <1>7, SMT DEF Tokens
  <2>2. QED
    BY <1>7, <1>12, <2>1, EntryFrame, SMTT(30) DEF IInv, EntryInv
<1>14. \A n \in Names : \A i \in Tokens : Entry(n, i, s) => i = j
  <2>1. Entry(m, j, s)
    BY <1>1, <1>2, <1>3, <1>4 DEF TaskInvOf, CopyInv, RenewalInv, Entry, Holds
  <2>2. QED
    BY <2>1 DEF IInv, EntryInv
<1>15. SoundInv'
  <2>1. ASSUME NEW d \in Document, Sound(d),
               \A n \in Names : \A i, r \in Tokens : Holds(d, n, i, r) => Entry(n, i, r)
        PROVE  Sound(d)'
    <3>1. SUFFICES ASSUME NEW n \in Names, d[n].incarnation # 0, ~d[n].reauth, d[n].incarnation \notin Lasting
                   PROVE  d[n].refresh \in live'
      BY <1>7 DEF Sound, Lasting
    <3>2. d[n].refresh \in live /\ d[n].incarnation \in Tokens
      BY <2>1, <3>1, ProfileFacts DEF Sound
    <3>3. d[n].refresh # s
      BY <1>3, <1>14, <2>1, <3>1, <3>2 DEF Holds
    <3>4. QED
      BY <1>7, <3>2, <3>3
  <2>2. Sound(doc)' /\ Sound(stable.doc)'
    <3>1. Sound(doc) /\ doc \in Document /\ Sound(stable.doc) /\ stable.doc \in Document
      BY DEF IInv, SoundInv, Types
    <3>2. \A n \in Names : \A i, r \in Tokens : Holds(doc, n, i, r) \/ Holds(stable.doc, n, i, r) => Entry(n, i, r)
      BY DEF Entry
    <3>3. PICK d \in Document : d = doc
      BY <3>1
    <3>4. PICK e \in Document : e = stable.doc
      BY <3>1
    <3>5. Sound(d)' /\ Sound(e)'
      BY <2>1, <3>1, <3>2, <3>3, <3>4
    <3>6. QED
      BY <1>7, <3>3, <3>4, <3>5 DEF Sound
  <2>3. ASSUME NEW b \in Agents PROVE Sound(task[b].copy)'
    <3>1. task[b].copy \in Document /\ Sound(task[b].copy)
      BY DEF IInv, SoundInv, Types, Tasks
    <3>2. PICK d \in Document : d = task[b].copy
      BY <3>1
    <3>3. \A n \in Names : \A i, r \in Tokens : Holds(d, n, i, r) => Entry(n, i, r)
      BY <3>2 DEF Entry
    <3>4. Sound(d)'
      BY <2>1, <3>1, <3>2, <3>3
    <3>5. QED
      BY <1>11, <3>2, <3>4 DEF Sound
  <2>4. QED
    BY <2>2, <2>3 DEF SoundInv
<1>16. ProviderInv'
  <2>1. submitted[s] = 0 /\ submitted[w] = 0 /\ s # w
    BY <1>1, <1>5, <1>6, SMT DEF IInv, ProviderInv, Tokens
  <2>2. submitted'[s] = 1 /\ \A u \in Tokens \ {s} : submitted'[u] = submitted[u]
    BY <1>7, <2>1, SMT DEF IInv, Types
  <2>3. \A u \in live' : submitted'[u] = 0
    BY <1>1, <1>7, <2>1, <2>2, AuthAssumption, SMT DEF IInv, ProviderInv, Tokens
  <2>4. \A u \in Tokens : u > issued' => u > issued /\ u # s
    BY <1>1, <1>5, <1>6, <1>7, SMTT(30) DEF Tokens
  <2>5. QED
    BY <2>2, <2>3, <2>4, SMTT(30) DEF IInv, ProviderInv
<1>17. FreshInv'
  <2>1. ASSUME NEW b \in Agents \ {a}, task[b].pc = "enter"
        PROVE  task[b].token \in live' /\ task[b].token # w
    <3>1. Entry(m, j, s)
      BY <1>1, <1>2, <1>3, <1>4 DEF TaskInvOf, CopyInv, RenewalInv, Entry, Holds
    <3>2. task[b].token \in live /\ task[b].token # s
      BY <2>1, <3>1 DEF IInv, FreshInv
    <3>3. QED
      BY <1>1, <1>6, <1>7, <3>2
  <2>2. \A b \in Agents \ {a} : task[b].pc # "answer"
    BY <1>1, OneHolder DEF HolderStages
  <2>3. w \in live' /\ \A n \in Names : \A i, r \in Tokens : Entry(n, i, r) => r # w
    BY <1>6, <1>7 DEF IInv, EntryInv
  <2>4. QED
    BY <1>7, <1>8, <1>9, <1>11, <1>12, <2>1, <2>2, <2>3, SMT DEF IInv, FreshInv
<1>18. TaskInv'
  <2>1. t.finish = <<>> /\ Len(t.finish) = 0
    BY <1>1, <1>8, SMT DEF TaskInvOf, CopyInv, RenewalInv
  <2>2. t.removed # 0 => t.removed \in 1..issued' /\ \A n \in Names : t.copy[n].incarnation # t.removed
    BY <1>1, <1>6, <1>7, <1>8 DEF TaskInvOf, CopyInv, RenewalInv
  <2>3. TaskInvOf(a)'
    <3>1. (\A n \in Names : Carried(t.copy, n))' /\ t.copy[m].incarnation = j /\ j # 0
      <4>1. \A n \in Names : Carried(task[a].copy, n)
        BY <1>1, <1>2 DEF TaskInvOf, CopyInv, RenewalInv
      <4>2. task[a].copy[m].incarnation = j /\ j # 0
        BY <1>1, <1>2, <1>3 DEF TaskInvOf, RenewalInv
      <4>3. QED
        BY <1>7, <1>8, <4>1, <4>2 DEF Carried
    <3>2. j \in Lasting'
      BY <1>3, <1>7 DEF Lasting
    <3>3. QED
      <4>1. \A n \in Names, k \in 1..Len(t.finish) : FALSE
        BY <2>1, SMT
      <4>2. CopyInv(t)'
        BY <1>8, <2>2, <3>1, <4>1 DEF CopyInv, HolderStages
      <4>3. RenewalInv(t)'
        BY <1>8, <2>1, <3>1, <3>2 DEF RenewalInv
      <4>4. QED
        BY <1>9, <4>2, <4>3 DEF TaskInvOf
  <2>4. \A b \in Agents \ {a} : TaskInvOf(b)'
    BY <1>1, <1>9, FreeTask, OneHolder DEF HolderStages
  <2>5. QED
    BY <2>3, <2>4 DEF TaskInv
<1>19. QED
  BY <1>10, <1>13, <1>15, <1>16, <1>17, <1>18 DEF IInv

LEMMA PowerLossStep ==
    ASSUME IInv, NEW d, NEW g, PowerLoss(d, g)
    PROVE  IInv'
<1>1. /\ UNCHANGED <<live, issued, submitted, expired, gone, crashes>>
      /\ task' = [a \in Agents |-> Idle] /\ lock' = None
      /\ d \in {doc, stable.doc} /\ doc' = d /\ guards' = g /\ stable' = [doc |-> d, guards |-> g]
      /\ d \in Document /\ g \subseteq Tokens /\ Lasting \subseteq g
  BY DEF PowerLoss, provider, IInv, Types, Lasting
<1>2. \A a \in Agents : task'[a] = Idle
  BY <1>1
<1>3. /\ Idle \in Tasks /\ Idle.pc = "idle" /\ Blank(Idle) /\ Idle.removed = 0 /\ Len(Idle.finish) = 0
      /\ \A n \in Names : Idle.copy[n].incarnation = 0
  <2>1. Idle \in Tasks /\ Idle.pc = "idle" /\ Blank(Idle)
    BY IdleFacts
  <2>2. Idle.removed = 0 /\ Idle.finish = <<>> /\ \A n \in Names : Idle.copy[n] = NoProfile
    BY <2>1 DEF Blank
  <2>3. NoProfile.incarnation = 0 /\ Len(<<>>) = 0
    BY SMT DEF NoProfile
  <2>4. QED
    BY <2>1, <2>2, <2>3
<1>4. Types'
  <2>1. losses' \in 0..MaxLosses
    BY AuthAssumption, SMT DEF PowerLoss, IInv, Types
  <2>2. \A a \in Agents : lock' = a <=> task'[a].pc \in HolderStages
    BY <1>1, <1>2, <1>3, AuthAssumption DEF HolderStages
  <2>3. task' \in [Agents -> Tasks]
    BY <1>1, <1>3
  <2>4. QED
    BY <1>1, <2>1, <2>2, <2>3 DEF IInv, Types
<1>5. \A n \in Names : \A i, r \in Tokens : Entry(n, i, r)' => Entry(n, i, r)
  BY <1>1, <1>2, <1>3 DEF Entry, Holds
<1>6. EntryInv'
  BY <1>1, <1>5, EntryFrame, SMT DEF IInv, EntryInv, Types
<1>7. SoundInv'
  <2>1. g = Lasting' /\ stable'.doc = d
    BY <1>1 DEF Lasting
  <2>2. Sound(doc)' /\ Sound(stable.doc)'
    BY <1>1, <2>1 DEF IInv, SoundInv, Sound
  <2>3. \A a \in Agents : Sound(task[a].copy)'
    BY <1>2, <1>3 DEF Sound
  <2>4. QED
    BY <2>2, <2>3 DEF SoundInv
<1>8. ProviderInv'
  BY <1>1 DEF IInv, ProviderInv
<1>9. FreshInv'
  BY <1>2, <1>3 DEF FreshInv
<1>10. TaskInv'
  BY <1>2, <1>3, SMT DEF TaskInv, TaskInvOf, CopyInv, RenewalInv, HolderStages, Blank
<1>11. QED
  BY <1>4, <1>6, <1>7, <1>8, <1>9, <1>10 DEF IInv

LEMMA NextStep ==
    ASSUME IInv, [Next]_vars
    PROVE  IInv'
<1>1. ASSUME NEW a \in Agents, Begin(a) PROVE IInv'
  BY <1>1, SelectStep, LogoutStep, LoginStep, PrepareStep, DeselectStep DEF Begin
<1>2. ASSUME NEW a \in Agents, Step(a) PROVE IInv'
  BY <1>2, EnterRenewalStep, RenewalNotDueStep, GuardStep, FlushStep, ExchangeStep, RotateStep,
     AuthorizeStep, EnterLoginStep, WriteStep, SyncStep, FinishGuardStep, AcknowledgeStep, FailStep DEF Step
<1>3. CASE UNCHANGED vars
  <2>1. UNCHANGED <<doc, guards, stable, lock, task, live, issued, submitted, expired, gone, crashes, losses>>
    BY <1>3 DEF vars, files, provider
  <2>2. \A n \in Names : \A i, r \in Tokens : Entry(n, i, r)' <=> Entry(n, i, r)
    BY <2>1, SMT DEF Entry, Holds
  <2>3. Types' /\ SoundInv' /\ ProviderInv'
    BY <2>1 DEF IInv, Types, SoundInv, Sound, Lasting, ProviderInv
  <2>4. EntryInv'
    BY <2>1, <2>2, EntryFrame, SMT DEF IInv, EntryInv, Types
  <2>5. FreshInv'
    BY <2>1, <2>2 DEF IInv, FreshInv
  <2>6. TaskInv'
    BY <2>1, TaskFrame DEF TaskInv
  <2>7. QED
    BY <2>3, <2>4, <2>5, <2>6 DEF IInv
<1>4. QED
  BY <1>1, <1>2, <1>3, CrashStep, ExpireStep, PowerLossStep DEF Next

\* The store's record of tokens, guards and profiles is consistent in every
\* reachable state, with any number of agents, crashes and power losses.
THEOREM Invariant == Spec => []IInv
<1>1. IInv /\ [Next]_vars => IInv'
  BY NextStep, SMT
<1>2. QED
  BY <1>1, InitIInv, PTL DEF Spec

THEOREM TypeCorrect == Spec => []TypeOK
<1>1. IInv => TypeOK
  BY AuthAssumption, SMTT(30) DEF IInv, Types, TypeOK, Tasks, HolderStages, Tokens
<1>2. QED
  BY <1>1, Invariant, PTL

-----------------------------------------------------------------------------

\* What the store offers as logged in.
Offers ==
    \A n \in Names :
      /\ Usable(n) <=> doc[n].incarnation # 0 /\ ~doc[n].reauth /\ doc[n].incarnation \notin guards
      /\ Read[n].refresh = doc[n].refresh

LEMMA UsableFacts == Types => Offers
<1>1. SUFFICES ASSUME Types, NEW n \in Names
               PROVE  /\ Usable(n) <=> doc[n].incarnation # 0 /\ ~doc[n].reauth /\ doc[n].incarnation \notin guards
                      /\ Read[n].refresh = doc[n].refresh
  BY DEF Offers
<1>2. doc \in Document /\ Read \in Document
  BY <1>1, ReadFacts DEF Types
<1>3. QED
  BY <1>2, ReadFacts, ProfileFacts, SMT DEF Usable

\* Whatever the store offers as logged in can be used: managed_auth.rs renews
\* only under a guard that is durable before the token is sent, and removes the
\* guard only when the new token is.
THEOREM LoggedInIsLive == Spec => []UsableIsLive
<1>1. IInv => UsableIsLive
  BY UsableFacts, SMTT(30) DEF Offers, IInv, UsableIsLive, SoundInv, Sound, Lasting
<1>2. QED
  BY <1>1, Invariant, PTL

\* No refresh token is sent twice, and a renewal that was not asked for is of a
\* token that has expired, however many agents wait for update.lock.
THEOREM SentOnce == Spec => []RefreshOnce
<1>1. IInv => RefreshOnce
  BY SMT DEF IInv, RefreshOnce, ProviderInv, TaskInv, TaskInvOf, CopyInv, RenewalInv, Types
<1>2. QED
  BY <1>1, Invariant, PTL

\* What a step may do to the profile of a name that was logged in.
LEMMA KeepsStep ==
    ASSUME IInv, IInv', [Next]_vars, NEW n \in Names, Usable(n), ~Usable(n)'
    PROVE  \/ losses' # losses
           \/ \E a \in Agents :
                 \/ task[a].pc = "write" /\ lock = a
                 \/ task[a].pc = "guard" /\ task[a].op = "renew" /\ task[a].name = n
<1>1. doc[n].incarnation # 0 /\ ~doc[n].reauth /\ doc[n].incarnation \notin guards
  BY UsableFacts DEF Offers, IInv
<1>2. ~(doc'[n].incarnation # 0 /\ ~doc'[n].reauth /\ doc'[n].incarnation \notin guards')
  <2>1. Types' => Offers'
    BY UsableFacts, PTL
  <2>2. QED
    BY <2>1 DEF IInv, Offers
<1>3. ~(doc' = doc /\ guards' \subseteq guards)
  BY <1>1, <1>2
<1>4. ASSUME NEW a \in Agents, Guard(a)
      PROVE  task[a].pc = "guard" /\ task[a].op = "renew" /\ task[a].name = n
  <2>1. task[a].pc = "guard" /\ doc[n].incarnation = Guarded(a) /\ TaskInvOf(a) /\ doc \in Document
    BY <1>1, <1>2, <1>4 DEF Guard, IInv, TaskInv, Types
  <2>2. task[a].op = "renew" /\ doc[n].incarnation = task[a].source
    BY <2>1 DEF Guarded, TaskInvOf, CopyInv, RenewalInv
  <2>3. PICK m \in Names : m = task[a].name /\ doc[m].incarnation = doc[n].incarnation
    BY <2>1, <2>2 DEF TaskInvOf, CopyInv, RenewalInv
  <2>4. PICK i, r, s \in Tokens : Entry(n, i, r) /\ Entry(m, i, s)
    BY <1>1, <2>1, <2>3, ProfileFacts DEF Entry, Holds
  <2>5. n = m
    BY <2>4 DEF IInv, EntryInv
  <2>6. QED
    BY <2>1, <2>2, <2>3, <2>5
<1>5. ASSUME NEW a \in Agents, Write(a) PROVE task[a].pc = "write" /\ lock = a
  BY <1>5 DEF Write, IInv, Types, HolderStages
<1>6. ASSUME NEW d, NEW g, PowerLoss(d, g) PROVE losses' # losses
  BY <1>6, SMT DEF PowerLoss, IInv, Types
<1>7. ASSUME NEW a \in Agents, Begin(a) PROVE FALSE
  BY <1>3, <1>7 DEF Begin, Select, Logout, Login, Prepare, Deselect, files
<1>8. ASSUME NEW a \in Agents, Step(a) PROVE Guard(a) \/ Write(a)
  BY <1>3, <1>8 DEF Step, EnterRenewal, RenewalNotDue, Flush, Exchange, Rotate, Authorize, EnterLogin,
     Sync, FinishGuard, Acknowledge, Fail, files
<1>9. ASSUME NEW a \in Agents, Crash(a) PROVE FALSE
  BY <1>3, <1>9 DEF Crash, files
<1>10. ASSUME NEW t \in Tokens, Expire(t) PROVE FALSE
  BY <1>3, <1>10 DEF Expire, files
<1>11. CASE UNCHANGED vars
  BY <1>3, <1>11 DEF vars, files
<1>12. QED
  BY <1>4, <1>5, <1>6, <1>7, <1>8, <1>9, <1>10, <1>11 DEF Next

\* An acknowledged logout or replacement is never undone, and a profile stops
\* being usable only by the operation on it (or a power loss).
THEOREM ProfilesKept == Spec => ProfilesAreKept
<1>1. IInv => RemovedStaysRemoved
  <2>1. SUFFICES ASSUME IInv, NEW n \in Names, Present(doc, n) PROVE doc[n].incarnation \notin gone
    BY DEF RemovedStaysRemoved
  <2>2. PICK i, r \in Tokens : doc[n].incarnation = i /\ Entry(n, i, r)
    BY <2>1, ProfileFacts DEF IInv, Types, Entry, Holds
  <2>3. QED
    BY <2>1, <2>2 DEF IInv, EntryInv
<1> DEFINE Kept == \A n \in Names : Usable(n) /\ ~Usable(n)' =>
            \/ losses' # losses
            \/ \E a \in Agents :
                  \/ task[a].pc = "write" /\ lock = a
                  \/ task[a].pc = "guard" /\ task[a].op = "renew" /\ task[a].name = n
<1>2. IInv /\ IInv' /\ [Next]_vars => Kept
  BY KeepsStep, SMT
<1>3. IInv' => RemovedStaysRemoved'
  BY <1>1, PTL
<1>4. IInv /\ IInv' /\ [Next]_vars => [RemovedStaysRemoved' /\ Kept]_vars
  BY <1>2, <1>3, SMT
<1>5. QED
  BY <1>4, Invariant, PTL DEF Spec, ProfilesAreKept

-----------------------------------------------------------------------------
(***************************************************************************)
(* Logins through the browser, for any number of logins and of requests    *)
(* that reach the port.                                                    *)
(***************************************************************************)

CONSTANTS Logins, MaxCallbacks
VARIABLES login, port, queue, callbacks, tabs, store, pages

Browser == INSTANCE BrowserLogin

LoginPcs == {"new", "bind", "launch", "accept", "receive", "exchange", "store", "write", "finish",
             "reread", "tell", "return", "ended"}
LoginResults == {"none", "exists", "port", "launcher", "failed", "denied", "expired", "crashed",
                 "ok", "ineligible"}

\* A page brings the code of its own login, or none.
Callbacks ==
    {r \in [state : Logins \cup {0}, code : Logins \cup {0}, error : BOOLEAN,
            description : BOOLEAN, issuer : BOOLEAN, plain : BOOLEAN] : r.code \in {0, r.state}}
LoginState == [pc : LoginPcs, replace : BOOLEAN, late : BOOLEAN, request : Callbacks,
               sent : {<<>>} \cup {<<l>> : l \in Logins}, result : LoginResults]
ProfileStore == [profile : Logins \cup {0}, reauth : BOOLEAN, lock : Logins \cup {0},
                 log : Seq(Logins)]

Kept(s, l) == \E i \in DOMAIN s.log : s.log[i] = l

\* What a login has done fits with how far it is and with the store s: it holds the
\* lock from login_before until the store is read again, and what it found under the
\* lock is still so; the profile can be used only once the guard is removed.
LoginFits(l, r, s, told) ==
    /\ r.sent \in {<<>>, <<l>>}
    /\ r.pc \in {"new", "bind", "launch", "accept", "receive", "exchange"} => r.sent = <<>>
    /\ r.pc = "exchange" => r.request.code = l
    /\ r.result # "none" => r.pc \in {"tell", "return", "ended"}
    /\ r.result = "denied" => r.sent = <<>>
    /\ r.pc \in {"write", "finish", "reread"} => s.lock = l
    /\ r.pc = "write" => s.log = <<>> \/ r.replace
    /\ r.pc \in {"finish", "reread"} => s.profile = l /\ Kept(s, l)
    /\ r.pc \in {"tell", "return"} => r.result \in {"ok", "ineligible"}
    /\ r.result \in {"ok", "ineligible"} \/ told => Kept(s, l)
    /\ r.result = "ok" /\ s.profile = l => ~s.reauth
    /\ s.profile = l /\ ~s.reauth => r.pc = "reread" \/ r.result \in {"ok", "ineligible", "crashed"}

LoginInv ==
    /\ login \in [Logins -> LoginState] /\ store \in ProfileStore
    /\ queue \in Seq(Callbacks) /\ tabs \subseteq Logins
    /\ \A l \in Logins : LoginFits(l, login[l], store, l \in pages)
    /\ store.profile = 0 => store.log = <<>>
    /\ \A i \in DOMAIN store.log : i > 1 => login[store.log[i]].replace

LEMMA LoginInvIsTrue == LoginInv => Browser!LoginIsTrue
<1>1. SUFFICES ASSUME LoginInv PROVE Browser!LoginIsTrue
  OBVIOUS
<1>2. ASSUME NEW l \in Logins, login[l].result \in Browser!Errors
      PROVE  ~(store.profile = l /\ ~store.reauth)
  <2>1. LoginFits(l, login[l], store, l \in pages)
    BY <1>1 DEF LoginInv
  <2>2. login[l].result \notin {"ok", "ineligible", "crashed", "none"}
    BY <1>2 DEF Browser!Errors
  <2> QED
    BY <2>1, <2>2 DEF LoginFits
<1> QED
  BY <1>1, <1>2 DEF LoginInv, LoginFits, Kept, Browser!LoginIsTrue

\* A step of one login: what the others found in the store is still so.
LEMMA LoginMoves ==
    ASSUME LoginInv, NEW l \in Logins, NEW r \in LoginState, NEW s \in ProfileStore,
           login' = [login EXCEPT ![l] = r], store' = s,
           queue' \in Seq(Callbacks), tabs' \subseteq Logins,
           \A k \in Logins : k # l =>
              /\ k \in pages' => k \in pages
              /\ store.lock = k => s = store
              /\ Kept(store, k) => Kept(s, k)
              /\ s.profile = k => store.profile = k /\ s.reauth = store.reauth,
           LoginFits(l, r, s, l \in pages'),
           s.profile = 0 => s.log = <<>>,
           login[l].replace /\ Kept(s, l) => r.replace,
           \A i \in DOMAIN s.log :
              \/ i \in DOMAIN store.log /\ s.log[i] = store.log[i]
              \/ s.log[i] = l /\ (i > 1 => r.replace)
    PROVE  LoginInv'
<1>1. /\ login \in [Logins -> LoginState] /\ store \in ProfileStore
      /\ \A i \in DOMAIN store.log : i > 1 => login[store.log[i]].replace
  BY DEF LoginInv
<1>2. /\ login' \in [Logins -> LoginState] /\ login'[l] = r
      /\ \A k \in Logins : k # l => login'[k] = login[k]
  BY <1>1
<1>3. ASSUME NEW k \in Logins, k # l PROVE LoginFits(k, login[k], s, k \in pages')
  <2>1. LoginFits(k, login[k], store, k \in pages)
    BY DEF LoginInv
  <2>2. login[k].pc \in {"write", "finish", "reread"} => s = store
    BY <1>3, <2>1 DEF LoginFits
  <2> QED
    BY <1>3, <2>1, <2>2 DEF LoginFits
<1>4. \A k \in Logins : LoginFits(k, login'[k], s, k \in pages')
  BY <1>2, <1>3
<1>5. ASSUME NEW i \in DOMAIN s.log, i > 1 PROVE login'[s.log[i]].replace
  <2>1. CASE s.log[i] = l /\ r.replace
    BY <1>2, <2>1
  <2>2. CASE i \in DOMAIN store.log /\ s.log[i] = store.log[i]
    <3>1. login[s.log[i]].replace
      BY <1>1, <1>5, <2>2
    <3>2. s.log[i] \in Logins
      BY SMT DEF ProfileStore
    <3>3. CASE s.log[i] = l
      BY <1>2, <3>1, <3>3 DEF Kept
    <3>4. CASE s.log[i] # l
      BY <1>2, <3>1, <3>2, <3>4
    <3> QED
      BY <3>3, <3>4
  <2> QED
    BY <1>5, <2>1, <2>2
<1> QED
  BY <1>2, <1>4, <1>5 DEF LoginInv

\* A step of one login that leaves the store alone.
LEMMA LoginKeepsStore ==
    ASSUME LoginInv, NEW l \in Logins, NEW r \in LoginState,
           login' = [login EXCEPT ![l] = r], store' = store, pages' = pages,
           queue' \in Seq(Callbacks), tabs' \subseteq Logins,
           LoginFits(l, r, store, l \in pages),
           login[l].replace /\ Kept(store, l) => r.replace
    PROVE  LoginInv'
<1>1. store \in ProfileStore /\ (store.profile = 0 => store.log = <<>>)
  BY DEF LoginInv
<1> QED
  BY <1>1, LoginMoves

\* A login that goes on, and one that ends.
LEMMA LoginPlaced ==
    ASSUME NEW r \in LoginState, NEW pc \in LoginPcs, NEW q, q = [r EXCEPT !.pc = pc]
    PROVE  /\ q \in LoginState /\ q.pc = pc /\ q.replace = r.replace /\ q.request = r.request
           /\ q.sent = r.sent /\ q.result = r.result
  BY SMT DEF LoginState

LoginGives(q, r, pc, result) ==
    /\ q \in LoginState /\ q.pc = pc /\ q.replace = r.replace
    /\ q.sent = r.sent /\ q.result = result

LEMMA LoginAnswered ==
    ASSUME NEW r \in LoginState, NEW pc \in LoginPcs, NEW result \in LoginResults
    PROVE  LoginGives([r EXCEPT !.pc = pc, !.result = result], r, pc, result)
<1>1. PICK p : p = [r EXCEPT !.pc = pc]
  OBVIOUS
<1>2. p \in LoginState /\ p.replace = r.replace /\ p.sent = r.sent /\ p.pc = pc
  BY <1>1, LoginPlaced, SMT
<1>3. PICK q : q = [r EXCEPT !.pc = pc, !.result = result]
  OBVIOUS
<1>4. q = [p EXCEPT !.result = result]
  BY <1>1, <1>3
<1>5. [p EXCEPT !.result = result] \in LoginState
  BY <1>2, SMT DEF LoginState
<1>6. q.pc = p.pc /\ q.replace = p.replace /\ q.sent = p.sent /\ q.result = result
  BY <1>2, <1>4, SMT DEF LoginState
<1>7. LoginGives(q, r, pc, result)
  BY <1>2, <1>4, <1>5, <1>6 DEF LoginGives
<1> QED
  BY <1>3, <1>7

LEMMA LoginEnded ==
    ASSUME NEW r \in LoginState, NEW result \in LoginResults
    PROVE  LoginGives([r EXCEPT !.pc = "ended", !.result = result], r, "ended", result)
<1>1. "ended" \in LoginPcs
  BY DEF LoginPcs
<1> QED
  BY <1>1, LoginAnswered

\* How two fields of a login are assigned.
LEMMA LoginAssigned ==
    ASSUME NEW l \in Logins, NEW f \in [Logins -> LoginState], NEW pc, NEW result
    PROVE  /\ [f EXCEPT ![l].pc = pc] = [f EXCEPT ![l] = [f[l] EXCEPT !.pc = pc]]
           /\ [f EXCEPT ![l].pc = pc, ![l].result = result]
                = [f EXCEPT ![l] = [f[l] EXCEPT !.pc = pc, !.result = result]]
<1>1. [f EXCEPT ![l].pc = pc] = [f EXCEPT ![l] = [f[l] EXCEPT !.pc = pc]]
  OBVIOUS
<1>2. PICK p : p = [f[l] EXCEPT !.pc = pc]
  OBVIOUS
<1>3. PICK g : g = [f EXCEPT ![l] = p]
  OBVIOUS
<1>4. g[l] = p /\ DOMAIN g = Logins /\ \A k \in Logins : k # l => g[k] = f[k]
  BY <1>3
<1>5. [f EXCEPT ![l].pc = pc, ![l].result = result] = [g EXCEPT ![l].result = result]
  BY <1>1, <1>2, <1>3
<1>6. [g EXCEPT ![l].result = result] = [f EXCEPT ![l] = [p EXCEPT !.result = result]]
  BY <1>3, <1>4
<1> QED
  BY <1>1, <1>2, <1>5, <1>6

LEMMA LoginDrops ==
    ASSUME LoginInv, NEW l \in Logins, Browser!Drops(l)
    PROVE  queue' \in Seq(Callbacks)
  BY SMT DEF LoginInv, Browser!Drops

\* Goes: nothing but the place of the login changes.
LEMMA GoesKeeps ==
    ASSUME LoginInv, NEW l \in Logins, NEW pc \in LoginPcs, Browser!Goes(l, pc),
           store' = store, pages' = pages, queue' \in Seq(Callbacks), tabs' \subseteq Logins,
           pc \notin {"write", "finish", "reread", "tell", "return", "ended"},
           pc = "store" \/ login[l].sent = <<>>,
           pc = "exchange" => login[l].request.code = l,
           login[l].pc \notin {"reread", "tell", "return", "ended"}
    PROVE  LoginInv'
<1>1. login \in [Logins -> LoginState] /\ LoginFits(l, login[l], store, l \in pages)
  BY DEF LoginInv
<1>2. PICK r : r = [login[l] EXCEPT !.pc = pc]
  OBVIOUS
<1>3. login' = [login EXCEPT ![l] = r]
  BY <1>1, <1>2, LoginAssigned DEF Browser!Goes
<1>4. /\ r \in LoginState /\ r.pc = pc /\ r.replace = login[l].replace
      /\ r.request = login[l].request /\ r.sent = login[l].sent /\ r.result = login[l].result
  BY <1>1, <1>2, LoginPlaced, SMT
<1>5. LoginFits(l, r, store, l \in pages)
  BY <1>1, <1>4 DEF LoginFits
<1> QED
  BY <1>3, <1>4, <1>5, LoginKeepsStore

\* Ends, where nothing is stored: the lock may be given back.
LEMMA EndsKeeps ==
    ASSUME LoginInv, NEW l \in Logins, NEW result \in LoginResults, NEW s \in ProfileStore,
           Browser!Ends(l, result, s), pages' = pages, tabs' \subseteq Logins,
           s.log = store.log, s.profile = store.profile, s.reauth = store.reauth,
           s = store \/ store.lock = l,
           \/ login[l].pc \notin {"reread", "tell", "return", "ended"} /\ result # "none"
           \/ result = "crashed",
           result \notin {"ok", "ineligible"},
           result = "denied" => login[l].sent = <<>>
    PROVE  LoginInv'
<1>1. /\ login \in [Logins -> LoginState] /\ LoginFits(l, login[l], store, l \in pages)
      /\ store.profile = 0 => store.log = <<>>
  BY DEF LoginInv
<1>2. PICK r : r = [login[l] EXCEPT !.pc = "ended", !.result = result]
  OBVIOUS
<1>3. login' = [login EXCEPT ![l] = r] /\ store' = s /\ queue' \in Seq(Callbacks)
  BY <1>1, <1>2, LoginAssigned, LoginDrops DEF Browser!Ends
<1>4. /\ r \in LoginState /\ r.pc = "ended" /\ r.replace = login[l].replace
      /\ r.sent = login[l].sent /\ r.result = result
  <2>1. LoginGives(r, login[l], "ended", result)
    BY <1>1, <1>2, LoginEnded
  <2> QED
    BY <2>1 DEF LoginGives
<1>5. LoginFits(l, r, s, l \in pages)
  BY <1>1, <1>4 DEF LoginFits, Kept
<1>6. \A k \in Logins : k # l => (store.lock = k => s = store)
  OBVIOUS
<1>7. \A k \in Logins : Kept(store, k) => Kept(s, k)
  BY DEF Kept
<1> QED
  BY <1>1, <1>3, <1>4, <1>5, <1>6, <1>7, LoginMoves

-----------------------------------------------------------------------------
LEMMA LoginStarts == ASSUME 0 \notin Logins, Browser!LoginInit PROVE LoginInv
<1>1. Browser!NoRequest \in Callbacks
  BY SMT DEF Callbacks, Browser!NoRequest, Browser!Request
<1>2. PICK r : r = [pc |-> "new", replace |-> FALSE, late |-> FALSE,
                    request |-> Browser!NoRequest, sent |-> <<>>, result |-> "none"]
  OBVIOUS
<1>3. /\ r \in LoginState /\ r.pc = "new" /\ r.sent = <<>> /\ r.result = "none"
  BY <1>1, <1>2, SMT DEF LoginState, LoginPcs, LoginResults
<1>4. login \in [Logins -> LoginState] /\ \A l \in Logins : login[l] = r
  BY <1>2, <1>3 DEF Browser!LoginInit
<1>5. /\ store \in ProfileStore /\ store.log = <<>> /\ store.profile = 0 /\ DOMAIN store.log = {}
      /\ queue \in Seq(Callbacks)
  BY SMT DEF Browser!LoginInit, ProfileStore
<1>6. pages = {} /\ tabs = {}
  BY DEF Browser!LoginInit
<1>7. ASSUME NEW l \in Logins PROVE LoginFits(l, login[l], store, l \in pages)
  BY <1>3, <1>4, <1>5, <1>6 DEF LoginFits
<1> QED
  BY <1>4, <1>5, <1>6, <1>7 DEF LoginInv

LEMMA PreflightStep ==
    ASSUME LoginInv, NEW l \in Logins, NEW replace \in BOOLEAN, Browser!Preflight(l, replace)
    PROVE  LoginInv'
<1>1. /\ login \in [Logins -> LoginState] /\ LoginFits(l, login[l], store, l \in pages)
      /\ store \in ProfileStore /\ queue \in Seq(Callbacks) /\ tabs \subseteq Logins
  BY DEF LoginInv
<1>2. /\ login[l].pc = "new" /\ pages' = pages /\ tabs' = tabs
  BY DEF Browser!Preflight
<1>3. CASE store.profile # 0 /\ ~replace
  <2>1. Browser!Ends(l, "exists", store)
    BY <1>3 DEF Browser!Preflight
  <2> QED
    BY <1>1, <1>2, <2>1, EndsKeeps DEF LoginResults
<1>4. CASE ~(store.profile # 0 /\ ~replace)
  <2>1. /\ login' = [login EXCEPT ![l].pc = "bind", ![l].replace = replace]
        /\ queue' = queue /\ store' = store
    BY <1>4 DEF Browser!Preflight
  <2>2. PICK p : p = [login[l] EXCEPT !.pc = "bind"]
    OBVIOUS
  <2>3. PICK r : r = [p EXCEPT !.replace = replace]
    OBVIOUS
  <2>4. /\ p \in LoginState /\ p.pc = "bind" /\ p.sent = login[l].sent
        /\ p.result = login[l].result
    BY <1>1, <2>2, LoginPlaced, SMT DEF LoginPcs
  <2>5. /\ r \in LoginState /\ r.pc = "bind" /\ r.sent = login[l].sent
        /\ r.result = login[l].result /\ r.replace = replace
    BY <2>3, <2>4, SMT DEF LoginState
  <2>6. login' = [login EXCEPT ![l] = r]
    <3>1. PICK g : g = [login EXCEPT ![l] = p]
      OBVIOUS
    <3>2. g[l] = p /\ DOMAIN g = Logins /\ \A k \in Logins : k # l => g[k] = login[k]
      BY <1>1, <3>1
    <3>3. login' = [g EXCEPT ![l].replace = replace]
      BY <1>1, <2>1, <2>2, <3>1, LoginAssigned
    <3> QED
      BY <1>1, <2>3, <3>1, <3>2, <3>3
  <2>7. LoginFits(l, r, store, l \in pages)
    BY <1>1, <1>2, <2>5 DEF LoginFits
  <2>8. ~Kept(store, l) \/ replace
    BY <1>1, <1>4, SMT DEF LoginInv, Kept
  <2> QED
    BY <1>1, <1>2, <2>1, <2>5, <2>6, <2>7, <2>8, LoginKeepsStore
<1> QED
  BY <1>3, <1>4

LEMMA BindStep ==
    ASSUME LoginInv, NEW l \in Logins, Browser!bind(l)
    PROVE  LoginInv'
<1>1. /\ LoginFits(l, login[l], store, l \in pages)
      /\ store \in ProfileStore /\ queue \in Seq(Callbacks) /\ tabs \subseteq Logins
  BY DEF LoginInv
<1>2. /\ login[l].pc = "bind" /\ pages' = pages /\ tabs' = tabs
  BY DEF Browser!bind
<1>3. CASE port # 0
  <2>1. Browser!Ends(l, "port", store)
    BY <1>3 DEF Browser!bind
  <2> QED
    BY <1>1, <1>2, <2>1, EndsKeeps DEF LoginResults
<1>4. CASE port = 0
  <2>1. Browser!Goes(l, "launch") /\ queue' = queue /\ store' = store
    BY <1>4 DEF Browser!bind
  <2>2. login[l].sent = <<>>
    BY <1>1, <1>2 DEF LoginFits
  <2> QED
    BY <1>1, <1>2, <2>1, <2>2, GoesKeeps DEF LoginPcs
<1> QED
  BY <1>3, <1>4

LEMMA LaunchStep ==
    ASSUME LoginInv, NEW l \in Logins, NEW opened \in BOOLEAN, NEW ok \in BOOLEAN,
           Browser!launch(l, opened, ok)
    PROVE  LoginInv'
<1>1. /\ LoginFits(l, login[l], store, l \in pages)
      /\ store \in ProfileStore /\ queue \in Seq(Callbacks) /\ tabs \subseteq Logins
  BY DEF LoginInv
<1>2. /\ login[l].pc = "launch" /\ pages' = pages
      /\ tabs' = IF opened THEN tabs \cup {l} ELSE tabs
  BY DEF Browser!launch
<1>3. tabs' \subseteq Logins
  BY <1>1, <1>2
<1>4. CASE ~ok
  <2>1. Browser!Ends(l, "launcher", store)
    BY <1>4 DEF Browser!launch
  <2> QED
    BY <1>1, <1>2, <1>3, <2>1, EndsKeeps DEF LoginResults
<1>5. CASE ok
  <2>1. Browser!Goes(l, "accept") /\ queue' = queue /\ store' = store
    BY <1>5 DEF Browser!launch
  <2>2. login[l].sent = <<>>
    BY <1>1, <1>2 DEF LoginFits
  <2> QED
    BY <1>1, <1>2, <1>3, <2>1, <2>2, GoesKeeps DEF LoginPcs
<1> QED
  BY <1>4, <1>5

LEMMA RedirectStep ==
    ASSUME LoginInv, NEW request, Browser!Redirect(request)
    PROVE  LoginInv'
<1>1. tabs \subseteq Logins /\ queue \in Seq(Callbacks)
  BY DEF LoginInv
<1>2. /\ request \in Browser!Redirects /\ queue' = Append(queue, request)
      /\ login' = login /\ tabs' = tabs /\ store' = store /\ pages' = pages
  BY DEF Browser!Redirect
<1>3. \A l \in Logins, code \in Logins \cup {0}, error, description, issuer, plain \in BOOLEAN :
        code \in {0, l} => Browser!Request(l, code, error, description, issuer, plain) \in Callbacks
  BY SMT DEF Callbacks, Browser!Request
<1>4. Browser!NoRequest \in Callbacks
  BY SMT DEF Callbacks, Browser!NoRequest, Browser!Request
<1>5. request \in Callbacks
  <2> DEFINE Of(l) == {Browser!Granted(l), Browser!Request(l, 0, TRUE, TRUE, TRUE, TRUE),
                       Browser!Request(l, l, TRUE, FALSE, TRUE, TRUE),
                       Browser!Request(l, l, FALSE, TRUE, TRUE, TRUE),
                       Browser!Request(l, l, FALSE, FALSE, FALSE, TRUE),
                       Browser!Request(l, 0, FALSE, FALSE, TRUE, TRUE)}
  <2>1. Browser!Redirects = {Browser!NoRequest} \cup UNION {Of(l) : l \in tabs}
    BY DEF Browser!Redirects
  <2>2. ASSUME NEW l \in tabs, request \in Of(l) PROVE request \in Callbacks
    <3>1. l \in Logins
      BY <1>1
    <3> QED
      BY <1>3, <2>2, <3>1 DEF Browser!Granted
  <2> HIDE DEF Of
  <2>3. CASE request \in UNION {Of(l) : l \in tabs}
    <3>1. PICK S \in {Of(l) : l \in tabs} : request \in S
      BY <2>3
    <3>2. PICK l \in tabs : S = Of(l)
      OBVIOUS
    <3> QED
      BY <2>2, <3>1, <3>2
  <2>4. request \in UNION {Of(l) : l \in tabs} \/ request \in {Browser!NoRequest}
    BY <1>2, <2>1
  <2> QED
    BY <1>4, <2>3, <2>4
<1>6. queue' \in Seq(Callbacks)
  BY <1>1, <1>2, <1>5, SMT
<1> QED
  BY <1>1, <1>2, <1>6 DEF LoginInv

LEMMA AcceptStep ==
    ASSUME LoginInv, NEW l \in Logins, Browser!accept(l)
    PROVE  LoginInv'
<1>1. /\ login \in [Logins -> LoginState] /\ LoginFits(l, login[l], store, l \in pages)
      /\ queue \in Seq(Callbacks) /\ tabs \subseteq Logins
  BY DEF LoginInv
<1>2. /\ login[l].pc = "accept" /\ queue # <<>> /\ Browser!Drops(l)
      /\ login' = [login EXCEPT ![l].pc = "receive", ![l].request = Head(queue)]
      /\ store' = store /\ pages' = pages /\ tabs' = tabs
  BY DEF Browser!accept
<1>3. PICK request \in Callbacks : request = Head(queue)
  BY <1>1, <1>2, SMT
<1>4. PICK p : p = [login[l] EXCEPT !.pc = "receive"]
  OBVIOUS
<1>5. PICK r : r = [p EXCEPT !.request = request]
  OBVIOUS
<1>6. /\ p \in LoginState /\ p.pc = "receive" /\ p.replace = login[l].replace
      /\ p.sent = login[l].sent /\ p.result = login[l].result
  BY <1>1, <1>4, LoginPlaced, SMT DEF LoginPcs
<1>7. /\ r \in LoginState /\ r.pc = "receive" /\ r.replace = login[l].replace
      /\ r.sent = login[l].sent /\ r.result = login[l].result
  BY <1>5, <1>6, SMT DEF LoginState
<1>8. login' = [login EXCEPT ![l] = r]
  <2>1. PICK g : g = [login EXCEPT ![l] = p]
    OBVIOUS
  <2>2. g[l] = p /\ DOMAIN g = Logins /\ \A k \in Logins : k # l => g[k] = login[k]
    BY <1>1, <2>1
  <2>3. login' = [g EXCEPT ![l].request = request]
    BY <1>1, <1>2, <1>3, <1>4, <2>1, LoginAssigned
  <2> QED
    BY <1>1, <1>5, <2>1, <2>2, <2>3
<1>9. LoginFits(l, r, store, l \in pages)
  BY <1>1, <1>2, <1>7 DEF LoginFits
<1>10. queue' \in Seq(Callbacks) /\ tabs' \subseteq Logins
  BY <1>1, <1>2, LoginDrops
<1> QED
  BY <1>2, <1>7, <1>8, <1>9, <1>10, LoginKeepsStore

\* What callback accepts has the code of this login, and nothing else passes for a
\* refusal.
LEMMA CallbackAccepts ==
    ASSUME NEW l \in Logins, NEW request \in Callbacks, 0 \notin Logins
    PROVE  /\ Browser!callback(l, request) \in {"ok", "failed", "denied"}
           /\ Browser!callback(l, request) = "ok" => request.code = l
<1>1. request.code \in {0, request.state}
  BY DEF Callbacks
<1> QED
  BY <1>1 DEF Browser!callback, Browser!StateMatches

LEMMA ReceiveStep ==
    ASSUME LoginInv, 0 \notin Logins, NEW l \in Logins, Browser!receive(l)
    PROVE  LoginInv'
<1>1. /\ login \in [Logins -> LoginState] /\ LoginFits(l, login[l], store, l \in pages)
      /\ store \in ProfileStore /\ queue \in Seq(Callbacks) /\ tabs \subseteq Logins
  BY DEF LoginInv
<1>2. login[l].request \in Callbacks
  BY <1>1, SMT DEF LoginState
<1>3. PICK verdict : verdict = Browser!callback(l, login[l].request)
  OBVIOUS
<1>4. verdict \in {"ok", "failed", "denied"} /\ (verdict = "ok" => login[l].request.code = l)
  BY <1>2, <1>3, CallbackAccepts
<1>5. /\ login[l].pc = "receive" /\ pages' = pages /\ tabs' = tabs
      /\ IF verdict # "ok" THEN Browser!Ends(l, verdict, store)
         ELSE Browser!Goes(l, "exchange") /\ queue' = queue /\ store' = store
  BY <1>3 DEF Browser!receive
<1>6. login[l].sent = <<>>
  BY <1>1, <1>5 DEF LoginFits
<1>7. CASE verdict # "ok"
  <2>1. /\ Browser!Ends(l, verdict, store) /\ verdict \in LoginResults
        /\ verdict \notin {"ok", "ineligible", "none"}
    BY <1>4, <1>5, <1>7 DEF LoginResults
  <2> QED
    BY <1>1, <1>5, <1>6, <2>1, EndsKeeps
<1>8. CASE verdict = "ok"
  <2>1. Browser!Goes(l, "exchange") /\ queue' = queue /\ store' = store
    BY <1>5, <1>8
  <2> QED
    BY <1>1, <1>4, <1>5, <1>6, <1>8, <2>1, GoesKeeps DEF LoginPcs
<1> QED
  BY <1>7, <1>8

LEMMA CodeStep ==
    ASSUME LoginInv, NEW l \in Logins, NEW answer \in Browser!Answers,
           Browser!exchange(l, answer)
    PROVE  LoginInv'
<1>1. /\ login \in [Logins -> LoginState] /\ LoginFits(l, login[l], store, l \in pages)
      /\ queue \in Seq(Callbacks) /\ tabs \subseteq Logins
  BY DEF LoginInv
<1>2. /\ login[l].pc = "exchange" /\ store' = store /\ pages' = pages /\ tabs' = tabs
      /\ queue' = queue
      /\ login' = [login EXCEPT ![l].sent = Append(@, login[l].request.code),
                                ![l].pc = IF answer = "ok" THEN "store" ELSE "ended",
                                ![l].result = IF answer = "ok" THEN @ ELSE answer]
  BY DEF Browser!exchange
<1>3. login[l].sent = <<>> /\ login[l].request.code = l
  BY <1>1, <1>2 DEF LoginFits
<1>4. Append(login[l].sent, login[l].request.code) = <<l>>
  BY <1>3, SMT
<1>5. PICK pc \in LoginPcs : pc = IF answer = "ok" THEN "store" ELSE "ended"
  BY DEF LoginPcs
<1>6. PICK result \in LoginResults : result = IF answer = "ok" THEN login[l].result ELSE answer
  BY <1>1, SMT DEF Browser!Answers, LoginState, LoginResults
<1>7. PICK p : p = [login[l] EXCEPT !.sent = <<l>>]
  OBVIOUS
<1>8. PICK q : q = [p EXCEPT !.pc = pc]
  OBVIOUS
<1>9. PICK r : r = [q EXCEPT !.result = result]
  OBVIOUS
<1>10. /\ p \in LoginState /\ p.sent = <<l>> /\ p.replace = login[l].replace
       /\ p.request = login[l].request /\ p.result = login[l].result
  BY <1>1, <1>7, SMT DEF LoginState
<1>11. /\ q \in LoginState /\ q.sent = <<l>> /\ q.replace = login[l].replace
       /\ q.request = login[l].request /\ q.pc = pc /\ q.result = login[l].result
  BY <1>8, <1>10, LoginPlaced, SMT
<1>12. /\ r \in LoginState /\ r.sent = <<l>> /\ r.replace = login[l].replace
       /\ r.request = login[l].request /\ r.pc = pc /\ r.result = result
  BY <1>9, <1>11, SMT DEF LoginState
<1>13. login' = [login EXCEPT ![l] = r]
  <2>1. PICK g : g = [login EXCEPT ![l] = p]
    OBVIOUS
  <2>2. g[l] = p /\ DOMAIN g = Logins /\ \A k \in Logins : k # l => g[k] = login[k]
    BY <1>1, <2>1
  <2>3. PICK h : h = [g EXCEPT ![l] = q]
    OBVIOUS
  <2>4. h[l] = q /\ DOMAIN h = Logins /\ \A k \in Logins : k # l => h[k] = login[k]
    BY <2>2, <2>3
  <2>5. [login EXCEPT ![l].sent = <<l>>] = g
    BY <1>1, <1>7, <2>1
  <2>6. [g EXCEPT ![l].pc = pc] = h
    BY <1>8, <2>2, <2>3
  <2>7. login' = [[[login EXCEPT ![l].sent = <<l>>] EXCEPT ![l].pc = pc]
                    EXCEPT ![l].result = IF answer = "ok" THEN @ ELSE answer]
    BY <1>2, <1>4, <1>5
  <2>8. login' = [h EXCEPT ![l].result = IF answer = "ok" THEN @ ELSE answer]
    BY <2>5, <2>6, <2>7
  <2>9. [h EXCEPT ![l].result = IF answer = "ok" THEN @ ELSE answer] = [h EXCEPT ![l] = r]
    BY <1>6, <1>9, <1>11, <2>4
  <2> QED
    BY <1>1, <2>1, <2>3, <2>8, <2>9
<1>14. LoginFits(l, r, store, l \in pages)
  BY <1>1, <1>2, <1>5, <1>6, <1>12 DEF LoginFits, Browser!Answers
<1> QED
  BY <1>1, <1>2, <1>12, <1>13, <1>14, LoginKeepsStore

LEMMA DeadlineStep ==
    ASSUME LoginInv, NEW l \in Logins, Browser!Deadline(l)
    PROVE  LoginInv'
<1>1. /\ login \in [Logins -> LoginState] /\ LoginFits(l, login[l], store, l \in pages)
      /\ queue \in Seq(Callbacks) /\ tabs \subseteq Logins
  BY DEF LoginInv
<1>2. /\ login' = [login EXCEPT ![l].late = TRUE]
      /\ store' = store /\ pages' = pages /\ tabs' = tabs /\ queue' = queue
  BY DEF Browser!Deadline
<1>3. PICK r : r = [login[l] EXCEPT !.late = TRUE]
  OBVIOUS
<1>4. /\ r \in LoginState /\ r.sent = login[l].sent /\ r.replace = login[l].replace
      /\ r.request = login[l].request /\ r.pc = login[l].pc /\ r.result = login[l].result
  <2>1. PICK p \in LoginState : p = login[l]
    BY <1>1
  <2>2. PICK late \in BOOLEAN : late = TRUE
    OBVIOUS
  <2>3. r = [p EXCEPT !.late = late]
    BY <1>3, <2>1, <2>2
  <2>4. /\ r \in LoginState /\ r.sent = p.sent /\ r.replace = p.replace
        /\ r.request = p.request /\ r.pc = p.pc /\ r.result = p.result
    BY <2>3, SMT DEF LoginState
  <2> QED
    BY <2>1, <2>4
<1>5. login' = [login EXCEPT ![l] = r]
  BY <1>1, <1>2, <1>3
<1>6. LoginFits(l, r, store, l \in pages)
  BY <1>1, <1>4 DEF LoginFits
<1> QED
  BY <1>1, <1>2, <1>4, <1>5, <1>6, LoginKeepsStore

LEMMA TimeoutStep ==
    ASSUME LoginInv, NEW l \in Logins, Browser!Expire(l)
    PROVE  LoginInv'
<1>1. store \in ProfileStore /\ tabs \subseteq Logins
  BY DEF LoginInv
<1>2. /\ login[l].pc \notin {"reread", "tell", "return", "ended"}
      /\ Browser!Ends(l, "expired", store) /\ pages' = pages /\ tabs' = tabs
  BY DEF Browser!Expire
<1> QED
  BY <1>1, <1>2, EndsKeeps DEF LoginResults

\* The lock is given back by the login that holds it, and by no other.
LEMMA UnlockedKeeps ==
    ASSUME store \in ProfileStore, NEW l, NEW s, s = Browser!Unlocked(l)
    PROVE  /\ s \in ProfileStore /\ s.log = store.log /\ s.profile = store.profile
           /\ s.reauth = store.reauth /\ (s = store \/ store.lock = l)
<1>1. CASE store.lock = l
  BY <1>1, SMT DEF ProfileStore, Browser!Unlocked
<1>2. CASE store.lock # l
  <2>1. s = store
    BY <1>2, SMT DEF ProfileStore, Browser!Unlocked
  <2> QED
    BY <2>1
<1> QED
  BY <1>1, <1>2

LEMMA LoginCrashStep ==
    ASSUME LoginInv, NEW l \in Logins, Browser!Crash(l)
    PROVE  LoginInv'
<1>1. store \in ProfileStore /\ tabs \subseteq Logins
  BY DEF LoginInv
<1>2. PICK s : s = Browser!Unlocked(l)
  OBVIOUS
<1>3. /\ login[l].pc # "ended" /\ Browser!Ends(l, "crashed", s)
      /\ pages' = pages /\ tabs' = tabs
  BY <1>2 DEF Browser!Crash
<1>4. /\ s \in ProfileStore /\ s.log = store.log /\ s.profile = store.profile
      /\ s.reauth = store.reauth /\ (s = store \/ store.lock = l)
  BY <1>1, <1>2, UnlockedKeeps, SMT
<1> QED
  BY <1>1, <1>3, <1>4, EndsKeeps DEF LoginResults

LEMMA LoginBeforeStep ==
    ASSUME LoginInv, 0 \notin Logins, NEW l \in Logins, NEW guarded \in BOOLEAN,
           Browser!login_before(l, guarded)
    PROVE  LoginInv'
<1>1. /\ login \in [Logins -> LoginState] /\ LoginFits(l, login[l], store, l \in pages)
      /\ store \in ProfileStore /\ queue \in Seq(Callbacks) /\ tabs \subseteq Logins
      /\ store.profile = 0 => store.log = <<>>
  BY DEF LoginInv
<1>2. /\ login[l].pc = "store" /\ store.lock = 0 /\ pages' = pages /\ tabs' = tabs
  BY DEF Browser!login_before
<1>3. CASE login[l].late \/ Browser!Exists(l) \/ ~guarded
  <2>1. PICK result \in {"expired", "exists", "failed"} : Browser!Ends(l, result, store)
    BY <1>3 DEF Browser!login_before
  <2>2. result \in LoginResults /\ result \notin {"ok", "ineligible", "denied"}
    BY DEF LoginResults
  <2> QED
    BY <1>1, <1>2, <2>1, <2>2, EndsKeeps
<1>4. CASE ~login[l].late /\ ~Browser!Exists(l) /\ guarded
  <2>1. /\ store' = [store EXCEPT !.lock = l] /\ Browser!Goes(l, "write") /\ queue' = queue
    BY <1>4 DEF Browser!login_before
  <2>2. PICK s : s = [store EXCEPT !.lock = l]
    OBVIOUS
  <2>3. /\ s \in ProfileStore /\ s.lock = l /\ s.log = store.log /\ s.profile = store.profile
        /\ s.reauth = store.reauth
    BY <1>1, <2>2, SMT DEF ProfileStore
  <2>4. PICK r : r = [login[l] EXCEPT !.pc = "write"]
    OBVIOUS
  <2>5. login' = [login EXCEPT ![l] = r]
    BY <1>1, <2>1, <2>4, LoginAssigned DEF Browser!Goes
  <2>6. /\ r \in LoginState /\ r.pc = "write" /\ r.replace = login[l].replace
        /\ r.sent = login[l].sent /\ r.result = login[l].result
    BY <1>1, <2>4, LoginPlaced, SMT DEF LoginPcs
  <2>7. s.log = <<>> \/ r.replace
    BY <1>1, <1>4, <2>3, <2>6 DEF Browser!Exists
  <2>8. LoginFits(l, r, s, l \in pages)
    BY <1>1, <1>2, <2>3, <2>6, <2>7 DEF LoginFits, Kept
  <2>9. \A k \in Logins : store.lock # k
    BY <1>2
  <2>10. \A k \in Logins : Kept(store, k) => Kept(s, k)
    BY <2>3 DEF Kept
  <2> QED
    BY <1>1, <1>2, <2>1, <2>2, <2>3, <2>5, <2>6, <2>8, <2>9, <2>10, LoginMoves
<1> QED
  BY <1>3, <1>4

\* The profile takes its place, whatever becomes of the lock.
LEMMA StoredFacts ==
    ASSUME store \in ProfileStore, NEW l \in Logins
    PROVE  \E s \in ProfileStore :
             /\ s = Browser!Stored(l) /\ s.profile = l /\ s.reauth = TRUE /\ s.lock = store.lock
             /\ Kept(s, l) /\ \A k : Kept(store, k) => Kept(s, k)
             /\ \A i \in DOMAIN s.log :
                  \/ i \in DOMAIN store.log /\ s.log[i] = store.log[i]
                  \/ s.log[i] = l /\ (store.log = <<>> => i = 1)
<1>0. PICK s : s = Browser!Stored(l)
  OBVIOUS
<1>1. PICK old \in Seq(Logins) : old = store.log
  BY DEF ProfileStore
<1>2. PICK new : new = Append(old, l)
  OBVIOUS
<1>3. /\ new \in Seq(Logins) /\ DOMAIN new = 1..(Len(old) + 1) /\ DOMAIN old = 1..Len(old)
      /\ Len(old) \in Nat /\ new[Len(old) + 1] = l /\ \A i \in 1..Len(old) : new[i] = old[i]
  BY <1>2, SMT
<1>4. /\ s \in ProfileStore /\ s.profile = l /\ s.reauth = TRUE /\ s.lock = store.lock
      /\ s.log = new
  <2>1. PICK a : a = [store EXCEPT !.profile = l]
    OBVIOUS
  <2>2. PICK yes \in BOOLEAN : yes = TRUE
    OBVIOUS
  <2>3. PICK b : b = [a EXCEPT !.reauth = yes]
    OBVIOUS
  <2>4. a \in ProfileStore /\ a.profile = l /\ a.lock = store.lock /\ a.log = old
    BY <1>1, <2>1, SMT DEF ProfileStore
  <2>5. b \in ProfileStore /\ b.profile = l /\ b.reauth = yes /\ b.lock = store.lock /\ b.log = old
    BY <2>3, <2>4, SMT DEF ProfileStore
  <2>6. s = [b EXCEPT !.log = new]
    BY <1>0, <1>1, <1>2, <2>1, <2>2, <2>3, <2>5 DEF Browser!Stored
  <2>7. s \in ProfileStore /\ s.profile = l /\ s.reauth = yes /\ s.lock = store.lock /\ s.log = new
    BY <1>3, <2>5, <2>6, SMTT(30) DEF ProfileStore
  <2> QED
    BY <2>2, <2>7
<1>5. Kept(s, l)
  BY <1>3, <1>4, SMT DEF Kept
<1>6. ASSUME NEW k, Kept(store, k) PROVE Kept(s, k)
  <2>1. PICK i \in DOMAIN old : old[i] = k
    BY <1>1, <1>6 DEF Kept
  <2>2. i \in DOMAIN new /\ new[i] = k
    BY <1>3, <2>1, SMT
  <2> QED
    BY <1>4, <2>2 DEF Kept
<1>7. ASSUME NEW i \in DOMAIN new
      PROVE  \/ i \in DOMAIN old /\ new[i] = old[i]
             \/ new[i] = l /\ (old = <<>> => i = 1)
  BY <1>3, SMT
<1> QED
  BY <1>0, <1>1, <1>4, <1>5, <1>6, <1>7

LEMMA ProfileStep ==
    ASSUME LoginInv, 0 \notin Logins, NEW l \in Logins, NEW replaced \in BOOLEAN,
           NEW ok \in BOOLEAN, Browser!write(l, replaced, ok)
    PROVE  LoginInv'
<1>1. /\ login \in [Logins -> LoginState] /\ LoginFits(l, login[l], store, l \in pages)
      /\ store \in ProfileStore /\ queue \in Seq(Callbacks) /\ tabs \subseteq Logins
      /\ store.profile = 0 => store.log = <<>>
  BY DEF LoginInv
<1>2. /\ login[l].pc = "write" /\ pages' = pages /\ tabs' = tabs
  BY DEF Browser!write
<1>3. /\ store.lock = l /\ login[l].result = "none" /\ (store.log = <<>> \/ login[l].replace)
  BY <1>1, <1>2 DEF LoginFits
<1>4. CASE login[l].late
  <2>1. PICK s : s = Browser!Unlocked(l)
    OBVIOUS
  <2>2. Browser!Ends(l, "expired", s)
    BY <1>4, <2>1 DEF Browser!write
  <2>3. /\ s \in ProfileStore /\ s.log = store.log /\ s.profile = store.profile
        /\ s.reauth = store.reauth
    BY <1>1, <2>1, UnlockedKeeps, SMT
  <2> QED
    BY <1>1, <1>2, <1>3, <2>2, <2>3, EndsKeeps DEF LoginResults
<1>5. ASSUME ~login[l].late, NEW s \in ProfileStore, s.profile = l, s.reauth = TRUE, Kept(s, l),
             \A k : Kept(store, k) => Kept(s, k),
             \A i \in DOMAIN s.log :
                \/ i \in DOMAIN store.log /\ s.log[i] = store.log[i]
                \/ s.log[i] = l /\ (store.log = <<>> => i = 1),
             NEW r \in LoginState, login' = [login EXCEPT ![l] = r], store' = s,
             queue' \in Seq(Callbacks), r.replace = login[l].replace, r.sent = login[l].sent,
             \/ r.pc = "finish" /\ r.result = "none" /\ s.lock = l
             \/ r.pc = "ended" /\ r.result = "failed"
      PROVE  LoginInv'
  <2>1. LoginFits(l, r, s, l \in pages)
    BY <1>1, <1>5 DEF LoginFits
  <2>2. \A i \in DOMAIN s.log :
          \/ i \in DOMAIN store.log /\ s.log[i] = store.log[i]
          \/ s.log[i] = l /\ (i > 1 => r.replace)
    BY <1>3, <1>5, SMT
  <2>3. s.profile # 0
    BY <1>5
  <2>4. \A k \in Logins : k # l =>
          /\ k \in pages' => k \in pages
          /\ store.lock = k => s = store
          /\ Kept(store, k) => Kept(s, k)
          /\ s.profile = k => store.profile = k /\ s.reauth = store.reauth
    BY <1>2, <1>3, <1>5
  <2>5. LoginFits(l, r, s, l \in pages') /\ tabs' \subseteq Logins
    BY <1>1, <1>2, <2>1
  <2>6. login[l].replace /\ Kept(s, l) => r.replace
    BY <1>5
  <2> QED
    BY <1>5, <2>2, <2>3, <2>4, <2>5, <2>6, LoginMoves
<1>6. CASE ~login[l].late /\ ok
  <2>1. PICK s \in ProfileStore :
          /\ s = Browser!Stored(l) /\ s.profile = l /\ s.reauth = TRUE /\ s.lock = store.lock
          /\ Kept(s, l) /\ \A k : Kept(store, k) => Kept(s, k)
          /\ \A i \in DOMAIN s.log :
               \/ i \in DOMAIN store.log /\ s.log[i] = store.log[i]
               \/ s.log[i] = l /\ (store.log = <<>> => i = 1)
    BY <1>1, StoredFacts
  <2>2. PICK r : r = [login[l] EXCEPT !.pc = "finish"]
    OBVIOUS
  <2>3. store' = s /\ Browser!Goes(l, "finish") /\ queue' = queue
    BY <1>6, <2>1 DEF Browser!write
  <2>4. login' = [login EXCEPT ![l] = r]
    BY <1>1, <2>2, <2>3, LoginAssigned DEF Browser!Goes
  <2>5. /\ r \in LoginState /\ r.pc = "finish" /\ r.replace = login[l].replace
        /\ r.sent = login[l].sent /\ r.result = login[l].result
    BY <1>1, <2>2, LoginPlaced, SMT DEF LoginPcs
  <2> QED
    BY <1>1, <1>3, <1>5, <1>6, <2>1, <2>3, <2>4, <2>5
<1>7. CASE ~login[l].late /\ ~ok
  <2>1. PICK s : s = [(IF replaced THEN Browser!Stored(l) ELSE store) EXCEPT !.lock = 0]
    OBVIOUS
  <2>2. Browser!Ends(l, "failed", s)
    BY <1>7, <2>1 DEF Browser!write
  <2>3. CASE ~replaced
    <3>1. s = [store EXCEPT !.lock = 0]
      BY <2>1, <2>3
    <3>2. /\ s \in ProfileStore /\ s.log = store.log /\ s.profile = store.profile
          /\ s.reauth = store.reauth
      BY <1>1, <3>1, SMT DEF ProfileStore
    <3> QED
      BY <1>1, <1>2, <1>3, <2>2, <3>2, EndsKeeps DEF LoginResults
  <2>4. CASE replaced
    <3>1. PICK p \in ProfileStore :
            /\ p = Browser!Stored(l) /\ p.profile = l /\ p.reauth = TRUE
            /\ Kept(p, l) /\ \A k : Kept(store, k) => Kept(p, k)
            /\ \A i \in DOMAIN p.log :
                 \/ i \in DOMAIN store.log /\ p.log[i] = store.log[i]
                 \/ p.log[i] = l /\ (store.log = <<>> => i = 1)
      BY <1>1, StoredFacts
    <3>2. s = [p EXCEPT !.lock = 0]
      BY <2>1, <2>4, <3>1
    <3>3. s \in ProfileStore /\ s.log = p.log /\ s.profile = p.profile /\ s.reauth = p.reauth
      BY <3>2, SMT DEF ProfileStore
    <3>4. PICK r : r = [login[l] EXCEPT !.pc = "ended", !.result = "failed"]
      OBVIOUS
    <3>5. login' = [login EXCEPT ![l] = r] /\ store' = s /\ queue' \in Seq(Callbacks)
      BY <1>1, <2>2, <3>4, LoginAssigned, LoginDrops DEF Browser!Ends
    <3>6. /\ r \in LoginState /\ r.pc = "ended" /\ r.replace = login[l].replace
          /\ r.sent = login[l].sent /\ r.result = "failed"
      <4>1. "failed" \in LoginResults
        BY DEF LoginResults
      <4>2. LoginGives(r, login[l], "ended", "failed")
        BY <1>1, <3>4, <4>1, LoginEnded
      <4> QED
        BY <4>2 DEF LoginGives
    <3>7. Kept(s, l) /\ \A k : Kept(store, k) => Kept(s, k)
      <4>1. \A k : Kept(s, k) <=> Kept(p, k)
        BY <3>3 DEF Kept
      <4> QED
        BY <3>1, <4>1
    <3>8. \A i \in DOMAIN s.log :
            \/ i \in DOMAIN store.log /\ s.log[i] = store.log[i]
            \/ s.log[i] = l /\ (store.log = <<>> => i = 1)
      BY <3>1, <3>3
    <3> QED
      BY <1>5, <1>7, <3>1, <3>3, <3>5, <3>6, <3>7, <3>8
  <2> QED
    BY <2>3, <2>4
<1> QED
  BY <1>4, <1>6, <1>7

\* The guard goes, or stays: the profile is that of the login, which holds the lock.
LEMMA GuardGoneStep ==
    ASSUME LoginInv, 0 \notin Logins, NEW l \in Logins, NEW removed \in BOOLEAN,
           Browser!finish_guard(l, removed)
    PROVE  LoginInv'
<1>1. /\ login \in [Logins -> LoginState] /\ LoginFits(l, login[l], store, l \in pages)
      /\ store \in ProfileStore /\ queue \in Seq(Callbacks) /\ tabs \subseteq Logins
  BY DEF LoginInv
<1>2. PICK needed \in BOOLEAN : needed = ~removed
  OBVIOUS
<1>3. PICK s : s = [store EXCEPT !.reauth = needed]
  OBVIOUS
<1>4. /\ login[l].pc = "finish" /\ tabs' = tabs /\ queue' = queue /\ pages' = pages
      /\ Browser!Goes(l, "reread") /\ store' = s
  BY <1>2, <1>3 DEF Browser!finish_guard
<1>5. store.lock = l /\ store.profile = l /\ Kept(store, l) /\ login[l].result = "none"
  BY <1>1, <1>4 DEF LoginFits
<1>6. /\ s \in ProfileStore /\ s.profile = l /\ s.log = store.log /\ s.lock = l
  BY <1>1, <1>3, <1>5, SMT DEF ProfileStore
<1>7. PICK r : r = [login[l] EXCEPT !.pc = "reread"]
  OBVIOUS
<1>8. login' = [login EXCEPT ![l] = r]
  BY <1>1, <1>4, <1>7, LoginAssigned DEF Browser!Goes
<1>9. /\ r \in LoginState /\ r.pc = "reread" /\ r.replace = login[l].replace
      /\ r.sent = login[l].sent /\ r.result = login[l].result
  BY <1>1, <1>7, LoginPlaced, SMT DEF LoginPcs
<1>10. \A k : Kept(store, k) => Kept(s, k)
  BY <1>6 DEF Kept
<1>11. LoginFits(l, r, s, l \in pages')
  BY <1>1, <1>4, <1>5, <1>6, <1>9, <1>10 DEF LoginFits
<1>12. \A k \in Logins : k # l =>
          /\ k \in pages' => k \in pages
          /\ store.lock = k => s = store
          /\ Kept(store, k) => Kept(s, k)
          /\ s.profile = k => store.profile = k /\ s.reauth = store.reauth
  BY <1>4, <1>5, <1>6, <1>10
<1>13. s.profile # 0
  BY <1>6
<1>14. \A i \in DOMAIN s.log : i \in DOMAIN store.log /\ s.log[i] = store.log[i]
  BY <1>6
<1> QED
  BY <1>1, <1>4, <1>6, <1>8, <1>9, <1>11, <1>12, <1>13, <1>14, LoginMoves

\* What the store says under the lock is the answer; then the lock is given back.
LEMMA RereadStep ==
    ASSUME LoginInv, 0 \notin Logins, NEW l \in Logins, NEW readable \in BOOLEAN,
           Browser!reread(l, readable)
    PROVE  LoginInv'
<1>1. /\ login \in [Logins -> LoginState] /\ LoginFits(l, login[l], store, l \in pages)
      /\ store \in ProfileStore /\ queue \in Seq(Callbacks) /\ tabs \subseteq Logins
  BY DEF LoginInv
<1>2. PICK result : result = IF readable /\ ~store.reauth THEN "ok" ELSE "ineligible"
  OBVIOUS
<1>3. /\ result \in LoginResults /\ result \in {"ok", "ineligible"}
      /\ result = "ok" => ~store.reauth
  BY <1>2 DEF LoginResults
<1>4. PICK s : s = [store EXCEPT !.lock = 0]
  OBVIOUS
<1>5. /\ login[l].pc = "reread" /\ tabs' = tabs /\ queue' = queue /\ pages' = pages
      /\ login' = [login EXCEPT ![l].pc = "tell", ![l].result = result] /\ store' = s
  BY <1>2, <1>4 DEF Browser!reread
<1>6. store.lock = l /\ store.profile = l /\ Kept(store, l)
  BY <1>1, <1>5 DEF LoginFits
<1>7. /\ s \in ProfileStore /\ s.profile = l /\ s.log = store.log /\ s.reauth = store.reauth
  BY <1>1, <1>4, <1>6, SMT DEF ProfileStore
<1>8. PICK r : r = [login[l] EXCEPT !.pc = "tell", !.result = result]
  OBVIOUS
<1>9. login' = [login EXCEPT ![l] = r]
  BY <1>1, <1>5, <1>8, LoginAssigned
<1>10. /\ r \in LoginState /\ r.pc = "tell" /\ r.replace = login[l].replace
       /\ r.sent = login[l].sent /\ r.result = result
  <2>1. "tell" \in LoginPcs /\ login[l] \in LoginState
    BY <1>1 DEF LoginPcs
  <2>2. LoginGives(r, login[l], "tell", result)
    BY <1>3, <1>8, <2>1, LoginAnswered
  <2> QED
    BY <2>2 DEF LoginGives
<1>11. \A k : Kept(store, k) => Kept(s, k)
  BY <1>7 DEF Kept
<1>12. LoginFits(l, r, s, l \in pages')
  BY <1>1, <1>3, <1>5, <1>6, <1>7, <1>10, <1>11 DEF LoginFits
<1>13. \A k \in Logins : k # l =>
          /\ k \in pages' => k \in pages
          /\ store.lock = k => s = store
          /\ Kept(store, k) => Kept(s, k)
          /\ s.profile = k => store.profile = k /\ s.reauth = store.reauth
  BY <1>5, <1>6, <1>7, <1>11
<1>14. s.profile # 0
  BY <1>7
<1>15. \A i \in DOMAIN s.log : i \in DOMAIN store.log /\ s.log[i] = store.log[i]
  BY <1>7
<1>16. store' = s /\ queue' \in Seq(Callbacks) /\ tabs' \subseteq Logins
  BY <1>1, <1>5
<1> QED
  BY <1>7, <1>9, <1>10, <1>12, <1>13, <1>14, <1>15, <1>16, LoginMoves

LEMMA TellStep ==
    ASSUME LoginInv, NEW l \in Logins, NEW told \in BOOLEAN, Browser!tell(l, told)
    PROVE  LoginInv'
<1>1. /\ login \in [Logins -> LoginState] /\ LoginFits(l, login[l], store, l \in pages)
      /\ store \in ProfileStore /\ queue \in Seq(Callbacks) /\ tabs \subseteq Logins
      /\ store.profile = 0 => store.log = <<>>
  BY DEF LoginInv
<1>2. /\ login[l].pc = "tell" /\ tabs' = tabs /\ queue' = queue /\ store' = store
      /\ Browser!Goes(l, "return") /\ pages' = IF told THEN pages \cup {l} ELSE pages
  BY DEF Browser!tell
<1>3. PICK r : r = [login[l] EXCEPT !.pc = "return"]
  OBVIOUS
<1>4. login' = [login EXCEPT ![l] = r]
  BY <1>1, <1>2, <1>3, LoginAssigned DEF Browser!Goes
<1>5. /\ r \in LoginState /\ r.pc = "return" /\ r.replace = login[l].replace
      /\ r.sent = login[l].sent /\ r.result = login[l].result
  BY <1>1, <1>3, LoginPlaced, SMT DEF LoginPcs
<1>6. LoginFits(l, r, store, l \in pages')
  BY <1>1, <1>2, <1>5 DEF LoginFits
<1>7. \A k \in Logins : k # l => (k \in pages' => k \in pages)
  BY <1>2
<1> QED
  BY <1>1, <1>2, <1>4, <1>5, <1>6, <1>7, LoginMoves

LEMMA ReturnStep ==
    ASSUME LoginInv, NEW l \in Logins, Browser!Return(l)
    PROVE  LoginInv'
<1>1. /\ login \in [Logins -> LoginState] /\ LoginFits(l, login[l], store, l \in pages)
      /\ store \in ProfileStore /\ tabs \subseteq Logins
  BY DEF LoginInv
<1>2. /\ login[l].pc = "return" /\ tabs' = tabs /\ pages' = pages
      /\ Browser!Ends(l, login[l].result, store)
  BY DEF Browser!Return
<1>3. PICK r : r = [login[l] EXCEPT !.pc = "ended", !.result = login[l].result]
  OBVIOUS
<1>4. login' = [login EXCEPT ![l] = r] /\ store' = store /\ queue' \in Seq(Callbacks)
  BY <1>1, <1>2, <1>3, LoginAssigned, LoginDrops DEF Browser!Ends
<1>5. login[l].result \in LoginResults
  BY <1>1 DEF LoginState
<1>6. /\ r \in LoginState /\ r.pc = "ended" /\ r.replace = login[l].replace
      /\ r.sent = login[l].sent /\ r.result = login[l].result
  <2>1. LoginGives(r, login[l], "ended", login[l].result)
    BY <1>1, <1>3, <1>5, LoginEnded
  <2> QED
    BY <2>1 DEF LoginGives
<1>7. LoginFits(l, r, store, l \in pages)
  BY <1>1, <1>2, <1>6 DEF LoginFits
<1> QED
  BY <1>1, <1>2, <1>4, <1>6, <1>7, LoginKeepsStore

LEMMA BrowserStep ==
    ASSUME LoginInv, 0 \notin Logins, [Browser!LoginNext]_(Browser!loginVars)
    PROVE  LoginInv'
<1>1. CASE UNCHANGED Browser!loginVars
  BY <1>1 DEF LoginInv, Browser!loginVars
<1>2. ASSUME NEW l \in Logins, NEW replace \in BOOLEAN, Browser!Preflight(l, replace)
      PROVE LoginInv'
  BY <1>2, PreflightStep
<1>3. ASSUME NEW l \in Logins, Browser!bind(l) PROVE LoginInv'
  BY <1>3, BindStep
<1>4. ASSUME NEW l \in Logins, Browser!accept(l) PROVE LoginInv'
  BY <1>4, AcceptStep
<1>5. ASSUME NEW l \in Logins, Browser!receive(l) PROVE LoginInv'
  BY <1>5, ReceiveStep
<1>6. ASSUME NEW l \in Logins, Browser!Deadline(l) PROVE LoginInv'
  BY <1>6, DeadlineStep
<1>7. ASSUME NEW l \in Logins, Browser!Expire(l) PROVE LoginInv'
  BY <1>7, TimeoutStep
<1>8. ASSUME NEW l \in Logins, Browser!Crash(l) PROVE LoginInv'
  BY <1>8, LoginCrashStep
<1>9. ASSUME NEW l \in Logins, NEW opened \in BOOLEAN, NEW ok \in BOOLEAN,
             Browser!launch(l, opened, ok)
      PROVE LoginInv'
  BY <1>9, LaunchStep
<1>10. ASSUME NEW l \in Logins, NEW answer \in Browser!Answers, Browser!exchange(l, answer)
       PROVE LoginInv'
  BY <1>10, CodeStep
<1>11. ASSUME NEW l \in Logins, NEW guarded \in BOOLEAN, Browser!login_before(l, guarded)
       PROVE LoginInv'
  BY <1>11, LoginBeforeStep
<1>12. ASSUME NEW l \in Logins, NEW replaced \in BOOLEAN, NEW ok \in BOOLEAN,
              Browser!write(l, replaced, ok)
       PROVE LoginInv'
  BY <1>12, ProfileStep
<1>13. ASSUME NEW l \in Logins, NEW removed \in BOOLEAN, Browser!finish_guard(l, removed)
       PROVE LoginInv'
  BY <1>13, GuardGoneStep
<1>15. ASSUME NEW l \in Logins, NEW readable \in BOOLEAN, Browser!reread(l, readable)
       PROVE LoginInv'
  BY <1>15, RereadStep
<1>16. ASSUME NEW l \in Logins, NEW told \in BOOLEAN, Browser!tell(l, told) PROVE LoginInv'
  BY <1>16, TellStep
<1>17. ASSUME NEW l \in Logins, Browser!Return(l) PROVE LoginInv'
  BY <1>17, ReturnStep
<1>14. ASSUME NEW request \in Browser!Redirects, Browser!Redirect(request) PROVE LoginInv'
  BY <1>14, RedirectStep
<1> QED
  BY <1>1, <1>2, <1>3, <1>4, <1>5, <1>6, <1>7, <1>8, <1>9, <1>10, <1>11, <1>12, <1>13, <1>14,
     <1>15, <1>16, <1>17 DEF Browser!LoginNext

\* However many logins of a profile run at a time, whatever the browser brings to
\* the port and wherever one of them fails or ends: a login sends no code but that
\* of its own page, and that at most once; who is told that it is complete has its
\* profile in the store, and can use it if that was the answer; one that ends with
\* an error leaves no profile to be used; and none takes the place of another that
\* was not to be replaced (run, receive, callback, login_before).
THEOREM LoginTrue ==
    ASSUME 0 \notin Logins
    PROVE  Browser!LoginSpec => []Browser!LoginIsTrue
<1>1. Browser!LoginInit => LoginInv
  BY LoginStarts
<1>2. LoginInv /\ [Browser!LoginNext]_(Browser!loginVars) => LoginInv'
  BY BrowserStep
<1>3. LoginInv => Browser!LoginIsTrue
  BY LoginInvIsTrue
<1> QED
  BY <1>1, <1>2, <1>3, PTL DEF Browser!LoginSpec

-----------------------------------------------------------------------------
(***************************************************************************)
(* The credentials of a session, for any files, rewrites and times.        *)
(***************************************************************************)

CONSTANTS AuthFiles, MaxRewrites, MaxTime, Margin, Second
VARIABLES now, authFile, rewrites, wire, used

Session == INSTANCE Credentials

\* What a file can be: an expiry is a number, and the token states at most one.
FileModes == {"missing", "link", "directory", "large", "shared", "private"}
FilesAssumption ==
    /\ Margin \in Nat /\ Second \in Nat \ {0}
    /\ \A f \in AuthFiles :
          /\ f.mode \in FileModes /\ f.expires \in Nat
          /\ f.token.exp = {} \/ \E n \in Nat : f.token.exp = {n}

\* The expiry that a session goes by.
Until(f) ==
    Session!Earlier(IF f.source = "pi" THEN {f.expires \div Second} ELSE {},
                    Session!jwt_hints(f.token).exp)

\* Of which it is true, at time t, that no stated expiry is within the margin,
\* and that one is.
FreshAt(f, t) == \A e \in Session!Expiries(f) : e > (t + Margin) * Second
ExpiredAt(f, t) == \E e \in Session!Expiries(f) : e < (t + Margin + 1) * Second

\* A product and a quotient of the same number of seconds compare alike.
LEMMA SecondFacts ==
    ASSUME NEW s, s \in Nat \ {0}, NEW n, n \in Nat, NEW k, k \in Nat
    PROVE  /\ n > k => n * s > k * s
           /\ n <= k => n * s < (k + 1) * s
           /\ n \div s > k => n > k * s
           /\ n \div s <= k => n < (k + 1) * s
           /\ n \div s \in Nat
<1>1. ASSUME NEW a \in Nat, NEW b \in Nat, a < b PROVE a * s < b * s
  BY <1>1, SMT
<1>2. ASSUME NEW a \in Nat, NEW b \in Nat, a <= b PROVE a * s <= b * s
  BY <1>2, SMT
<1>3. PICK d, r : d = n \div s /\ r = n % s
  OBVIOUS
<1>4. d \in Nat /\ r \in 0..(s - 1) /\ n = s * d + r
  BY <1>3, SMT
<1>5. s * d = d * s /\ (d + 1) * s = d * s + s
  BY <1>4, SMT
<1>6. n < (d + 1) * s /\ n >= d * s
  BY <1>4, <1>5, SMT
<1>7. d > k => n > k * s
  <2>1. SUFFICES ASSUME d > k PROVE n > k * s
    OBVIOUS
  <2>2. k * s < d * s
    BY <1>1, <1>4, <2>1, SMT
  <2> QED
    BY <1>4, <1>6, <2>2, SMT
<1>8. d <= k => n < (k + 1) * s
  <2>1. SUFFICES ASSUME d <= k PROVE n < (k + 1) * s
    OBVIOUS
  <2>2. (d + 1) * s <= (k + 1) * s
    BY <1>2, <1>4, <2>1, SMT
  <2> QED
    BY <1>4, <1>6, <2>2, SMT
<1>9. n > k => n * s > k * s
  BY <1>1, SMT
<1>10. n <= k => n * s < (k + 1) * s
  BY <1>1, SMT
<1> QED
  BY <1>3, <1>4, <1>7, <1>8, <1>9, <1>10

\* The earlier expiry decides for both.
LEMMA UntilFacts ==
    ASSUME FilesAssumption, NEW f \in AuthFiles, NEW t, t \in Nat
    PROVE  /\ (\A e \in Until(f) : e > t + Margin) => FreshAt(f, t)
           /\ ~(\A e \in Until(f) : e > t + Margin) => ExpiredAt(f, t)
<1> DEFINE pi == IF f.source = "pi" THEN {f.expires} ELSE {}
           jwt == IF f.token.text = "jwt" THEN f.token.exp ELSE {}
           secs == IF f.source = "pi" THEN {f.expires \div Second} ELSE {}
           m == t + Margin
<1>1. /\ Margin \in Nat /\ Second \in Nat \ {0} /\ f.expires \in Nat /\ m \in Nat
      /\ f.token.exp = {} \/ \E n \in Nat : f.token.exp = {n}
  BY SMT DEF FilesAssumption
<1>2. f.expires \div Second \in Nat
  BY <1>1, SecondFacts
<1>3. jwt \in {{}} \cup {{n} : n \in Nat} /\ secs \in {{}} \cup {{n} : n \in Nat}
  BY <1>1, <1>2
<1>4. Session!jwt_hints(f.token).exp = jwt
  BY SMT DEF Session!jwt_hints
<1>5. Until(f) = {e \in secs \cup jwt : \A g \in secs \cup jwt : e <= g}
  BY <1>4 DEF Until, Session!Earlier
<1>6. Session!Expiries(f) = {e * Second : e \in jwt} \cup pi
  BY DEF Session!Expiries
<1>7. (\A e \in Until(f) : e > m) <=> (\A e \in secs \cup jwt : e > m)
  <2> HIDE DEF jwt, secs, m
  <2>1. PICK x : x = secs \cup jwt
    OBVIOUS
  <2>2. x = {} \/ (\E a \in Nat : x = {a}) \/ \E a, b \in Nat : x = {a, b} /\ a <= b
    <3>1. \A a, b \in Nat : a <= b \/ b <= a
      BY SMT
    <3>2. CASE jwt = {}
      BY <1>3, <2>1, <3>2
    <3>3. CASE secs = {}
      BY <1>3, <2>1, <3>3
    <3>4. ASSUME NEW a \in Nat, NEW b \in Nat, secs = {a}, jwt = {b}
          PROVE  \E c, d \in Nat : x = {c, d} /\ c <= d
      <4>1. x = {a, b} /\ x = {b, a}
        BY <2>1, <3>4
      <4> QED
        BY <3>1, <4>1
    <3> QED
      BY <1>3, <3>2, <3>3, <3>4
  <2>3. Until(f) = {e \in x : \A g \in x : e <= g}
    BY <1>5, <2>1
  <2>4. (\A e \in Until(f) : e > m) <=> (\A e \in x : e > m)
    BY <1>1, <2>2, <2>3, SMT
  <2> QED
    BY <2>1, <2>4
<1>8. ASSUME \A e \in Until(f) : e > m PROVE FreshAt(f, t)
  <2>1. \A e \in jwt : e * Second > m * Second
    BY <1>1, <1>3, <1>7, <1>8, SecondFacts
  <2>2. \A e \in pi : e > m * Second
    BY <1>1, <1>7, <1>8, SecondFacts
  <2> QED
    BY <1>6, <2>1, <2>2 DEF FreshAt
<1>9. ASSUME ~(\A e \in Until(f) : e > m) PROVE ExpiredAt(f, t)
  <2>1. PICK e \in secs \cup jwt : ~(e > m)
    BY <1>7, <1>9
  <2>2. e \in Nat /\ e <= m
    BY <1>1, <1>3, <2>1, SMT
  <2>3. CASE e \in jwt
    <3>1. e * Second < (m + 1) * Second
      BY <1>1, <2>2, SecondFacts
    <3> QED
      BY <1>6, <2>3, <3>1 DEF ExpiredAt
  <2>4. CASE e \in secs
    <3>1. pi = {f.expires} /\ e = f.expires \div Second
      BY <2>4
    <3>2. f.expires < (m + 1) * Second
      BY <1>1, <2>2, <3>1, SecondFacts
    <3> QED
      BY <1>6, <3>1, <3>2 DEF ExpiredAt
  <2> QED
    BY <2>1, <2>3, <2>4
<1> QED
  BY <1>8, <1>9

\* Credentials that a session holds are of a private file with a login.
Known(auth) ==
    /\ auth.of \in AuthFiles /\ auth.of.mode = "private" /\ auth.of.kind = "oauth"
    /\ auth.expires = Until(auth.of)

LEMMA LoadFacts ==
    ASSUME FilesAssumption, now \in Nat, NEW f \in AuthFiles, f.mode = "private",
           NEW l, l = Session!parse_credentials(f)
    PROVE  /\ l.error = "" => Known(l.auth) /\ l.auth.of = f /\ FreshAt(f, now)
           /\ l.error = "auth_expired" => ExpiredAt(f, now)
<1>1. CASE f.kind # "oauth"
  <2>1. l.error = "invalid_auth"
    BY <1>1, SMT DEF Session!parse_credentials, Session!Failure
  <2> QED
    BY <2>1
<1>2. CASE f.kind = "oauth"
  <2>1. PICK stated : stated = IF f.source = "pi" THEN {f.expires \div Second} ELSE {}
    OBVIOUS
  <2>2. l = Session!from_access_token(f, f.account, stated)
    BY <1>2, <2>1 DEF Session!parse_credentials
  <2>3. Until(f) = Session!Earlier(stated, Session!jwt_hints(f.token).exp)
    BY <2>1 DEF Until
  <2>4. PICK until : until = Until(f)
    OBVIOUS
  <2>5. PICK who : who = IF f.account # "" THEN f.account ELSE Session!jwt_hints(f.token).account
    OBVIOUS
  <2>6. \/ l = Session!Failure("invalid_auth")
        \/ l = Session!Failure("auth_expired") /\ ~Session!ensure_fresh(until)
        \/ /\ Session!ensure_fresh(until)
           /\ l = [error |-> "", auth |-> [account |-> who, expires |-> until, of |-> f]]
    BY <2>2, <2>3, <2>4, <2>5 DEF Session!from_access_token
  <2>7. Session!ensure_fresh(until) => FreshAt(f, now)
    BY <2>4, UntilFacts DEF Session!ensure_fresh
  <2>8. ~Session!ensure_fresh(until) => ExpiredAt(f, now)
    BY <2>4, UntilFacts DEF Session!ensure_fresh
  <2>9. CASE l = Session!Failure("invalid_auth")
    <3>1. l.error = "invalid_auth"
      BY <2>9, SMT DEF Session!Failure
    <3> QED
      BY <3>1
  <2>10. CASE l = Session!Failure("auth_expired") /\ ~Session!ensure_fresh(until)
    <3>1. l.error = "auth_expired"
      BY <2>10, SMT DEF Session!Failure
    <3> QED
      BY <2>8, <2>10, <3>1
  <2>11. CASE /\ Session!ensure_fresh(until)
              /\ l = [error |-> "", auth |-> [account |-> who, expires |-> until, of |-> f]]
    <3>1. l.error = "" /\ l.auth.expires = until /\ l.auth.of = f
      BY ONLY <2>11, Zenon
    <3> QED
      BY <1>2, <2>4, <2>7, <2>11, <3>1 DEF Known
  <2> QED
    BY <2>6, <2>9, <2>10, <2>11
<1> QED
  BY <1>1, <1>2

WireFields == {"transport", "pc", "auth", "file", "error", "erred"}

\* A session: what it holds once it is open and what it has read of a file, and the
\* file that its last failure is about.
WireInv(w) ==
    /\ DOMAIN w = WireFields
    /\ w.auth = Session!NoAuth \/ Known(w.auth)
    /\ w.pc = "opened" => Known(w.auth)
    /\ w.pc = "parse" => w.file \in AuthFiles /\ w.file.mode = "private"
    /\ w.pc \in {"look", "read", "parse"} => w.error # "auth_expired"
    /\ w.transport # "sse" =>
          IF w.pc = "opened" THEN w.file = Session!NoFile ELSE w.auth = Session!NoAuth
    /\ w.error = "auth_expired" =>
          ExpiredAt(IF w.file = Session!NoFile THEN w.auth.of ELSE w.file, w.erred)

\* What went to the provider.
Fit(u) == u.auth.account = u.account /\ Known(u.auth) /\ FreshAt(u.auth.of, u.at)

CredInv ==
    /\ now \in Nat /\ authFile \in AuthFiles
    /\ WireInv(wire)
    /\ \A u \in used : Fit(u)

LEMMA CredInvIsCurrent == CredInv => Session!CredentialsAreCurrent
BY DEF CredInv, WireInv, Fit, Known, FreshAt, ExpiredAt, Session!CredentialsAreCurrent

LEMMA CredStarts == Session!CredentialsInit => CredInv
<1> SUFFICES ASSUME Session!CredentialsInit PROVE CredInv
  OBVIOUS
<1>1. ASSUME NEW t, wire = Session!Closed(t) PROVE WireInv(wire)
  <2>1. /\ DOMAIN wire = WireFields /\ wire.auth = Session!NoAuth /\ wire.pc = "closed"
        /\ wire.error = ""
    BY <1>1 DEF WireFields, Session!Closed
  <2> QED
    BY <2>1 DEF WireInv
<1>2. 0 \in Nat
  BY SMT
<1> QED
  BY <1>1, <1>2 DEF CredInv, Session!CredentialsInit

\* A file that can be read is not the one for nothing.
LEMMA PrivateIsFile ==
    ASSUME NEW f, f.mode = "private"
    PROVE  f # Session!NoFile
<1>1. Session!NoFile.mode = "missing"
  BY DEF Session!NoFile
<1> QED
  BY <1>1

LEMMA CheckFacts ==
    ASSUME FilesAssumption, NEW f \in AuthFiles
    PROVE  /\ Session!check_file(f) = "ok" => f.mode = "private"
           /\ Session!check_file(f) # "auth_expired"
BY SMT DEF FilesAssumption, FileModes, Session!check_file

\* A load or a request that fails; an expiry is the one of the file just read, or of
\* the credentials of a socket.
LEMMA FailKeeps ==
    ASSUME CredInv, NEW error, Session!Fail(error),
           error = "auth_expired" =>
              ExpiredAt(IF wire.file = Session!NoFile THEN wire.auth.of ELSE wire.file, now)
    PROVE  WireInv(wire')
<1>1. WireInv(wire)
  BY DEF CredInv
<1>2. /\ DOMAIN wire' = WireFields /\ wire'.transport = wire.transport
      /\ wire'.auth = wire.auth /\ wire'.file = wire.file
      /\ wire'.error = error /\ wire'.erred = now
      /\ wire'.pc = IF wire.auth = Session!NoAuth THEN "closed" ELSE "opened"
  BY <1>1, SMT DEF WireInv, WireFields, Session!Fail, Session!Opening
<1>3. CASE wire.auth = Session!NoAuth
  BY <1>1, <1>2, <1>3 DEF WireInv
<1>4. CASE wire.auth # Session!NoAuth
  BY <1>1, <1>2, <1>4 DEF WireInv
<1> QED
  BY <1>3, <1>4

\* A load that begins.
LEMMA LoadsKeeps ==
    ASSUME CredInv, Session!Loads, wire.pc = "closed" \/ wire.transport = "sse"
    PROVE  WireInv(wire')
<1>1. WireInv(wire)
  BY DEF CredInv
<1>2. /\ DOMAIN wire' = WireFields /\ wire'.transport = wire.transport
      /\ wire'.auth = wire.auth /\ wire'.error = "" /\ wire'.pc = "look"
  BY <1>1, SMT DEF WireInv, WireFields, Session!Loads
<1> QED
  BY <1>1, <1>2 DEF WireInv

\* What is presented is fit for it.
LEMMA UsesFacts ==
    ASSUME CredInv, NEW auth, Session!Uses(auth, auth.account), Known(auth), FreshAt(auth.of, now)
    PROVE  \A u \in used' : Fit(u)
<1>1. PICK u : u = [auth |-> auth, at |-> now, account |-> auth.account]
  OBVIOUS
<1>2. u.auth = auth /\ u.at = now /\ u.account = auth.account
  BY <1>1, SMT
<1>3. Fit(u)
  BY <1>2 DEF Fit
<1> QED
  BY <1>1, <1>3 DEF CredInv, Session!Uses

LEMMA SendStep ==
    ASSUME FilesAssumption, CredInv, Session!Send
    PROVE  CredInv'
<1>1. WireInv(wire) /\ now \in Nat
  BY DEF CredInv
<1>2. wire.pc = "opened" /\ now' = now /\ authFile' = authFile
  BY DEF Session!Send
<1>3. Known(wire.auth)
  BY <1>1, <1>2 DEF WireInv
<1>4. CASE Session!Loads /\ used' = used /\ wire.transport = "sse"
  BY <1>2, <1>4, LoadsKeeps DEF CredInv
<1>5. CASE /\ wire' = wire /\ Session!ensure_fresh(wire.auth.expires)
           /\ Session!Uses(wire.auth, wire.auth.account)
  <2>1. FreshAt(wire.auth.of, now)
    BY <1>1, <1>3, <1>5, UntilFacts DEF Known, Session!ensure_fresh
  <2> QED
    BY <1>2, <1>3, <1>5, <2>1, UsesFacts DEF CredInv
<1>6. CASE /\ Session!Fail("auth_expired") /\ used' = used /\ wire.transport # "sse"
           /\ ~Session!ensure_fresh(wire.auth.expires)
  <2>1. ExpiredAt(wire.auth.of, now)
    BY <1>1, <1>3, <1>6, UntilFacts DEF Known, Session!ensure_fresh
  <2>2. wire.file = Session!NoFile
    BY <1>1, <1>2, <1>6 DEF WireInv
  <2>3. WireInv(wire')
    BY <1>6, <2>1, <2>2, FailKeeps
  <2> QED
    BY <1>2, <1>6, <2>3 DEF CredInv
<1> QED
  BY <1>4, <1>5, <1>6 DEF Session!Send

LEMMA LookStep ==
    ASSUME FilesAssumption, CredInv, Session!Look \/ Session!OpenFile
    PROVE  CredInv'
<1>1. WireInv(wire) /\ authFile \in AuthFiles
  BY DEF CredInv
<1>2. /\ now' = now /\ authFile' = authFile /\ used' = used
      /\ wire.pc \in {"look", "read"}
  BY DEF Session!Look, Session!OpenFile
<1>3. ASSUME NEW error, Session!Fail(error), error # "auth_expired" PROVE WireInv(wire')
  BY <1>3, FailKeeps
<1>4. Session!check_file(authFile) # "auth_expired"
  BY <1>1, CheckFacts
<1>5. CASE wire' = [wire EXCEPT !.pc = "read"]
  <2>1. /\ DOMAIN wire' = WireFields /\ wire'.transport = wire.transport /\ wire'.pc = "read"
        /\ wire'.auth = wire.auth /\ wire'.error = wire.error
    BY <1>1, <1>5, SMT DEF WireInv, WireFields
  <2> QED
    BY <1>1, <1>2, <2>1 DEF WireInv, CredInv
<1>6. CASE /\ wire' = [wire EXCEPT !.pc = "parse", !.file = authFile]
           /\ Session!check_file(authFile) = "ok"
  <2>1. /\ DOMAIN wire' = WireFields /\ wire'.transport = wire.transport /\ wire'.pc = "parse"
        /\ wire'.auth = wire.auth /\ wire'.error = wire.error /\ wire'.file = authFile
    BY <1>1, <1>6, SMT DEF WireInv, WireFields
  <2>2. authFile.mode = "private"
    BY <1>1, <1>6, CheckFacts
  <2> QED
    BY <1>1, <1>2, <2>1, <2>2 DEF WireInv, CredInv
<1>7. CASE WireInv(wire')
  BY <1>2, <1>7 DEF CredInv
<1>8. CASE Session!Look
  BY <1>3, <1>4, <1>5, <1>7, <1>8 DEF Session!Look
<1>9. CASE Session!OpenFile
  BY <1>3, <1>4, <1>6, <1>7, <1>9 DEF Session!OpenFile
<1> QED
  BY <1>8, <1>9

LEMMA LoadStep ==
    ASSUME FilesAssumption, CredInv, Session!Load
    PROVE  CredInv'
<1>1. WireInv(wire) /\ now \in Nat /\ wire.pc = "parse" /\ now' = now /\ authFile' = authFile
  BY DEF CredInv, Session!Load
<1>2. wire.file \in AuthFiles /\ wire.file.mode = "private" /\ wire.error # "auth_expired"
  BY <1>1 DEF WireInv
<1>3. PICK l : l = Session!parse_credentials(wire.file)
  OBVIOUS
<1>4. /\ l.error = "" => Known(l.auth) /\ l.auth.of = wire.file /\ FreshAt(wire.file, now)
      /\ l.error = "auth_expired" => ExpiredAt(wire.file, now)
  BY <1>1, <1>2, <1>3, LoadFacts
<1>5. wire.file # Session!NoFile
  BY <1>2, PrivateIsFile
<1>6. CASE Session!Fail(l.error) /\ used' = used
  <2>1. WireInv(wire')
    BY <1>4, <1>5, <1>6, FailKeeps
  <2> QED
    BY <1>1, <1>6, <2>1 DEF CredInv
<1>7. CASE l.error = "" /\ Session!Opening /\ Session!Opened(l.auth)
  <2>1. used' = used \/ Session!Uses(l.auth, l.auth.account)
    BY <1>7 DEF Session!Opened
  <2>2. \A u \in used' : Fit(u)
    BY <1>4, <1>7, <2>1, UsesFacts DEF CredInv
  <2>3. \/ wire' = [wire EXCEPT !.pc = "opened", !.auth = l.auth, !.file = Session!NoFile]
        \/ Session!Fail("connect")
    BY <1>7 DEF Session!Opened
  <2>4. CASE wire' = [wire EXCEPT !.pc = "opened", !.auth = l.auth, !.file = Session!NoFile]
    <3>1. /\ DOMAIN wire' = WireFields /\ wire'.transport = wire.transport /\ wire'.pc = "opened"
          /\ wire'.auth = l.auth /\ wire'.error = wire.error /\ wire'.file = Session!NoFile
      BY <1>1, <2>4, SMT DEF WireInv, WireFields
    <3>2. WireInv(wire')
      BY <1>2, <1>4, <1>7, <3>1 DEF WireInv
    <3> QED
      BY <1>1, <2>2, <3>2 DEF CredInv
  <2>5. CASE Session!Fail("connect")
    <3>1. WireInv(wire')
      BY <2>5, FailKeeps
    <3> QED
      BY <1>1, <2>2, <3>1 DEF CredInv
  <2> QED
    BY <2>3, <2>4, <2>5
<1>8. CASE l.error = "" /\ ~Session!Opening /\ Session!Request(l.auth)
  <2>1. CASE Session!Fail("auth_account_changed") /\ used' = used
    <3>1. WireInv(wire')
      BY <2>1, FailKeeps
    <3> QED
      BY <1>1, <2>1, <3>1 DEF CredInv
  <2>2. CASE /\ l.auth.account = wire.auth.account /\ Session!Uses(l.auth, wire.auth.account)
             /\ wire' = [wire EXCEPT !.pc = "opened", !.file = Session!NoFile]
    <3>1. /\ DOMAIN wire' = WireFields /\ wire'.transport = wire.transport /\ wire'.pc = "opened"
          /\ wire'.auth = wire.auth /\ wire'.error = wire.error /\ wire'.file = Session!NoFile
      BY <1>1, <2>2, SMT DEF WireInv, WireFields
    <3>2. Known(wire.auth)
      BY <1>1, <1>8 DEF WireInv, Session!Opening
    <3>3. WireInv(wire')
      BY <1>2, <3>1, <3>2 DEF WireInv
    <3>4. \A u \in used' : Fit(u)
      BY <1>4, <1>8, <2>2, UsesFacts
    <3> QED
      BY <1>1, <3>3, <3>4 DEF CredInv
  <2> QED
    BY <1>8, <2>1, <2>2 DEF Session!Request
<1> QED
  BY <1>3, <1>6, <1>7, <1>8 DEF Session!Load

LEMMA CredStep ==
    ASSUME FilesAssumption, CredInv,
           [Session!CredentialsNext]_<<now, authFile, rewrites, wire, used>>
    PROVE  CredInv'
<1>1. CASE Session!Open
  <2>1. Session!Loads /\ wire.pc = "closed" /\ now' = now /\ authFile' = authFile /\ used' = used
    BY <1>1 DEF Session!Open
  <2>2. WireInv(wire')
    BY <2>1, LoadsKeeps
  <2> QED
    BY <2>1, <2>2 DEF CredInv
<1>2. CASE Session!Rewrite
  BY <1>2 DEF Session!Rewrite, CredInv
<1>3. CASE Session!Tick
  <2>1. now' \in Nat
    BY <1>3, SMT DEF Session!Tick, CredInv
  <2> QED
    BY <1>3, <2>1 DEF Session!Tick, CredInv
<1>4. CASE UNCHANGED <<now, authFile, rewrites, wire, used>>
  BY <1>4 DEF CredInv
<1> QED
  BY <1>1, <1>2, <1>3, <1>4, SendStep, LookStep, LoadStep DEF Session!CredentialsNext

\* Whenever the other program rewrites its file, between any two steps of a load too,
\* a session presents only credentials of the account that it was opened with, from a
\* private file with a subscription login, with no stated expiry within the margin; and
\* one that is told of an expiry was given one (load, from_access_token, ensure_fresh,
\* Wire::open, Wire::send).
THEOREM CredentialsCurrent ==
    ASSUME FilesAssumption
    PROVE  Session!CredentialsSpec => []Session!CredentialsAreCurrent
<1>1. Session!CredentialsInit => CredInv
  BY CredStarts
<1>2. CredInv /\ [Session!CredentialsNext]_<<now, authFile, rewrites, wire, used>> => CredInv'
  BY CredStep
<1>3. CredInv => Session!CredentialsAreCurrent
  BY CredInvIsCurrent
<1> QED
  BY <1>1, <1>2, <1>3, PTL DEF Session!CredentialsSpec
=============================================================================
