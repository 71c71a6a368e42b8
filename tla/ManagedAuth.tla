----------------------------- MODULE ManagedAuth -----------------------------
(* The profile store of managed credentials: login, logout, selection and the *)
(* guarded renewal of refresh tokens that the provider accepts only once      *)
(* (providers/openai_codex/managed_auth.rs, managed_store.rs, refresh.rs).    *)
(*                                                                            *)
(* An agent is a task of some process that works on the store.  The directory *)
(* has a visible state and the state of its last sync: after a power loss     *)
(* each entry is in one or the other.  A refresh token is the number of its   *)
(* issue; the incarnation of a profile is the number of its first token.      *)
EXTENDS Naturals, Sequences

CONSTANTS
    Agents,      \* tasks of all processes that share the store
    Names,       \* local profile names
    MaxTokens,   \* refresh tokens that the provider issues
    MaxCrashes,  \* of one process
    MaxLosses,   \* of power
    None

ASSUME AuthAssumption ==
    /\ MaxTokens \in Nat /\ MaxCrashes \in Nat /\ MaxLosses \in Nat
    /\ None \notin Agents

VARIABLES
    doc,         \* the visible document: profiles by name
    guards,      \* visible rotation guards, by incarnation
    stable,      \* document and guards of the last directory sync
    lock,        \* holder of update.lock, or None
    task,        \* what every agent does
    live,        \* refresh tokens that the provider will accept
    issued,      \* the last refresh token
    expired,     \* tokens whose access token has expired
    submitted,   \* how often each refresh token was sent
    gone,        \* incarnations whose removal was acknowledged
    crashes, losses

files == <<doc, guards, stable>>
provider == <<live, issued, submitted>>
vars == <<files, lock, task, provider, expired, gone, crashes, losses>>

Tokens == 1..MaxTokens
NoProfile == [incarnation |-> 0, refresh |-> 0, reauth |-> FALSE]
Profile == [incarnation : Tokens, refresh : Tokens, reauth : BOOLEAN] \cup {NoProfile}
Document == [Names -> Profile]

\* force: renew whatever the expiry, or replace an existing login.
\* An agent keeps the incarnation that it selected, the copy of the document that
\* it will write, the token that it submits or has received, the incarnation that
\* the copy no longer holds, and those whose guards it removes last.
Idle == [pc |-> "idle", op |-> "none", name |-> None, force |-> FALSE,
         source |-> 0, copy |-> [n \in Names |-> NoProfile], token |-> 0,
         removed |-> 0, finish |-> <<>>]

TypeOK ==
    /\ doc \in Document
    /\ guards \subseteq Tokens
    /\ stable.doc \in Document /\ stable.guards \subseteq Tokens
    /\ lock \in Agents \cup {None}
    /\ \A a \in Agents :
         LET t == task[a] IN
         /\ t.pc \in {"idle", "bound", "wait", "authorize", "enter", "guard", "flush",
                      "exchange", "answer", "write", "sync", "finish"}
         /\ t.op \in {"none", "renew", "login", "logout"}
         /\ t.name \in Names \cup {None}
         /\ t.source \in 0..MaxTokens /\ t.token \in 0..MaxTokens
         /\ t.copy \in Document /\ t.removed \in 0..MaxTokens
         /\ lock = a <=> t.pc \in {"guard", "flush", "exchange", "answer", "write",
                                   "sync", "finish"}
    /\ live \subseteq 1..issued /\ issued \in 0..MaxTokens
    /\ expired \subseteq 1..issued
    /\ submitted \in [Tokens -> Nat]
    /\ gone \subseteq Tokens
    /\ crashes \in 0..MaxCrashes /\ losses \in 0..MaxLosses

Init ==
    /\ doc = [n \in Names |-> NoProfile] /\ guards = {}
    /\ stable = [doc |-> doc, guards |-> guards]
    /\ lock = None
    /\ task = [a \in Agents |-> Idle]
    /\ live = {} /\ issued = 0 /\ submitted = [t \in Tokens |-> 0]
    /\ expired = {} /\ gone = {}
    /\ crashes = 0 /\ losses = 0

-----------------------------------------------------------------------------
Present(d, n) == d[n] # NoProfile

\* LockedStore::read: a profile with a guard requires a new login.
Read == [n \in Names |->
            IF Present(doc, n) /\ doc[n].incarnation \in guards
              THEN [doc[n] EXCEPT !.reauth = TRUE] ELSE doc[n]]

Usable(n) == Present(Read, n) /\ ~Read[n].reauth

\* ManagedCredentials::bound: the selected incarnation is there and usable.
Bound(a) == Read[task[a].name].incarnation = task[a].source /\ Usable(task[a].name)

Becomes(a, t) == task' = [task EXCEPT ![a] = t]
Goes(a, where) == task' = [task EXCEPT ![a].pc = where]

\* An operation that ends keeps the selection of its agent, if it made one.
Ended(a) == IF task[a].source = 0 THEN Idle
            ELSE [Idle EXCEPT !.pc = "bound", !.name = task[a].name,
                              !.source = task[a].source]

\* The exclusive lock of the stable file update.lock.
Acquire(a) == lock = None /\ lock' = a

\* The lock is dropped with the store handle of its holder.
Released(a) == IF lock = a THEN None ELSE lock

-----------------------------------------------------------------------------
(* Selection and renewal.                                                     *)

Select(a, n) ==
    /\ task[a].pc = "idle" /\ lock = None
    /\ Usable(n)
    /\ Becomes(a, [Idle EXCEPT !.pc = "bound", !.name = n,
                               !.source = Read[n].incarnation])
    /\ UNCHANGED <<files, lock, provider, expired, gone, crashes, losses>>

Deselect(a) ==
    /\ task[a].pc = "bound"
    /\ Becomes(a, Idle)
    /\ UNCHANGED <<files, lock, provider, expired, gone, crashes, losses>>

\* The access token has expired, or the renewal was asked for.
Due(a) == task[a].force \/ Read[task[a].name].refresh \in expired

\* The first look, without keeping the lock: nothing to do, or wait for the lock.
Prepare(a, force) ==
    /\ task[a].pc = "bound" /\ lock = None
    /\ Bound(a)
    /\ force \/ Read[task[a].name].refresh \in expired
    /\ Becomes(a, [task[a] EXCEPT !.pc = "wait", !.op = "renew", !.force = force])
    /\ UNCHANGED <<files, lock, provider, expired, gone, crashes, losses>>

EnterRenewal(a) ==
    /\ task[a].pc = "wait" /\ Acquire(a)
    /\ Bound(a) /\ Due(a)
    /\ Becomes(a, [task[a] EXCEPT !.pc = "guard", !.copy = Read,
                                  !.token = Read[task[a].name].refresh])
    /\ UNCHANGED <<files, provider, expired, gone, crashes, losses>>

\* Another agent has renewed or replaced the profile in the meantime.
RenewalNotDue(a) ==
    /\ task[a].pc = "wait" /\ lock = None
    /\ ~(Bound(a) /\ Due(a))
    /\ Becomes(a, Ended(a))
    /\ UNCHANGED <<files, lock, provider, expired, gone, crashes, losses>>

\* Fault: a login guards the profile that it is to replace.
GuardedPrevious(a) ==
    IF Present(doc, task[a].name) THEN doc[task[a].name].incarnation ELSE task[a].token

\* A renewal guards its profile, a login only the candidate.
Guarded(a) == IF task[a].op = "renew" THEN task[a].source ELSE task[a].token

\* The guard is a new file; an existing one ends the operation with an error.
Guard(a) ==
    /\ task[a].pc = "guard"
    /\ Guarded(a) \notin guards
    /\ guards' = guards \cup {Guarded(a)}
    /\ Goes(a, "flush")
    /\ UNCHANGED <<doc, stable, lock, provider, expired, gone, crashes, losses>>

\* Fault: the guard is not synced before the token is sent.
FlushedLater == stable

\* A directory sync makes every entry durable.
Flushed == [doc |-> doc, guards |-> guards]

Flush(a) ==
    /\ task[a].pc = "flush"
    /\ stable' = Flushed
    /\ Goes(a, IF task[a].op = "renew" THEN "exchange" ELSE "write")
    /\ UNCHANGED <<doc, guards, lock, provider, expired, gone, crashes, losses>>

\* Fault: a submission without an answer is repeated.
AnsweredLate(a) == task[a]

\* The response to the one submission: the next token, or a refusal.
Answered(a) == [task[a] EXCEPT !.pc = "answer",
                               !.token = IF @ \in live THEN issued + 1 ELSE 0]

\* The provider takes the token, if it is live, and issues the next one.
Exchange(a) ==
    LET t == task[a].token IN
    /\ task[a].pc = "exchange"
    /\ issued < MaxTokens
    /\ submitted' = [submitted EXCEPT ![t] = @ + 1]
    /\ IF t \in live
         THEN /\ issued' = issued + 1
              /\ live' = (live \ {t}) \cup {issued + 1}
         ELSE UNCHANGED <<issued, live>>
    /\ Becomes(a, Answered(a))
    /\ UNCHANGED <<files, lock, expired, gone, crashes, losses>>

\* The answer arrives in time and names the same account.
Rotate(a) ==
    /\ task[a].pc = "answer" /\ task[a].token # 0
    /\ Becomes(a, [task[a] EXCEPT
           !.pc = "write", !.finish = <<task[a].source>>,
           !.copy[task[a].name] = [incarnation |-> task[a].source,
                                   refresh |-> task[a].token, reauth |-> FALSE]])
    /\ UNCHANGED <<files, lock, provider, expired, gone, crashes, losses>>

-----------------------------------------------------------------------------
(* Login and logout.                                                          *)

\* preflight_login, before the browser is asked.
Login(a, n, replace) ==
    /\ task[a].pc = "idle" /\ lock = None
    /\ Present(doc, n) => replace
    /\ Becomes(a, [Idle EXCEPT !.pc = "authorize", !.op = "login", !.name = n,
                               !.force = replace])
    /\ UNCHANGED <<files, lock, provider, expired, gone, crashes, losses>>

\* The browser returns with tokens of a new authorization.
Authorize(a) ==
    /\ task[a].pc = "authorize" /\ issued < MaxTokens
    /\ issued' = issued + 1 /\ live' = live \cup {issued + 1}
    /\ Becomes(a, [task[a] EXCEPT !.pc = "enter", !.token = issued + 1])
    /\ UNCHANGED <<files, lock, submitted, expired, gone, crashes, losses>>

\* login_before: the document may have changed since the preflight.
EnterLogin(a) ==
    LET t == task[a]
        new == [incarnation |-> t.token, refresh |-> t.token, reauth |-> FALSE]
        old == doc[t.name] IN
    /\ t.pc = "enter" /\ Acquire(a)
    /\ Present(doc, t.name) => t.force
    /\ Becomes(a, [t EXCEPT !.pc = "guard", !.copy = [Read EXCEPT ![t.name] = new],
                   !.removed = old.incarnation,
                   !.finish = IF Present(doc, t.name)
                                THEN <<t.token, old.incarnation>> ELSE <<t.token>>])
    /\ UNCHANGED <<files, provider, expired, gone, crashes, losses>>

Logout(a, n) ==
    /\ task[a].pc = "idle" /\ Acquire(a)
    /\ Present(doc, n)
    /\ Becomes(a, [Idle EXCEPT !.pc = "write", !.op = "logout", !.name = n,
                               !.copy = [Read EXCEPT ![n] = NoProfile],
                               !.removed = doc[n].incarnation,
                               !.finish = <<doc[n].incarnation>>])
    /\ UNCHANGED <<files, provider, expired, gone, crashes, losses>>

-----------------------------------------------------------------------------
(* LockedStore::write and finish_guard.                                       *)

\* The synced temporary file takes the document's name.
Write(a) ==
    /\ task[a].pc = "write"
    /\ doc' = task[a].copy
    /\ Goes(a, "sync")
    /\ UNCHANGED <<guards, stable, lock, provider, expired, gone, crashes, losses>>

Sync(a) ==
    /\ task[a].pc = "sync"
    /\ stable' = [doc |-> doc, guards |-> guards]
    /\ Goes(a, "finish")
    /\ UNCHANGED <<doc, guards, lock, provider, expired, gone, crashes, losses>>

\* The removal of a guard, and its sync, may each fail without an error.
FinishGuard(a, removed, synced) ==
    LET left == IF removed THEN guards \ {Head(task[a].finish)} ELSE guards IN
    /\ task[a].pc = "finish" /\ task[a].finish # <<>>
    /\ synced => removed
    /\ guards' = left
    /\ stable' = IF synced THEN [doc |-> doc, guards |-> left] ELSE stable
    /\ task' = [task EXCEPT ![a].finish = Tail(@)]
    /\ UNCHANGED <<doc, lock, provider, expired, gone, crashes, losses>>

\* The operation returns; a logout or a replacement has removed an incarnation.
Acknowledge(a) ==
    /\ task[a].pc = "finish" /\ task[a].finish = <<>>
    /\ gone' = gone \cup ({task[a].removed} \ {0})
    /\ lock' = None
    /\ Becomes(a, Ended(a))
    /\ UNCHANGED <<files, provider, expired, crashes, losses>>

\* An error before the document is durable ends the operation where it is.
Fail(a) ==
    /\ task[a].pc \in {"authorize", "enter", "guard", "flush", "exchange", "answer",
                       "write", "sync"}
    /\ lock' = Released(a)
    /\ Becomes(a, Ended(a))
    /\ UNCHANGED <<files, provider, expired, gone, crashes, losses>>

-----------------------------------------------------------------------------
(* The surroundings.                                                          *)

Expire(t) ==
    /\ t \in (1..issued) \ expired
    /\ expired' = expired \cup {t}
    /\ UNCHANGED <<files, lock, task, provider, gone, crashes, losses>>

\* The process of an agent ends; its lock goes with it.
Crash(a) ==
    /\ crashes < MaxCrashes /\ task[a].pc # "idle"
    /\ crashes' = crashes + 1
    /\ lock' = Released(a)
    /\ Becomes(a, Idle)
    /\ UNCHANGED <<files, provider, expired, gone, losses>>

\* Entries that were not synced are as they were or as they are.
PowerLoss(d, g) ==
    /\ losses < MaxLosses
    /\ losses' = losses + 1
    /\ d \in {doc, stable.doc}
    /\ (guards \cap stable.guards) \subseteq g /\ g \subseteq (guards \cup stable.guards)
    /\ doc' = d /\ guards' = g /\ stable' = [doc |-> d, guards |-> g]
    /\ lock' = None
    /\ task' = [a \in Agents |-> Idle]
    /\ UNCHANGED <<provider, expired, gone, crashes>>

-----------------------------------------------------------------------------
Step(a) ==
    \/ EnterRenewal(a) \/ RenewalNotDue(a) \/ Guard(a) \/ Flush(a) \/ Exchange(a)
    \/ Rotate(a) \/ Authorize(a) \/ EnterLogin(a) \/ Write(a) \/ Sync(a)
    \/ \E removed, synced \in BOOLEAN : FinishGuard(a, removed, synced)
    \/ Acknowledge(a) \/ Fail(a)

Begin(a) ==
    \/ \E n \in Names : Select(a, n) \/ Logout(a, n)
    \/ \E n \in Names, replace \in BOOLEAN : Login(a, n, replace)
    \/ \E force \in BOOLEAN : Prepare(a, force)
    \/ Deselect(a)

Next ==
    \/ \E a \in Agents : Begin(a) \/ Step(a) \/ Crash(a)
    \/ \E t \in Tokens : Expire(t)
    \/ \E d \in {doc, stable.doc}, g \in SUBSET (guards \cup stable.guards) : PowerLoss(d, g)

Spec == Init /\ [][Next]_vars

-----------------------------------------------------------------------------
(* Properties.                                                                *)

\* A profile that the store offers as logged in holds a refresh token that the
\* provider still accepts, after any crash, power loss, lost answer or failed
\* write: the durable guard precedes the exchange and outlives the document
\* (managed_auth.rs:228-252).
UsableIsLive == \A n \in Names : Usable(n) => Read[n].refresh \in live

\* No refresh token is sent to the provider twice, by whichever agents and
\* processes, with whatever failures between the two (refresh.rs, prepare); of
\* several agents that found the access token expired and wait for the lock, only
\* the first renews it (managed_auth.rs:224).
RefreshOnce ==
    /\ \A t \in Tokens : submitted[t] <= 1
    /\ \A a \in Agents :
         task[a].pc = "exchange" /\ ~task[a].force => task[a].token \in expired

\* A profile whose logout or replacement was acknowledged does not return: not by
\* a renewal that began before, and not by a power loss (logout, login_before and
\* the check of the incarnation under the lock).
RemovedStaysRemoved ==
    \A n \in Names : Present(doc, n) => doc[n].incarnation \notin gone

\* Profiles come and go only with the operation that is acknowledged: a removed
\* one stays removed, and a login that is under way, or fails, disables the old
\* one only when its document takes the place of the old (managed_auth.rs:161).
ProfilesAreKept ==
    [][/\ RemovedStaysRemoved'
       /\ \A n \in Names : Usable(n) /\ ~Usable(n)' =>
            \/ losses' # losses
            \/ \E a \in Agents :
                  \/ task[a].pc = "write" /\ lock = a
                  \/ task[a].pc = "guard" /\ task[a].op = "renew" /\ task[a].name = n]_vars
==============================================================================
