---------------------------- MODULE BrowserLogin ----------------------------
(***************************************************************************)
(* A login through the browser (providers/openai_codex/browser_login.rs):  *)
(* the page of the provider redirects the browser to a listener on a fixed *)
(* port, the code that it brings is exchanged once, and the profile takes  *)
(* its place in the store.  Several logins of one profile run at a time;   *)
(* the page of a login that has ended is still there and may redirect to   *)
(* the listener of another one.  A caller that stops waiting changes       *)
(* nothing: the worker owns the login.                                     *)
(***************************************************************************)
EXTENDS Naturals, Sequences

CONSTANTS Logins,        \* positive numbers
          MaxCallbacks   \* requests that reach a listener

VARIABLES login,         \* what every login does
          port,          \* the login that listens on the port, or 0
          queue,         \* requests that wait at the listener
          callbacks,     \* requests so far
          tabs,          \* logins whose page is open in the browser
          store,         \* profile and whether it needs a new login, lock, past writes
          pages          \* logins whose page says that the login is complete

loginVars == <<login, port, queue, callbacks, tabs, store, pages>>

Request(state, code, error, description, issuer, plain) ==
    [state |-> state, code |-> code, error |-> error, description |-> description,
     issuer |-> issuer, plain |-> plain]

\* A request that is malformed, or one whose parts cannot be decoded.
NoRequest == Request(0, 0, FALSE, FALSE, TRUE, FALSE)
Granted(l) == Request(l, l, FALSE, FALSE, TRUE, TRUE)

LoginInit ==
    /\ login = [l \in Logins |-> [pc |-> "new", replace |-> FALSE, late |-> FALSE,
                                  request |-> NoRequest, sent |-> <<>>, result |-> "none"]]
    /\ port = 0 /\ queue = <<>> /\ callbacks = 0 /\ tabs = {} /\ pages = {}
    /\ store = [profile |-> 0, reauth |-> FALSE, lock |-> 0, log |-> <<>>]

Goes(l, where) == login' = [login EXCEPT ![l].pc = where]

\* The listener is dropped with the login that holds it, and what waits there.
Drops(l) == /\ port' = IF port = l THEN 0 ELSE port
            /\ queue' = IF port = l THEN <<>> ELSE queue

Unlocked(l) == [store EXCEPT !.lock = IF @ = l THEN 0 ELSE @]

Ends(l, result, stored) ==
    /\ login' = [login EXCEPT ![l].pc = "ended", ![l].result = result]
    /\ Drops(l)
    /\ store' = stored

-----------------------------------------------------------------------------
Exists(l) == store.profile # 0 /\ ~login[l].replace

\* run, preflight_login: the store is looked at before anything is opened.
Preflight(l, replace) ==
    /\ login[l].pc = "new" /\ store.lock = 0
    /\ IF store.profile # 0 /\ ~replace THEN Ends(l, "exists", store)
       ELSE /\ login' = [login EXCEPT ![l].pc = "bind", ![l].replace = replace]
            /\ UNCHANGED <<port, queue, store>>
    /\ UNCHANGED <<callbacks, tabs, pages>>

\* No other port is tried when this one is taken.
bind(l) ==
    /\ login[l].pc = "bind"
    /\ IF port # 0 THEN Ends(l, "port", store)
       ELSE port' = l /\ Goes(l, "launch") /\ UNCHANGED <<queue, store>>
    /\ UNCHANGED <<callbacks, tabs, pages>>

\* The launcher fails or is too slow, perhaps after it has opened the page.
launch(l, opened, ok) ==
    /\ login[l].pc = "launch"
    /\ tabs' = IF opened THEN tabs \cup {l} ELSE tabs
    /\ IF ok THEN Goes(l, "accept") /\ UNCHANGED <<port, queue, store>>
       ELSE Ends(l, "launcher", store)
    /\ UNCHANGED <<callbacks, pages>>

\* What a page redirects to: with a code, a refusal, or a mixture of both; and
\* whatever else asks the port.
Redirects ==
    {NoRequest} \cup
      UNION {{Granted(l), Request(l, 0, TRUE, TRUE, TRUE, TRUE), Request(l, l, TRUE, FALSE, TRUE, TRUE),
              Request(l, l, FALSE, TRUE, TRUE, TRUE), Request(l, l, FALSE, FALSE, FALSE, TRUE),
              Request(l, 0, FALSE, FALSE, TRUE, TRUE)} : l \in tabs}

Redirect(request) ==
    /\ port # 0 /\ callbacks < MaxCallbacks
    /\ request \in Redirects
    /\ queue' = Append(queue, request)
    /\ callbacks' = callbacks + 1
    /\ UNCHANGED <<login, port, tabs, store, pages>>

\* The listener is gone after the first request, with those that wait there.
accept(l) ==
    /\ login[l].pc = "accept" /\ queue # <<>>
    /\ login' = [login EXCEPT ![l].pc = "receive", ![l].request = Head(queue)]
    /\ Drops(l)
    /\ UNCHANGED <<callbacks, tabs, store, pages>>

\* Fault: the state of the request is not looked at.
AnyState(l, request) == TRUE

StateMatches(l, request) == request.state = l

callback(l, request) ==
    IF ~request.plain \/ ~StateMatches(l, request) \/ ~request.issuer THEN "failed"
    ELSE IF request.error THEN (IF request.code # 0 THEN "failed" ELSE "denied")
    ELSE IF request.description \/ request.code = 0 THEN "failed"
    ELSE "ok"

receive(l) ==
    LET verdict == callback(l, login[l].request)
    IN  /\ login[l].pc = "receive"
        /\ IF verdict # "ok" THEN Ends(l, verdict, store)
           ELSE Goes(l, "exchange") /\ UNCHANGED <<port, queue, store>>
        /\ UNCHANGED <<callbacks, tabs, pages>>

\* What becomes of the exchange: tokens of which token_profile makes a profile, an
\* error or other tokens, or nothing in time.
Answers == {"ok", "failed", "expired"}

\* The code is sent once, with the verifier of this login; the provider takes it
\* when it is that of the page.
exchange(l, answer) ==
    /\ login[l].pc = "exchange"
    /\ answer = "ok" => login[l].request.code = l
    /\ login' = [login EXCEPT ![l].sent = Append(@, login[l].request.code),
                              ![l].pc = IF answer = "ok" THEN "store" ELSE "ended",
                              ![l].result = IF answer = "ok" THEN @ ELSE answer]
    /\ UNCHANGED <<port, queue, callbacks, tabs, store, pages>>

\* login_before: the profile and the deadline are looked at again with the lock,
\* and the candidate is guarded, which may fail.
login_before(l, guarded) ==
    /\ login[l].pc = "store" /\ store.lock = 0
    /\ IF login[l].late THEN Ends(l, "expired", store)
       ELSE IF Exists(l) THEN Ends(l, "exists", store)
       ELSE IF ~guarded THEN Ends(l, "failed", store)
       ELSE store' = [store EXCEPT !.lock = l] /\ Goes(l, "write") /\ UNCHANGED <<port, queue>>
    /\ UNCHANGED <<callbacks, tabs, pages>>

\* Fault: the profile takes its place with no guard.
StoredUnguarded(l) == [store EXCEPT !.profile = l, !.reauth = FALSE, !.log = Append(@, l)]

Stored(l) == [store EXCEPT !.profile = l, !.reauth = TRUE, !.log = Append(@, l)]

\* A write fails before or after the profile has taken its place, with its guard.
write(l, replaced, ok) ==
    /\ login[l].pc = "write"
    /\ IF login[l].late THEN Ends(l, "expired", Unlocked(l))
       ELSE /\ ok => replaced
            /\ IF ok THEN store' = Stored(l) /\ Goes(l, "finish") /\ UNCHANGED <<port, queue>>
               ELSE Ends(l, "failed", [(IF replaced THEN Stored(l) ELSE store) EXCEPT !.lock = 0])
    /\ UNCHANGED <<callbacks, tabs, pages>>

\* The guard of the new profile is removed, if it can be.
finish_guard(l, removed) ==
    /\ login[l].pc = "finish"
    /\ Goes(l, "reread")
    /\ store' = [store EXCEPT !.reauth = ~removed]
    /\ UNCHANGED <<port, queue, callbacks, tabs, pages>>

\* Whether the profile can be used is what the store says, if it can be read.
reread(l, readable) ==
    /\ login[l].pc = "reread"
    /\ login' = [login EXCEPT ![l].pc = "tell",
                              ![l].result = IF readable /\ ~store.reauth THEN "ok" ELSE "ineligible"]
    /\ store' = [store EXCEPT !.lock = 0]
    /\ UNCHANGED <<port, queue, callbacks, tabs, pages>>

\* The page is told, if it is there in time; then the caller.
tell(l, told) ==
    /\ login[l].pc = "tell"
    /\ told => l \in tabs
    /\ Goes(l, "return")
    /\ pages' = IF told THEN pages \cup {l} ELSE pages
    /\ UNCHANGED <<port, queue, callbacks, tabs, store>>

Return(l) ==
    /\ login[l].pc = "return"
    /\ Ends(l, login[l].result, store)
    /\ UNCHANGED <<callbacks, tabs, pages>>

\* The deadline passes; it interrupts whatever the login waits for.
Deadline(l) ==
    /\ login[l].pc \notin {"new", "ended"} /\ ~login[l].late
    /\ login' = [login EXCEPT ![l].late = TRUE]
    /\ UNCHANGED <<port, queue, callbacks, tabs, store, pages>>

Expire(l) ==
    /\ login[l].late /\ login[l].pc \in {"bind", "launch", "accept", "receive", "exchange"}
    /\ Ends(l, "expired", store)
    /\ UNCHANGED <<callbacks, tabs, pages>>

Crash(l) ==
    /\ login[l].pc \notin {"new", "ended"}
    /\ Ends(l, "crashed", Unlocked(l))
    /\ UNCHANGED <<callbacks, tabs, pages>>

LoginNext ==
    \/ \E l \in Logins :
         \/ \E replace \in BOOLEAN : Preflight(l, replace)
         \/ bind(l) \/ accept(l) \/ receive(l) \/ Return(l) \/ Deadline(l) \/ Expire(l) \/ Crash(l)
         \/ \E opened, ok \in BOOLEAN : launch(l, opened, ok)
         \/ \E answer \in Answers : exchange(l, answer)
         \/ \E guarded \in BOOLEAN : login_before(l, guarded)
         \/ \E replaced, ok \in BOOLEAN : write(l, replaced, ok)
         \/ \E removed \in BOOLEAN : finish_guard(l, removed)
         \/ \E readable \in BOOLEAN : reread(l, readable)
         \/ \E told \in BOOLEAN : tell(l, told)
    \/ \E request \in Redirects : Redirect(request)

LoginSpec == LoginInit /\ [][LoginNext]_loginVars

-----------------------------------------------------------------------------
\* What a login is told that could not do it.
Errors == {"exists", "port", "launcher", "failed", "denied", "expired"}

\* A login exchanges at most one code, and only one that its own page brought,
\* even when the page of another login answers on the port; a refusal is not
\* exchanged.  Who is told that the login is complete has it in the store, and when
\* the answer is that the profile can be used, it can be until another login takes
\* its place; a login that ends with an error leaves no profile that can be used
\* (a worker that dies may, when that is after the guard was removed); and a profile
\* takes the place of another one only where that was asked for, also when both
\* logins began with no profile (receive, callback, run, login_before).
LoginIsTrue ==
    /\ \A l \in Logins :
         LET end == login[l].result
             kept == \E i \in DOMAIN store.log : store.log[i] = l
         IN  /\ login[l].sent \in {<<>>, <<l>>}
             /\ end = "denied" => login[l].sent = <<>>
             /\ end \in {"ok", "ineligible"} \/ l \in pages => kept
             /\ end = "ok" /\ store.profile = l => ~store.reauth
             /\ end \in Errors => ~(store.profile = l /\ ~store.reauth)
    /\ \A i \in DOMAIN store.log : i > 1 => login[store.log[i]].replace
=============================================================================
