---------------------------- MODULE MCManagedAuth ----------------------------
(* Instances for TLC of the parts of authentication, one in each behaviour:   *)
(* the profile store, the credentials of a session, logins in the browser.    *)
(* Agents are interchangeable.                                                *)
EXTENDS ManagedAuth, TLC

VARIABLES part,
          now, authFile, rewrites, wire, used,
          login, port, queue, callbacks, tabs, store, pages

session == <<now, authFile, rewrites, wire, used>>
browser == <<login, port, queue, callbacks, tabs, store, pages>>
allVars == <<part, vars, session, browser>>

AgentSymmetry == Permutations(Agents)

-----------------------------------------------------------------------------
Token(text, account, exp) == [text |-> text, account |-> account, exp |-> exp]
File(source, account, expires, token) ==
    [source |-> source, mode |-> "private", kind |-> "oauth", account |-> account,
     expires |-> expires, token |-> token]
Good == File("pi", "a", 8, Token("jwt", "b", {}))

\* Expiries of both sources before, at and after the margin, a half second, and
\* one within the first second.
TheFiles ==
    {File("codex", account, 0, Token("jwt", claim, exp)) :
        account \in {"", "a"}, claim \in {"", "b"}, exp \in {{}, {2}, {3}}}
      \cup {File("pi", "a", expires, Token("jwt", "b", exp)) :
                expires \in {1} \cup 4..7, exp \in {{}, {2}, {3}}}
      \cup {[Good EXCEPT !.mode = mode] :
                mode \in {"missing", "link", "directory", "large", "shared"}}
      \cup {[Good EXCEPT !.kind = "api_key"], [Good EXCEPT !.token.text = "blank"],
            [Good EXCEPT !.token.text = "opaque"], [Good EXCEPT !.account = "c"]}

Session == INSTANCE Credentials WITH
    AuthFiles <- TheFiles, MaxRewrites <- 1, MaxTime <- 2, Margin <- 1, Second <- 2

Browser == INSTANCE BrowserLogin WITH Logins <- {1, 2}, MaxCallbacks <- 2

-----------------------------------------------------------------------------
NoSession == now = 0 /\ authFile = 0 /\ rewrites = 0 /\ wire = 0 /\ used = 0
NoBrowser == /\ login = 0 /\ port = 0 /\ queue = 0 /\ callbacks = 0 /\ tabs = 0
             /\ store = 0 /\ pages = 0

MCInit ==
    /\ Init
    /\ \/ part = "store" /\ NoSession /\ NoBrowser
       \/ part = "session" /\ Session!CredentialsInit /\ NoBrowser
       \/ part = "browser" /\ NoSession /\ Browser!LoginInit

MCNext ==
    /\ part' = part
    /\ \/ part = "store" /\ Next /\ UNCHANGED <<session, browser>>
       \/ part = "session" /\ Session!CredentialsNext /\ UNCHANGED <<vars, browser>>
       \/ part = "browser" /\ Browser!LoginNext /\ UNCHANGED <<vars, session>>

MCSpec == MCInit /\ [][MCNext]_allVars

-----------------------------------------------------------------------------
\* Credentials!CredentialsAreCurrent and BrowserLogin!LoginIsTrue: a session
\* presents only its own, current credentials (Wire::open, Wire::send), and a
\* login exchanges and stores only what its own page brought (browser_login.rs).
LoginsAreTrue ==
    /\ part = "session" => Session!CredentialsAreCurrent
    /\ part = "browser" => Browser!LoginIsTrue
==============================================================================
