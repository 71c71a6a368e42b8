---------------------------- MODULE Credentials ----------------------------
(***************************************************************************)
(* The credentials of a provider session (providers/openai_codex/auth.rs   *)
(* and Wire::open, Wire::send): the file of another program is checked,    *)
(* read and parsed when the session is opened, and by the event source     *)
(* again for every request.  The other program rewrites it meanwhile.      *)
(***************************************************************************)
EXTENDS Naturals

CONSTANTS AuthFiles,    \* states of the file
          MaxRewrites,
          MaxTime,      \* in seconds
          Margin,       \* the 30 seconds of ensure_fresh
          Second        \* in units of the file of Pi, its milliseconds

VARIABLES now,
          authFile,
          rewrites,
          wire,         \* the session: its state, and the file it is loading
          used          \* the credentials that went to the provider

\* An expiry that need not be stated is a set, empty or of one number.
NoFile == [source |-> "none", mode |-> "missing", kind |-> "none", account |-> "", expires |-> 0,
           token |-> [text |-> "blank", account |-> "", exp |-> {}]]
NoAuth == [account |-> "", expires |-> {}, of |-> NoFile]
Closed(transport) == [transport |-> transport, pc |-> "closed", auth |-> NoAuth, file |-> NoFile,
                      error |-> "", erred |-> 0]

CredentialsInit ==
    /\ now = 0
    /\ authFile \in AuthFiles
    /\ rewrites = 0
    /\ wire \in {Closed("websocket"), Closed("sse")}
    /\ used = {}

Opening == wire.auth = NoAuth

\* A session that is not open is given up; one that is open can be asked again.
Fail(error) ==
    wire' = [wire EXCEPT !.pc = IF Opening THEN "closed" ELSE "opened",
                         !.error = error, !.erred = now]

-----------------------------------------------------------------------------
(***************************************************************************)
(* auth.rs                                                                 *)
(***************************************************************************)

check_file(file) ==
    CASE file.mode = "missing" -> "auth_read"
      [] file.mode \in {"link", "directory"} -> "auth_file_type"
      [] file.mode = "large" -> "auth_file_too_large"
      [] file.mode = "shared" -> "auth_permissions"
      [] OTHER -> "ok"

\* Fault: what the file says of the expiry is taken for what the token says.
FileFirst(a, b) == IF a # {} THEN a ELSE b

\* The earlier of what the file and the token say, if either says anything.
Earlier(a, b) == {e \in a \cup b : \A f \in a \cup b : e <= f}

ensure_fresh(expires) == \A e \in expires : e > now + Margin

Failure(error) == [error |-> error, auth |-> NoAuth]

\* What the token itself says of its account and its expiry, if it is a JWT.
jwt_hints(token) == IF token.text = "jwt" THEN [account |-> token.account, exp |-> token.exp]
                    ELSE [account |-> "", exp |-> {}]

from_access_token(file, account, expires) ==
    LET hints == jwt_hints(file.token)
        who == IF account # "" THEN account ELSE hints.account
        until == Earlier(expires, hints.exp)
    IN  IF file.token.text = "blank" \/ who = "" THEN Failure("invalid_auth")
        ELSE IF ~ensure_fresh(until) THEN Failure("auth_expired")
        ELSE [error |-> "", auth |-> [account |-> who, expires |-> until, of |-> file]]

\* Codex keeps no expiry beside the token, Pi keeps it in milliseconds.
parse_credentials(file) ==
    IF file.kind # "oauth" THEN Failure("invalid_auth")
    ELSE from_access_token(file, file.account,
                           IF file.source = "pi" THEN {file.expires \div Second} ELSE {})

-----------------------------------------------------------------------------
(***************************************************************************)
(* A session: load is three steps, between which the file may change.      *)
(***************************************************************************)

Uses(auth, account) == used' = used \cup {[auth |-> auth, at |-> now, account |-> account]}
Loads == wire' = [wire EXCEPT !.pc = "look", !.file = NoFile, !.error = ""]

Open ==
    /\ wire.pc = "closed"
    /\ Loads
    /\ UNCHANGED <<now, authFile, rewrites, used>>

\* A socket is bound to the credentials of its handshake; an event source loads
\* its credentials for every request.
Send ==
    /\ wire.pc = "opened"
    /\ IF wire.transport = "sse" THEN Loads /\ UNCHANGED used
       ELSE IF ensure_fresh(wire.auth.expires) THEN Uses(wire.auth, wire.auth.account) /\ UNCHANGED wire
       ELSE Fail("auth_expired") /\ UNCHANGED used
    /\ UNCHANGED <<now, authFile, rewrites>>

\* The metadata of the path.
Look ==
    /\ wire.pc = "look"
    /\ IF check_file(authFile) # "ok" THEN Fail(check_file(authFile))
       ELSE wire' = [wire EXCEPT !.pc = "read"]
    /\ UNCHANGED <<now, authFile, rewrites, used>>

\* The file that is opened, without following a link, is checked again.
OpenFile ==
    /\ wire.pc = "read"
    /\ IF authFile.mode \in {"missing", "link"} THEN Fail("auth_read")
       ELSE IF check_file(authFile) # "ok" THEN Fail(check_file(authFile))
       ELSE wire' = [wire EXCEPT !.pc = "parse", !.file = authFile]
    /\ UNCHANGED <<now, authFile, rewrites, used>>

\* The session keeps the account that it was opened with; a socket presents the
\* credentials in its handshake, which may fail.
Opened(auth) ==
    IF wire.transport = "sse"
    THEN wire' = [wire EXCEPT !.pc = "opened", !.auth = auth, !.file = NoFile] /\ UNCHANGED used
    ELSE /\ Uses(auth, auth.account)
         /\ \E connected \in BOOLEAN :
               IF connected THEN wire' = [wire EXCEPT !.pc = "opened", !.auth = auth, !.file = NoFile]
               ELSE Fail("connect")

Request(auth) ==
    IF auth.account # wire.auth.account THEN Fail("auth_account_changed") /\ UNCHANGED used
    ELSE /\ Uses(auth, wire.auth.account)
         /\ wire' = [wire EXCEPT !.pc = "opened", !.file = NoFile]

Load ==
    LET loaded == parse_credentials(wire.file)
    IN  /\ wire.pc = "parse"
        /\ IF loaded.error # "" THEN Fail(loaded.error) /\ UNCHANGED used
           ELSE IF Opening THEN Opened(loaded.auth)
           ELSE Request(loaded.auth)
        /\ UNCHANGED <<now, authFile, rewrites>>

Rewrite ==
    /\ rewrites < MaxRewrites
    /\ authFile' \in AuthFiles \ {authFile}
    /\ rewrites' = rewrites + 1
    /\ UNCHANGED <<now, wire, used>>

Tick ==
    /\ now < MaxTime
    /\ now' = now + 1
    /\ UNCHANGED <<authFile, rewrites, wire, used>>

CredentialsNext == Open \/ Send \/ Look \/ OpenFile \/ Load \/ Rewrite \/ Tick

CredentialsSpec ==
    CredentialsInit /\ [][CredentialsNext]_<<now, authFile, rewrites, wire, used>>

-----------------------------------------------------------------------------
\* The expiries that a file states, in milliseconds.
Expiries(file) ==
    (IF file.token.text = "jwt" THEN {e * Second : e \in file.token.exp} ELSE {})
      \cup (IF file.source = "pi" THEN {file.expires} ELSE {})

\* What a session presents to the provider is of the account that it was opened
\* with and of a private file with a subscription login, and no expiry that the
\* file or the token states was then within the margin; a session that is told
\* its login has expired was given one that states so, to the second (load,
\* from_access_token, ensure_fresh, Wire::open, Wire::send).
CredentialsAreCurrent ==
    /\ \A u \in used :
          /\ u.auth.account = u.account
          /\ u.auth.of.mode = "private" /\ u.auth.of.kind = "oauth"
          /\ \A e \in Expiries(u.auth.of) : e > (u.at + Margin) * Second
    /\ wire.error = "auth_expired" =>
          \E e \in Expiries(IF wire.file = NoFile THEN wire.auth.of ELSE wire.file) :
             e < (wire.erred + Margin + 1) * Second
=============================================================================
