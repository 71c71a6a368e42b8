------------------------------ MODULE RunLedger ------------------------------
(***************************************************************************)
(* What the persistent execution of runs promises to the users of one      *)
(* session: an operation is accepted at most once, with fixed content; its *)
(* run begins at most once, while it is the only open run of the session;  *)
(* and it ends, or is interrupted, once.                                   *)
(***************************************************************************)
CONSTANTS Operations, Contents, NoContent

VARIABLES content,  \* what was accepted under an operation
          begun,    \* the operations whose run has begun
          open      \* the operations accepted and not yet ended or interrupted

vars == <<content, begun, open>>

Init ==
    /\ content = [o \in Operations |-> NoContent]
    /\ begun = {}
    /\ open = {}

Accept(o) ==
    /\ content[o] = NoContent
    /\ open = {}
    /\ \E x \in Contents : content' = [content EXCEPT ![o] = x]
    /\ open' = {o}
    /\ UNCHANGED begun

Begin(o) ==
    /\ o \in open
    /\ o \notin begun
    /\ begun' = begun \cup {o}
    /\ UNCHANGED <<content, open>>

\* The run ends, or is found abandoned.
Close(o) ==
    /\ o \in open
    /\ open' = open \ {o}
    /\ UNCHANGED <<content, begun>>

Next == \E o \in Operations : Accept(o) \/ Begin(o) \/ Close(o)

Spec == Init /\ [][Next]_vars
=============================================================================
