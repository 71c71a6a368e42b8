--------------------------- MODULE StoreOwnership ---------------------------
(***************************************************************************)
(* What the storage lifecycle promises to every other part of the runtime: *)
(* one storage root has at most one owner, only the owner's work touches   *)
(* the databases under the root, and ownership passes from one store       *)
(* instance to another only through a moment at which nobody owns the root *)
(* and no work of the previous owner is left.                              *)
(***************************************************************************)

CONSTANTS Stores,   \* the SessionStore instances ever opened on one root
          NoStore   \* nobody: not one of Stores

VARIABLES owner,    \* the instance that holds the root, or NoStore
          working   \* the instances whose work may be touching the root

vars == <<owner, working>>

Init ==
    /\ owner = NoStore
    /\ working = {}

Acquire(s) ==
    /\ owner = NoStore
    /\ owner' = s
    /\ working' \in SUBSET {s}

\* The owner starts work or its work stops.
Work(s) ==
    /\ owner = s
    /\ working' \in SUBSET {s}
    /\ UNCHANGED owner

\* Giving up the root and the end of the owner's last work are one step.
Release(s) ==
    /\ owner = s
    /\ owner' = NoStore
    /\ working' = {}

Next ==
    \E s \in Stores : Acquire(s) \/ Work(s) \/ Release(s)

Spec == Init /\ [][Next]_vars

=============================================================================
