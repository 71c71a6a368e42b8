----------------------------- MODULE MCCatalog -----------------------------
(* Instances of Catalog for TLC. *)
EXTENDS Catalog, Functions, TLC

CONSTANTS c1, c2, o1, o2, p1, p2, b1, b2

MCPrefixApart == [s \in 1..MaxSessions |-> IF s = 1 THEN b1 ELSE b2]
MCPrefixTogether == [s \in 1..MaxSessions |-> b1]
MCSymmetry == Permutations(Callers) \cup Permutations(Operations) \cup Permutations(Payloads)

\* Concurrent callers and several commands without foreign changes, or one caller
\* with one command, foreign changes and two repairs.
Reach ==
  \/ faults = 0 /\ repairs <= 1
  \/ /\ Cardinality({c \in Callers : call[c].pc # "idle"}) <= 1
     /\ Cardinality({o \in Operations : commands[o].state # "none" \/ acks[o] # {}}) <= 1
     /\ Cardinality({f.payload : f \in {g \in Range(files) \cup Range(away) : g.kind = "valid"}}) <= 1
=============================================================================
