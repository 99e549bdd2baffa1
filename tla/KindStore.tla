---- MODULE KindStore ----
(***************************************************************************)
(* What the kinds of a runtime are to its clients and its operator: a map  *)
(* from protocol IDs to kind nodes in which no ID continues another one.   *)
(* An ID makes those that continue it give way, and goes without a word    *)
(* where it continues one itself; deleting it takes those that continue it *)
(* along. A descriptor, written or exported, gives a new map, by the same  *)
(* rule. KindTree implements this with the nested map of the manifest.     *)
(***************************************************************************)
CONSTANTS
    Paths,      \* protocol IDs, with or without a kind
    Above,      \* <<p, q>>: q continues p
    Links,      \* kind nodes
    None        \* no kind

VARIABLES
    kinds,      \* the kinds of the current manifest
    descriptor  \* the kinds of the bootstrap descriptor

vars == <<kinds, descriptor>>

Maps == [Paths -> Links \union {None}]

\* Of a descriptor in which IDs continue each other, the shortest ones count.
Minimal(d) ==
    [p \in Paths |-> IF \E q \in Paths : <<q, p>> \in Above /\ d[q] # None
                     THEN None ELSE d[p]]

Init ==
    /\ kinds = [p \in Paths |-> None]
    /\ descriptor \in Maps

Put(p, l) ==
    /\ ~\E q \in Paths : <<q, p>> \in Above /\ kinds[q] # None
    /\ kinds' = [q \in Paths |-> IF q = p THEN l
                                 ELSE IF <<p, q>> \in Above THEN None ELSE kinds[q]]
    /\ UNCHANGED descriptor

Drop(p) ==
    /\ kinds' = [q \in Paths |-> IF q = p \/ <<p, q>> \in Above THEN None ELSE kinds[q]]
    /\ UNCHANGED descriptor

Export ==
    /\ descriptor' = kinds
    /\ UNCHANGED kinds

Edit(p) ==
    /\ \E l \in Links \union {None} : descriptor' = [descriptor EXCEPT ![p] = l]
    /\ UNCHANGED kinds

Adopt ==
    /\ kinds' = Minimal(descriptor)
    /\ UNCHANGED descriptor

Next ==
    \/ \E p \in Paths : Drop(p) \/ Edit(p) \/ \E l \in Links : Put(p, l)
    \/ Export
    \/ Adopt

Spec == Init /\ [][Next]_vars

====
