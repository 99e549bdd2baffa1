---- MODULE Power ----
(***************************************************************************)
(* Who has power over the runtime, whatever it rests on: a principal gains *)
(* it by a claim that begins while the runtime lists no owner, or is given *)
(* it by someone who has it at that moment. Losing it takes nothing; a     *)
(* list of owners that runs empty opens the runtime to the next claimant.  *)
(* Ownership implements this with the copies of the owners that a process  *)
(* has, and those that outlive it: config.yaml, the published manifest and *)
(* the requests to publish one that Kubo has not settled.                  *)
(***************************************************************************)
CONSTANTS
    Dids,       \* principals
    Configured  \* those who have power before the first start

VARIABLES
    held,       \* principals with power, in whatever copy
    claiming,   \* principals whose claim was accepted and is not answered
    open        \* the runtime lists no owner

vars == <<held, claiming, open>>

Init == held = Configured /\ claiming = {} /\ open = TRUE

Claim(d) ==
    /\ open
    /\ claiming' = claiming \union {d}
    /\ UNCHANGED <<held, open>>

Name(d, named) ==
    /\ d \in held
    /\ held' = held \union named
    /\ UNCHANGED <<claiming, open>>

\* A claim goes on or ends, a copy of the owners is replaced by another, a process ends.
Settle ==
    /\ held' \subseteq held \union claiming
    /\ claiming' \subseteq claiming
    /\ open' \in BOOLEAN

Next ==
    \/ Settle
    \/ \E d \in Dids : Claim(d) \/ \E named \in SUBSET Dids : Name(d, named)

Spec == Init /\ [][Next]_vars

====
