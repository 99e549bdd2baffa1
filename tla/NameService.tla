---- MODULE NameService ----
(***************************************************************************)
(* What the publisher service is to its clients: a client's requests are   *)
(* carried out on its behalf, and it goes on to the next one when the last *)
(* is done. A request may be carried out again, also when its client has   *)
(* gone on; none is carried out that its client has not come to, or that   *)
(* is invalid, and nothing but its own requests moves a client's name.     *)
(* Publisher implements this over a network that loses and repeats, with a *)
(* daemon that crashes.                                                    *)
(***************************************************************************)
EXTENDS Naturals

CONSTANTS
    Clients,
    Last,       \* number of requests of a client
    Stores,     \* <<c, n>>: requests to store content; the others publish a document
    Invalid     \* <<c, n>>: requests that are refused

VARIABLES
    wants,      \* the request a client is at
    name,       \* the document a client's name leads to
    done        \* requests carried out

vars == <<wants, name, done>>

Init ==
    /\ wants = [c \in Clients |-> 1]
    /\ name = [c \in Clients |-> 0]
    /\ done = [c \in Clients |-> {}]

Perform(c, n) ==
    /\ n <= wants[c] /\ <<c, n>> \notin Invalid
    /\ done' = [done EXCEPT ![c] = @ \union {n}]
    /\ name' = IF <<c, n>> \in Stores THEN name ELSE [name EXCEPT ![c] = n]
    /\ UNCHANGED wants

GoOn(c) ==
    /\ wants[c] \in done[c]
    /\ wants' = [wants EXCEPT ![c] = @ + 1]
    /\ UNCHANGED <<name, done>>

Next == \E c \in Clients : GoOn(c) \/ \E n \in 1..Last : Perform(c, n)

Spec == Init /\ [][Next]_vars

====
