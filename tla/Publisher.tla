---- MODULE Publisher ----
(***************************************************************************)
(* The publisher service on /ma/ipfs/0.0.1: a client sends a DID document  *)
(* with the key of its name, or content to store; the daemon checks its    *)
(* ACL, then the replay guard, then the request, hands it to Kubo, and     *)
(* answers with the CID. One message is handled at a time, to its end.     *)
(*                                                                         *)
(* A client's requests are numbered in the order it wants them done; the   *)
(* number stands for the document or the content. It goes on to the next   *)
(* one when it has an answer, and until then may send the request again in *)
(* a message of its own. The network loses, repeats, delays and reorders   *)
(* messages; the process may crash, and its replay guard with it. Messages *)
(* do not expire, and the guard forgets nothing while the process lives.   *)
(***************************************************************************)
EXTENDS Naturals

CONSTANTS
    Clients,
    Last,       \* number of requests of a client
    Stores,     \* <<c, n>>: requests to store content; the others publish a document
    Invalid,    \* <<c, n>>: requests validate_ipfs_request refuses
    None,
    MaxCopies,  \* bound: messages a client makes of one request
    MaxFaults   \* bound: lost or repeated messages, lost answers, failed calls, crashes,
                \* and changes of the ACL

Numbers == 1..Last
Message == [from : Clients, number : Numbers, copy : 1..MaxCopies]

ASSUME PublisherAssumption ==
    /\ Last \in Nat /\ MaxCopies \in Nat /\ MaxFaults \in Nat
    /\ Stores \union Invalid \subseteq Clients \X Numbers
    /\ None \notin Message

VARIABLES
    acl,        \* the clients who hold CAP_IPFS
    guard,      \* messages the ReplayGuard remembers
    busy,       \* the message whose request is handed to Kubo, or None
    landed,     \* Kubo has carried it out
    ran,        \* the messages this process has handed to Kubo
    crashed,    \* there was another process before this one
    name,       \* [Clients -> 0..Last]: the document a client's IPNS name leads to
    done,       \* [Clients -> SUBSET Numbers]: requests Kubo has carried out
    net,        \* messages under way
    wants,      \* [Clients -> 1..Last + 1]: the request a client is at
    copies,     \* [Clients -> 0..MaxCopies]: messages it has made of it
    resent,     \* clients that have ever made a second message of a request
    faults

service == <<acl, guard, busy, landed, ran, crashed>>
clients == <<wants, copies, resent>>
vars == <<service, name, done, net, clients, faults>>

Request(m) == <<m.from, m.number>>

----
Init ==
    /\ acl \in SUBSET Clients
    /\ guard = {} /\ busy = None /\ landed = FALSE /\ ran = {} /\ crashed = FALSE
    /\ name = [c \in Clients |-> 0] /\ done = [c \in Clients |-> {}]
    /\ net = {}
    /\ wants = [c \in Clients |-> 1] /\ copies = [c \in Clients |-> 0] /\ resent = {}
    /\ faults = 0

Fault == faults < MaxFaults /\ faults' = faults + 1

----
(* Clients and the network *)

SameCopy(c) ==  \* faulty variant: a request is sent again under its old message ID
    IF copies[c] = 0 THEN 1 ELSE copies[c]

\* A message has an ID of its own.
Copy(c) == copies[c] + 1

\* The first message of a request, or another one while there is no answer.
Send(c) ==
    /\ wants[c] <= Last /\ copies[c] < MaxCopies
    /\ net' = net \union {[from |-> c, number |-> wants[c], copy |-> Copy(c)]}
    /\ copies' = [copies EXCEPT ![c] = @ + 1]
    /\ resent' = IF copies[c] = 0 THEN resent ELSE resent \union {c}
    /\ UNCHANGED <<service, name, done, wants, faults>>

Lose(m) ==
    /\ m \in net /\ Fault
    /\ net' = net \ {m}
    /\ UNCHANGED <<service, name, done, clients>>

----
(* The daemon *)

\* CRUD writes the root ACL between two messages of the loop; a claim waits for the
\* guard the loop holds while it handles one.
SetAcl(c) ==
    /\ busy = None /\ Fault
    /\ acl' \in {acl \union {c}, acl \ {c}} \ {acl}
    /\ UNCHANGED <<guard, busy, landed, ran, crashed, name, done, net, clients>>

RememberAll(m) ==  \* faulty variant: the guard comes before the ACL
    guard \union {m}

\* The ACL comes first, and check_and_insert before the request is looked at.
Remembered(m) == IF m.from \in acl THEN guard \union {m} ELSE guard

AcceptsUnguarded(m) ==  \* faulty variant: no replay guard
    m.from \in acl /\ Request(m) \notin Invalid

Accepts(m) == m.from \in acl /\ m \notin guard /\ Request(m) \notin Invalid

\* handle_ipfs_message up to the call of Kubo; what is refused is not answered. It is
\* a fault of the network to deliver the message again.
Receive(m) ==
    /\ busy = None /\ m \in net
    /\ \/ net' = net \ {m} /\ UNCHANGED faults
       \/ net' = net /\ Fault
    /\ guard' = Remembered(m)
    /\ busy' = IF Accepts(m) THEN m ELSE None
    /\ ran' = IF Accepts(m) THEN ran \union {m} ELSE ran
    /\ UNCHANGED <<acl, landed, crashed, name, done, clients>>

\* Kubo publishes the document under the client's name, or stores the content.
Land ==
    /\ busy # None /\ ~landed
    /\ landed' = TRUE
    /\ name' = IF Request(busy) \in Stores THEN name ELSE [name EXCEPT ![busy.from] = busy.number]
    /\ done' = [done EXCEPT ![busy.from] = @ \union {busy.number}]
    /\ UNCHANGED <<acl, guard, busy, ran, crashed, net, clients, faults>>

Finish == busy' = None /\ landed' = FALSE

\* The call fails, before Kubo has done the work or after. There is no answer.
CallFails ==
    /\ busy # None /\ Fault
    /\ Finish
    /\ UNCHANGED <<acl, guard, ran, crashed, name, done, net, clients>>

AnswerEarly == busy # None  \* faulty variant: the answer does not wait for Kubo

MayAnswer == busy # None /\ landed

\* The reply carries the CID to the client, who goes on if he is still at that request.
Answer ==
    /\ MayAnswer
    /\ Finish
    /\ IF busy.number = wants[busy.from]
       THEN /\ wants' = [wants EXCEPT ![busy.from] = @ + 1]
            /\ copies' = [copies EXCEPT ![busy.from] = 0]
       ELSE UNCHANGED <<wants, copies>>
    /\ UNCHANGED <<acl, guard, ran, crashed, name, done, net, resent, faults>>

AnswerLost ==
    /\ MayAnswer /\ Fault
    /\ Finish
    /\ UNCHANGED <<acl, guard, ran, crashed, name, done, net, clients>>

\* The guard is nowhere but in the memory of the process.
Crash ==
    /\ Fault
    /\ guard' = {} /\ ran' = {} /\ crashed' = TRUE
    /\ Finish
    /\ UNCHANGED <<acl, name, done, net, clients>>

----
Next ==
    \/ \E c \in Clients : Send(c) \/ SetAcl(c)
    \/ \E m \in Message : Lose(m) \/ Receive(m)
    \/ Land \/ CallFails \/ Answer \/ AnswerLost \/ Crash

Spec == Init /\ [][Next]_vars

\* Clients try again until they have an answer, the inbox is drained in order and so
\* every message gets its turn, and Kubo's calls end.
Fairness ==
    /\ \A c \in Clients : WF_vars(Send(c))
    /\ \A m \in Message : SF_vars(Receive(m))
    /\ WF_vars(Land) /\ WF_vars(Answer)

FairSpec == Spec /\ Fairness

----
(* Properties *)

TypeOK ==
    /\ acl \subseteq Clients /\ resent \subseteq Clients
    /\ guard \subseteq Message /\ ran \subseteq Message /\ net \subseteq Message
    /\ busy \in Message \union {None}
    /\ landed \in BOOLEAN /\ crashed \in BOOLEAN
    /\ name \in [Clients -> 0..Last] /\ done \in [Clients -> SUBSET Numbers]
    /\ wants \in [Clients -> 1..(Last + 1)] /\ copies \in [Clients -> 0..MaxCopies]
    /\ faults \in 0..MaxFaults

\* The guard remembers what went to Kubo and what is invalid, and nothing else: a
\* message the ACL turned away may come again once its sender is admitted, and one
\* that was accepted may not (check_full before check_and_insert).
GuardIsExact == {m \in guard : Request(m) \notin Invalid} = ran

\* In the life of a process a message goes to Kubo once (ReplayGuard).
OncePerProcess == [][busy' # busy /\ busy' # None => busy' \notin ran]_vars

\* A client's name never goes back to an older document, if the client sends each
\* request in one message and no crash has cost the daemon its guard. A second message
\* of an old request, or an old message after a crash, is published over a newer one.
NameNeverGoesBack ==
    [][\A c \in Clients : ~crashed /\ c \notin resent => name'[c] >= name[c]]_vars

Service == INSTANCE NameService

\* Whatever happens on the way, what is carried out are valid requests their clients
\* have come to, each under its own client's name, and a client goes on when its request
\* is done (handle_ipfs_message, handle_ipfs_store).
ImplementsService == Service!Spec

\* With one message more for each request than things go wrong, a client who keeps its
\* rights gets all its requests done: the retry has to be a new message, as the guard
\* refuses the old one even if its publish failed.
EveryoneIsServed ==
    \A c \in Clients :
        [](c \in acl) /\ (\A n \in Numbers : <<c, n>> \notin Invalid) => <>(wants[c] = Last + 1)

====
