---- MODULE Publisher_proofs ----
(***************************************************************************)
(* Theorems about Publisher for every set of clients and requests: a       *)
(* message goes to Kubo once in the life of a process, an answer means     *)
(* done, and the name of a client who sends each request once, to one      *)
(* process, never goes back. The daemon and its network implement the      *)
(* service of NameService, and each thing that goes wrong costs a client   *)
(* one message of a request at most.                                       *)
(***************************************************************************)
EXTENDS Publisher, FiniteSetTheorems, TLAPS

\* What is at Kubo has been counted, and its result is there when it has landed.
BusyIsRan ==
    /\ busy # None => busy \in ran /\ Request(busy) \notin Invalid
    /\ landed => busy # None /\ busy.number \in done[busy.from]

Sole(c, n) == [from |-> c, number |-> n, copy |-> 1]

\* A client in one process who never resends is served in order: what he has an answer
\* to went to Kubo already, so what Kubo is busy with is the request he is at.
InOrder(c) ==
    /\ \A m \in net \union guard : m.from = c => m.copy = 1 /\ m.number <= wants[c]
    /\ \A n \in Numbers : n < wants[c] => Sole(c, n) \in ran
    /\ name[c] <= wants[c]
    /\ busy # None /\ busy.from = c => busy.number = wants[c]

Orderly == ~crashed => \A c \in Clients \ resent : InOrder(c)

\* There are no messages of requests a client has not come to, or that it has not made.
Made ==
    \A m \in net \union guard :
        \/ m.number < wants[m.from]
        \/ m.number = wants[m.from] /\ m.copy <= copies[m.from]

\* A client is told that a request was done only when it was.
AnsweredIsDone == \A c \in Clients : 1..(wants[c] - 1) \subseteq done[c]

IInv == TypeOK /\ GuardIsExact /\ BusyIsRan /\ AnsweredIsDone /\ Orderly /\ Made

----
\* Clients and the network, and the daemon, keep the types (all of Publisher).
LEMMA TypeStep == TypeOK /\ [Next]_vars => TypeOK'
<1> USE PublisherAssumption
<1> SUFFICES ASSUME TypeOK, [Next]_vars PROVE TypeOK'
  OBVIOUS
<1>1. ASSUME NEW c \in Clients, Send(c) PROVE TypeOK'
  <2>1. [from |-> c, number |-> wants[c], copy |-> Copy(c)] \in Message
    BY <1>1 DEF Send, TypeOK, Message, Numbers, Copy
  <2>2. copies' \in [Clients -> 0..MaxCopies]
    BY <1>1 DEF Send, TypeOK
  <2> QED BY <1>1, <2>1, <2>2 DEF Send, TypeOK, service
<1>2. ASSUME NEW c \in Clients, SetAcl(c) PROVE TypeOK'
  BY <1>2 DEF SetAcl, Fault, TypeOK, clients
<1>3. ASSUME NEW m \in Message, Lose(m) PROVE TypeOK'
  BY <1>3 DEF Lose, Fault, TypeOK, service, clients
<1>4. ASSUME NEW m \in Message, Receive(m) PROVE TypeOK'
  BY <1>4 DEF Receive, Remembered, Fault, TypeOK, clients
<1>5. ASSUME Land PROVE TypeOK'
  <2>1. busy.from \in Clients /\ busy.number \in Numbers
    BY <1>5 DEF Land, TypeOK, Message
  <2>2. name' \in [Clients -> 0..Last] /\ done' \in [Clients -> SUBSET Numbers]
    BY <1>5, <2>1 DEF Land, TypeOK, Numbers
  <2> QED BY <1>5, <2>2 DEF Land, TypeOK, clients
<1>6. ASSUME CallFails \/ AnswerLost \/ Crash PROVE TypeOK'
  <2>1. CASE CallFails
    <3>1. faults' \in 0..MaxFaults
      BY <2>1 DEF CallFails, Fault, TypeOK
    <3>2. landed' \in BOOLEAN /\ crashed' \in BOOLEAN
      BY <2>1 DEF CallFails, Finish, TypeOK
    <3> QED BY <2>1, <3>1, <3>2 DEF CallFails, Finish, TypeOK, clients
  <2>2. CASE AnswerLost
    <3>1. faults' \in 0..MaxFaults
      BY <2>2 DEF AnswerLost, Fault, TypeOK
    <3>2. landed' \in BOOLEAN /\ crashed' \in BOOLEAN
      BY <2>2 DEF AnswerLost, Finish, TypeOK
    <3> QED BY <2>2, <3>1, <3>2 DEF AnswerLost, Finish, TypeOK, clients
  <2>3. CASE Crash
    <3>1. faults' \in 0..MaxFaults
      BY <2>3 DEF Crash, Fault, TypeOK
    <3>2. landed' \in BOOLEAN /\ crashed' \in BOOLEAN
      BY <2>3 DEF Crash, Finish, TypeOK
    <3> QED BY <2>3, <3>1, <3>2 DEF Crash, Finish, TypeOK, clients
  <2> QED BY <1>6, <2>1, <2>2, <2>3
<1>7. ASSUME Answer PROVE TypeOK'
  <2>1. busy.from \in Clients /\ busy.number \in 1..Last
    BY <1>7 DEF Answer, MayAnswer, TypeOK, Message, Numbers
  <2>2. wants' \in [Clients -> 1..(Last + 1)] /\ copies' \in [Clients -> 0..MaxCopies]
    <3>1. CASE busy.number = wants[busy.from]
      <4>1. wants[busy.from] + 1 \in 1..(Last + 1)
        BY <2>1, <3>1
      <4> QED BY <1>7, <3>1, <4>1 DEF Answer, TypeOK
    <3>2. CASE busy.number # wants[busy.from]
      BY <1>7, <3>2 DEF Answer, TypeOK
    <3> QED BY <3>1, <3>2
  <2> QED BY <1>7, <2>2 DEF Answer, Finish, TypeOK
<1>8. CASE UNCHANGED vars
  BY <1>8 DEF vars, service, clients, TypeOK
<1> QED BY <1>1, <1>2, <1>3, <1>4, <1>5, <1>6, <1>7, <1>8 DEF Next

\* The guard and the messages at Kubo agree after every step (handle_ipfs_message).
LEMMA GuardStep == TypeOK /\ GuardIsExact /\ BusyIsRan /\ [Next]_vars => GuardIsExact' /\ BusyIsRan'
<1> USE PublisherAssumption
<1> SUFFICES ASSUME TypeOK, GuardIsExact, BusyIsRan, [Next]_vars PROVE GuardIsExact' /\ BusyIsRan'
  OBVIOUS
<1>1. ASSUME UNCHANGED <<guard, busy, landed, ran, done>> PROVE GuardIsExact' /\ BusyIsRan'
  BY <1>1 DEF GuardIsExact, BusyIsRan, Request
<1>2. ASSUME NEW m \in Message, Receive(m) PROVE GuardIsExact' /\ BusyIsRan'
  <2>1. busy = None /\ ~landed /\ landed' = landed
    BY <1>2 DEF Receive, BusyIsRan
  <2>2. CASE Accepts(m)
    BY <1>2, <2>1, <2>2 DEF Receive, Accepts, Remembered, GuardIsExact, BusyIsRan, Request
  <2>3. CASE ~Accepts(m)
    BY <1>2, <2>1, <2>3 DEF Receive, Accepts, Remembered, GuardIsExact, BusyIsRan, Request
  <2> QED BY <2>2, <2>3
<1>3. ASSUME Land PROVE GuardIsExact' /\ BusyIsRan'
  <2>1. busy.from \in Clients
    BY <1>3 DEF Land, TypeOK, Message
  <2> QED BY <1>3, <2>1 DEF Land, GuardIsExact, BusyIsRan, Request, TypeOK
<1>4. ASSUME CallFails \/ AnswerLost \/ Answer PROVE GuardIsExact' /\ BusyIsRan'
  BY <1>4 DEF CallFails, AnswerLost, Answer, Finish, GuardIsExact, BusyIsRan, Request
<1>5. ASSUME Crash PROVE GuardIsExact' /\ BusyIsRan'
  BY <1>5 DEF Crash, Finish, GuardIsExact, BusyIsRan, Request
<1> QED
  BY <1>1, <1>2, <1>3, <1>4, <1>5 DEF Next, Send, SetAcl, Lose, vars, service, clients

\* An answer follows the landing of its request (handle_ipfs_message, handle_ipfs_store).
LEMMA DoneStep == TypeOK /\ BusyIsRan /\ AnsweredIsDone /\ [Next]_vars => AnsweredIsDone'
<1> USE PublisherAssumption
<1> SUFFICES ASSUME TypeOK, BusyIsRan, AnsweredIsDone, [Next]_vars, NEW c \in Clients
             PROVE (1..(wants[c] - 1) \subseteq done[c])'
  BY DEF AnsweredIsDone
<1>1. ASSUME UNCHANGED <<wants, done>> PROVE (1..(wants[c] - 1) \subseteq done[c])'
  BY <1>1 DEF AnsweredIsDone
<1>2. ASSUME Land PROVE (1..(wants[c] - 1) \subseteq done[c])'
  <2>1. wants' = wants /\ done[c] \subseteq done'[c]
    BY <1>2 DEF Land, clients, TypeOK
  <2> QED BY <2>1 DEF AnsweredIsDone
<1>3. ASSUME Answer PROVE (1..(wants[c] - 1) \subseteq done[c])'
  <2>1. done' = done /\ busy.from \in Clients /\ busy.number \in done[busy.from]
    BY <1>3 DEF Answer, MayAnswer, BusyIsRan, TypeOK, Message
  <2>2. wants[c] \in Nat
    BY DEF TypeOK
  <2>3. CASE busy.number = wants[busy.from] /\ c = busy.from
    <3>1. wants'[c] = wants[c] + 1 /\ wants[c] \in done[c]
      BY <1>3, <2>1, <2>3 DEF Answer, TypeOK
    <3> QED BY <2>1, <2>2, <3>1 DEF AnsweredIsDone
  <2>4. CASE ~(busy.number = wants[busy.from] /\ c = busy.from)
    <3>1. wants'[c] = wants[c]
      BY <1>3, <2>1, <2>4 DEF Answer, TypeOK
    <3> QED BY <2>1, <3>1 DEF AnsweredIsDone
  <2> QED BY <2>3, <2>4
<1> QED
  BY <1>1, <1>2, <1>3
     DEF Next, Send, SetAcl, Lose, Receive, CallFails, AnswerLost, Crash, vars, service, clients

\* As long as a client does not resend and no guard is lost, he is served in order.
LEMMA OrderStep ==
    TypeOK /\ GuardIsExact /\ BusyIsRan /\ Orderly /\ [Next]_vars => Orderly'
<1> USE PublisherAssumption
<1> SUFFICES ASSUME TypeOK, GuardIsExact, BusyIsRan, Orderly, [Next]_vars,
                    ~crashed', NEW c \in Clients, c \notin resent'
             PROVE InOrder(c)'
  BY DEF Orderly
<1>1. ~Crash
  BY DEF Crash
<1>2. ~crashed /\ c \notin resent
  BY <1>1 DEF Next, Send, SetAcl, Lose, Receive, Land, CallFails, Answer, AnswerLost,
              vars, service, clients
<1>3. InOrder(c)
  BY <1>2 DEF Orderly
<1>4. wants[c] \in Nat /\ name[c] \in Nat /\ ran \subseteq guard /\ guard \subseteq Message
  BY DEF TypeOK, GuardIsExact
<1>5. ASSUME NEW d \in Clients, Send(d) PROVE InOrder(c)'
  <2>1. CASE d = c
    <3>1. copies[c] = 0
      BY <1>5, <2>1 DEF Send
    <3>2. net' = net \union {Sole(c, wants[c])}
      BY <1>5, <2>1, <3>1 DEF Send, Copy, Sole
    <3> QED BY <1>3, <1>4, <1>5, <3>2 DEF Send, service, InOrder, Sole
  <2>2. CASE d # c
    BY <1>3, <1>5, <2>2 DEF Send, service, InOrder
  <2> QED BY <2>1, <2>2
<1>6. ASSUME NEW m \in Message, Lose(m) PROVE InOrder(c)'
  BY <1>3, <1>6 DEF Lose, service, clients, InOrder
<1>7. ASSUME NEW m \in Message, Receive(m) PROVE InOrder(c)'
  <2>1. net' \subseteq net /\ guard' \subseteq guard \union {m} /\ m \in net
    BY <1>7 DEF Receive, Remembered
  <2>2. ran \subseteq ran' /\ wants' = wants /\ name' = name
    BY <1>7 DEF Receive, clients
  <2>3. ASSUME busy' # None, busy'.from = c PROVE busy'.number = wants[c]
    <3>1. busy' = m /\ m \notin guard
      BY <1>7, <2>3 DEF Receive, Accepts
    <3>2. m.copy = 1 /\ m.number <= wants[c] /\ m.from = c
      BY <1>3, <2>1, <2>3, <3>1 DEF InOrder
    <3>3. m = Sole(c, m.number) /\ m.number \in Numbers
      BY <3>2 DEF Message, Sole
    <3>4. ~(m.number < wants[c])
      BY <1>3, <1>4, <3>1, <3>3 DEF InOrder
    <3> QED BY <1>4, <3>1, <3>2, <3>3, <3>4 DEF Numbers
  <2> QED BY <1>3, <2>1, <2>2, <2>3 DEF InOrder
<1>8. ASSUME Land PROVE InOrder(c)'
  <2>1. name'[c] <= wants[c]
    BY <1>3, <1>4, <1>8 DEF Land, InOrder, TypeOK
  <2> QED BY <1>3, <1>8, <2>1 DEF Land, InOrder, clients
<1>9. ASSUME Answer PROVE InOrder(c)'
  <2>1. busy \in Message /\ busy \in ran /\ net' = net /\ guard' = guard /\ ran' = ran
        /\ name' = name /\ busy' = None
    BY <1>9 DEF Answer, MayAnswer, Finish, TypeOK, BusyIsRan
  <2>2. CASE busy.from = c
    <3>1. busy.number = wants[c] /\ busy.copy = 1
      BY <1>3, <1>4, <1>9, <2>1, <2>2 DEF Answer, MayAnswer, InOrder
    <3>2. busy = Sole(c, wants[c])
      BY <2>1, <2>2, <3>1 DEF Message, Sole
    <3>3. wants'[c] = wants[c] + 1
      BY <1>9, <2>2, <3>1 DEF Answer, TypeOK
    <3>4. \A m \in net \union guard : m.from = c => m.copy = 1 /\ m.number <= wants[c] + 1
      <4>1. \A m \in net \union guard : m.number \in Nat
        BY DEF TypeOK, Message, Numbers
      <4> QED BY <1>3, <1>4, <4>1 DEF InOrder
    <3>5. \A n \in Numbers : n < wants[c] + 1 => n < wants[c] \/ n = wants[c]
      BY <1>4 DEF Numbers
    <3>6. \A n \in Numbers : n < wants[c] + 1 => Sole(c, n) \in ran
      BY <1>3, <2>1, <3>2, <3>5 DEF InOrder
    <3> QED BY <1>3, <1>4, <2>1, <3>3, <3>4, <3>6 DEF InOrder
  <2>3. CASE busy.from # c
    <3>1. wants'[c] = wants[c]
      BY <1>9, <2>3 DEF Answer, TypeOK
    <3> QED BY <1>3, <2>1, <3>1 DEF InOrder
  <2> QED BY <2>2, <2>3
<1>10. ASSUME CallFails \/ AnswerLost PROVE InOrder(c)'
  BY <1>3, <1>10 DEF CallFails, AnswerLost, Finish, clients, InOrder
<1>11. ASSUME UNCHANGED <<guard, busy, ran, name, net, wants>> PROVE InOrder(c)'
  BY <1>3, <1>11 DEF InOrder
<1> QED
  BY <1>1, <1>5, <1>6, <1>7, <1>8, <1>9, <1>10, <1>11 DEF Next, SetAcl, vars, service, clients

\* Messages come from their clients, who make them of the request they are at.
LEMMA MadeStep == TypeOK /\ Made /\ [Next]_vars => Made'
<1> USE PublisherAssumption
<1> SUFFICES ASSUME TypeOK, Made, [Next]_vars, NEW m \in (net \union guard)'
             PROVE  (m.number < wants[m.from] \/ (m.number = wants[m.from] /\ m.copy <= copies[m.from]))'
  BY DEF Made
<1> DEFINE Old == m.number < wants[m.from] \/ (m.number = wants[m.from] /\ m.copy <= copies[m.from])
<1>0. m \in net \union guard => Old /\ m \in Message
  <2>1. m \in net \union guard => Old
    BY DEF Made
  <2> QED BY <2>1 DEF TypeOK
<1>1. ASSUME NEW c \in Clients, Send(c)
      PROVE  (m.number < wants[m.from] \/ (m.number = wants[m.from] /\ m.copy <= copies[m.from]))'
  <2>1. wants' = wants /\ copies' = [copies EXCEPT ![c] = @ + 1] /\ copies[c] \in Nat
    BY <1>1 DEF Send, TypeOK
  <2>2. CASE m = [from |-> c, number |-> wants[c], copy |-> copies[c] + 1]
    BY <2>1, <2>2 DEF TypeOK
  <2>3. CASE m \in net \union guard
    <3>1. Old /\ m.from \in Clients /\ m.copy \in Nat /\ copies[m.from] \in Nat
      BY <1>0, <2>3 DEF TypeOK, Message
    <3>2. copies'[m.from] = copies[m.from] \/ copies'[m.from] = copies[m.from] + 1
      BY <2>1, <3>1 DEF TypeOK
    <3> QED BY <2>1, <3>1, <3>2
  <2> QED BY <1>1, <2>2, <2>3 DEF Send, Copy, service
<1>2. ASSUME Answer
      PROVE  (m.number < wants[m.from] \/ (m.number = wants[m.from] /\ m.copy <= copies[m.from]))'
  <2>1. Old /\ m \in Message
    BY <1>0, <1>2 DEF Answer
  <2>2. m.number \in Nat /\ wants[m.from] \in Nat
    BY <2>1 DEF TypeOK, Message, Numbers
  <2>3. m.from \in Clients
    BY <2>1 DEF Message
  <2>4. CASE m.from = busy.from /\ busy.number = wants[busy.from]
    <3>1. wants'[m.from] = wants[m.from] + 1
      BY <1>2, <2>3, <2>4 DEF Answer, TypeOK
    <3> QED BY <2>1, <2>2, <3>1
  <2>5. CASE ~(m.from = busy.from /\ busy.number = wants[busy.from])
    <3>1. wants'[m.from] = wants[m.from] /\ copies'[m.from] = copies[m.from]
      BY <1>2, <2>3, <2>5 DEF Answer, TypeOK
    <3> QED BY <2>1, <3>1
  <2> QED BY <2>4, <2>5
<1>3. CASE net' \union guard' \subseteq net \union guard /\ UNCHANGED clients
  <2>1. Old /\ wants' = wants /\ copies' = copies
    BY <1>0, <1>3 DEF clients
  <2> QED BY <2>1
<1>4. ASSUME NEW n \in Message, Receive(n)
      PROVE  net' \union guard' \subseteq net \union guard /\ UNCHANGED clients
  BY <1>4 DEF Receive, Remembered
<1> QED
  BY <1>1, <1>2, <1>3, <1>4
     DEF Next, SetAcl, Lose, Land, CallFails, AnswerLost, Crash, vars, service, clients

----
LEMMA Invariance == Spec => []IInv
<1>1. Init => IInv
  <2> SUFFICES ASSUME Init PROVE IInv
    OBVIOUS
  <2>1. TypeOK
    <3>1. landed \in BOOLEAN /\ crashed \in BOOLEAN
      BY DEF Init
    <3>2. name \in [Clients -> 0..Last] /\ done \in [Clients -> SUBSET Numbers]
      BY PublisherAssumption DEF Init
    <3>3. wants \in [Clients -> 1..(Last + 1)] /\ copies \in [Clients -> 0..MaxCopies]
      BY PublisherAssumption DEF Init
    <3> QED BY PublisherAssumption, <3>1, <3>2, <3>3 DEF Init, TypeOK
  <2>2. GuardIsExact /\ BusyIsRan
    BY DEF Init, GuardIsExact, BusyIsRan
  <2>3. AnsweredIsDone
    <3>1. \A c \in Clients : wants[c] = 1
      BY DEF Init
    <3>2. 1..(1 - 1) = {}
      OBVIOUS
    <3> QED BY <3>1, <3>2 DEF AnsweredIsDone
  <2>4. Orderly
    <3> SUFFICES ASSUME NEW c \in Clients PROVE InOrder(c)
      BY DEF Orderly
    <3>1. wants[c] = 1 /\ name[c] = 0 /\ net \union guard = {} /\ busy = None
      BY DEF Init
    <3>2. \A n \in Numbers : ~(n < wants[c])
      BY PublisherAssumption, <3>1 DEF Numbers
    <3> QED BY <3>1, <3>2 DEF InOrder
  <2>5. Made
    BY DEF Init, Made
  <2> QED BY <2>1, <2>2, <2>3, <2>4, <2>5 DEF IInv
<1>2. IInv /\ [Next]_vars => IInv'
  BY TypeStep, GuardStep, DoneStep, OrderStep, MadeStep DEF IInv
<1> QED BY <1>1, <1>2, PTL DEF Spec

\* The variables of Publisher stay within their types.
THEOREM TypeCorrect == Spec => []TypeOK
<1>1. IInv => TypeOK
  BY DEF IInv
<1> QED BY Invariance, <1>1, PTL

\* Of the valid messages, the guard remembers those that went to Kubo and no others
\* (check_full before check_and_insert).
THEOREM GuardRemembersWhatRan == Spec => []GuardIsExact
<1>1. IInv => GuardIsExact
  BY DEF IInv
<1> QED BY Invariance, <1>1, PTL

\* In the life of a process a message goes to Kubo once (ReplayGuard).
THEOREM MessagesRunOnce == Spec => OncePerProcess
<1>1. IInv /\ [Next]_vars => [busy' # busy /\ busy' # None => busy' \notin ran]_vars
  <2> SUFFICES ASSUME IInv, [Next]_vars, busy' # busy, busy' # None PROVE busy' \notin ran
    OBVIOUS
  <2>1. PICK m \in Message : Receive(m)
    BY DEF Next, Send, SetAcl, Lose, Land, CallFails, Answer, AnswerLost, Crash, Finish,
           vars, service, clients
  <2>2. busy' = m /\ m \notin guard
    BY <2>1 DEF Receive, Accepts
  <2> QED BY <2>2 DEF IInv, GuardIsExact
<1> QED BY Invariance, <1>1, PTL DEF Spec, OncePerProcess

\* The name of a client who sends each request once, to one process, never goes back to
\* an older document, whatever the network does with his messages.
THEOREM NamesGoForward == Spec => NameNeverGoesBack
<1>1. IInv /\ [Next]_vars
      => [\A c \in Clients : ~crashed /\ c \notin resent => name'[c] >= name[c]]_vars
  <2> SUFFICES ASSUME IInv, [Next]_vars, NEW c \in Clients, ~crashed, c \notin resent
               PROVE name'[c] >= name[c]
    OBVIOUS
  <2>1. name[c] \in Nat /\ InOrder(c)
    BY DEF IInv, TypeOK, Orderly
  <2>2. CASE Land
    <3>1. CASE busy.from = c /\ Request(busy) \notin Stores
      <4>1. name'[c] = wants[c] /\ wants[c] \in Nat
        BY <2>1, <2>2, <3>1 DEF Land, InOrder, IInv, TypeOK
      <4> QED BY <2>1, <4>1 DEF InOrder
    <3>2. CASE ~(busy.from = c /\ Request(busy) \notin Stores)
      <4>1. name'[c] = name[c]
        BY <2>2, <3>2 DEF Land, IInv, TypeOK
      <4> QED BY <2>1, <4>1
    <3> QED BY <3>1, <3>2
  <2>3. CASE ~Land
    <3>1. name' = name
      BY <2>3 DEF Next, Send, SetAcl, Lose, Receive, CallFails, Answer, AnswerLost, Crash,
                  vars, service, clients
    <3> QED BY <2>1, <3>1
  <2> QED BY <2>2, <2>3
<1> QED BY Invariance, <1>1, PTL DEF Spec, NameNeverGoesBack

----
(* The refinement *)

LEMMA StepRefines == IInv /\ [Next]_vars => [Service!Next]_(Service!vars)
<1> SUFFICES ASSUME IInv, [Next]_vars PROVE [Service!Next]_(Service!vars)
  OBVIOUS
<1> USE DEF Service!vars
<1>1. CASE Land
  <2> DEFINE c == busy.from
             n == busy.number
  <2>1. busy \in net \union guard /\ busy \in Message /\ <<c, n>> \notin Invalid
    BY <1>1 DEF Land, IInv, BusyIsRan, GuardIsExact, TypeOK, Request
  <2>2. c \in Clients /\ n \in 1..Last
    BY <2>1 DEF Message, Numbers
  <2>3. n <= wants[c]
    <3>1. n \in Nat /\ wants[c] \in Nat
      BY <2>2, PublisherAssumption DEF IInv, TypeOK
    <3> QED BY <2>1, <3>1 DEF IInv, Made
  <2>4. Service!Perform(c, n)
    BY <1>1, <2>1, <2>3 DEF Land, Request, clients, Service!Perform
  <2> QED BY <2>2, <2>4 DEF Service!Next
<1>2. CASE Answer
  <2>1. busy.from \in Clients /\ busy.number \in done[busy.from]
    BY <1>2 DEF Answer, MayAnswer, IInv, BusyIsRan, TypeOK, Message
  <2>2. CASE busy.number = wants[busy.from]
    <3>1. Service!GoOn(busy.from)
      BY <1>2, <2>1, <2>2 DEF Answer, Service!GoOn
    <3> QED BY <2>1, <3>1 DEF Service!Next
  <2>3. CASE busy.number # wants[busy.from]
    BY <1>2, <2>3 DEF Answer
  <2> QED BY <2>2, <2>3
<1> QED
  BY <1>1, <1>2
     DEF Next, Send, SetAcl, Lose, Receive, CallFails, AnswerLost, Crash, vars, service, clients

\* The daemon, its network and its clients implement the service: requests are carried
\* out on behalf of the client who has come to them, valid ones only, and a client goes
\* on when his request is done (handle_ipfs_message, handle_ipfs_store).
THEOREM Refinement == Spec => ImplementsService
<1>1. Init => Service!Init
  BY DEF Init, Service!Init
<1> QED BY <1>1, StepRefines, Invariance, PTL DEF Spec, ImplementsService, Service!Spec

----
(* Retries *)

\* Message k of the request client c is at can still get it done: it is under way and
\* the guard does not know it, or its request is at Kubo.
Copied(c, k) == [from |-> c, number |-> wants[c], copy |-> k]

Live(c, k) == Copied(c, k) \in (net \ guard) \union ({busy} \ {None})

\* The messages made in vain.
Spent(c) == {k \in 1..copies[c] : ~Live(c, k)}

\* A thing that goes wrong costs a client one message of a request at most.
OneFaultEach(c) == Cardinality(Spent(c)) <= faults

\* There is a message that can get the request done, or there may be.
CanRetry(c) == wants[c] <= Last => copies[c] < MaxCopies \/ \E k \in 1..MaxCopies : Live(c, k)

\* Of a client with rights and valid requests a step spends no message, or one, and then
\* something goes wrong.
LEMMA SpentStep ==
  ASSUME IInv, [Next]_vars, NEW c \in Clients, c \in acl,
         \A n \in Numbers : <<c, n>> \notin Invalid
  PROVE  \/ Spent(c)' \subseteq Spent(c) /\ faults <= faults'
         \/ faults' = faults + 1 /\ \E j \in 1..copies[c] : Spent(c)' \subseteq Spent(c) \union {j}
<1> USE PublisherAssumption
<1>1. faults \in Nat /\ copies[c] \in Nat /\ wants[c] \in Nat
  BY DEF IInv, TypeOK
<1>2. ASSUME NEW d \in Clients, Send(d)
      PROVE  Spent(c)' \subseteq Spent(c) /\ faults <= faults'
  <2>1. /\ faults' = faults /\ wants' = wants /\ guard' = guard /\ busy' = busy
        /\ net \subseteq net'
    BY <1>2 DEF Send, service
  <2>2. \A k : Live(c, k) => Live(c, k)'
    BY <2>1 DEF Live, Copied
  <2>3. CASE d = c
    <3> SUFFICES ASSUME NEW k \in Spent(c)'
                 PROVE  k \in Spent(c)
      BY <1>1, <2>1
    <3>1. copies'[c] = copies[c] + 1 /\ net' = net \union {Copied(c, copies[c] + 1)}
      BY <1>2, <2>3 DEF Send, Copy, Copied, IInv, TypeOK
    <3>2. k \in 1..(copies[c] + 1) /\ ~Live(c, k)'
      BY <3>1 DEF Spent
    <3>3. ASSUME k = copies[c] + 1
          PROVE  FALSE
      <4>1. Copied(c, k) \in guard
        BY <2>1, <3>1, <3>2, <3>3 DEF Live, Copied
      <4>2. wants[c] < wants[c] \/ copies[c] + 1 <= copies[c]
        BY <3>3, <4>1 DEF Copied, IInv, Made
      <4> QED BY <1>1, <4>2
    <3> QED BY <1>1, <2>2, <3>2, <3>3 DEF Spent
  <2>4. CASE d # c
    <3>1. copies'[c] = copies[c]
      BY <1>2, <2>4 DEF Send, IInv, TypeOK
    <3> QED BY <1>1, <2>1, <2>2, <3>1 DEF Spent
  <2> QED BY <2>3, <2>4
<1>3. ASSUME NEW m \in Message, Lose(m)
      PROVE  faults' = faults + 1 /\ (Spent(c)' \subseteq Spent(c)
                 \/ \E j \in 1..copies[c] : Spent(c)' \subseteq Spent(c) \union {j})
  <2>1. UNCHANGED <<wants, copies, guard, busy>> /\ net' = net \ {m} /\ faults' = faults + 1
    BY <1>3 DEF Lose, Fault, service, clients
  <2>2. \A k : Live(c, k) /\ k # m.copy => Live(c, k)'
    BY <2>1 DEF Live, Copied
  <2> QED BY <2>1, <2>2 DEF Spent
<1>4. ASSUME NEW m \in Message, Receive(m)
      PROVE  Spent(c)' \subseteq Spent(c) /\ faults <= faults'
  <2>1. UNCHANGED <<wants, copies>> /\ faults <= faults'
    BY <1>1, <1>4 DEF Receive, clients, Fault
  <2>2. ASSUME NEW k \in 1..copies[c], Live(c, k)
        PROVE  Copied(c, k) \in net /\ Copied(c, k) \notin guard
    BY <1>4, <2>2 DEF Receive, Live
  <2>3. ASSUME NEW k \in 1..copies[c], Live(c, k), Copied(c, k) # m
        PROVE  Live(c, k)'
    <3>1. Copied(c, k) \in net' /\ Copied(c, k) \notin guard'
      BY <1>4, <2>2, <2>3 DEF Receive, Remembered
    <3> QED BY <2>1, <3>1 DEF Live, Copied
  <2>4. ASSUME NEW k \in 1..copies[c], Live(c, k), Copied(c, k) = m
        PROVE  Live(c, k)'
    <3>1. m \notin guard
      BY <2>2, <2>4
    <3>2. m.from = c /\ Request(m) \notin Invalid
      BY <2>4 DEF Request, Copied, Message
    <3>3. busy' = m
      BY <1>4, <3>1, <3>2 DEF Receive, Accepts
    <3> QED BY <2>1, <2>4, <3>3 DEF Live, Copied
  <2> QED BY <2>1, <2>3, <2>4 DEF Spent
<1>5. ASSUME CallFails \/ AnswerLost \/ Crash
      PROVE  faults' = faults + 1 /\ (Spent(c)' \subseteq Spent(c)
                 \/ \E j \in 1..copies[c] : Spent(c)' \subseteq Spent(c) \union {j})
  <2>1. UNCHANGED <<wants, copies, net>> /\ guard' \subseteq guard /\ faults' = faults + 1
    BY <1>5 DEF CallFails, AnswerLost, Crash, Fault, clients
  <2>2. \A k : Live(c, k) /\ k # busy.copy => Live(c, k)'
    BY <2>1 DEF Live, Copied
  <2> QED BY <2>1, <2>2 DEF Spent
<1>6. ASSUME Answer
      PROVE  Spent(c)' \subseteq Spent(c) /\ faults <= faults'
  <2>1. UNCHANGED <<net, guard, faults>>
    BY <1>6 DEF Answer
  <2>2. CASE busy.from = c /\ busy.number = wants[c]
    <3>1. copies'[c] = 0
      BY <1>6, <2>2 DEF Answer, IInv, TypeOK
    <3>2. 1..0 = {}
      OBVIOUS
    <3> QED BY <1>1, <2>1, <3>1, <3>2 DEF Spent
  <2>3. CASE ~(busy.from = c /\ busy.number = wants[c])
    <3>1. wants'[c] = wants[c] /\ copies'[c] = copies[c]
      BY <1>6, <2>3 DEF Answer, IInv, TypeOK
    <3>2. \A k : Live(c, k) => Live(c, k)'
      BY <2>1, <2>3, <3>1 DEF Live, Copied
    <3> QED BY <1>1, <2>1, <3>1, <3>2 DEF Spent
  <2> QED BY <2>2, <2>3
<1>7. ASSUME UNCHANGED <<net, guard, busy, wants, copies>>, faults <= faults'
      PROVE  Spent(c)' \subseteq Spent(c) /\ faults <= faults'
  BY <1>7 DEF Spent, Live, Copied
<1> QED
  BY <1>1, <1>2, <1>3, <1>4, <1>5, <1>6, <1>7
     DEF Next, SetAcl, Land, Fault, vars, service, clients

LEMMA SpentIsFinite ==
  ASSUME TypeOK, NEW c \in Clients
  PROVE  IsFiniteSet(Spent(c)) /\ Cardinality(Spent(c)) \in Nat
<1>1. IsFiniteSet(1..copies[c])
  BY FS_Interval, PublisherAssumption DEF TypeOK
<1>2. Spent(c) \subseteq 1..copies[c]
  BY DEF Spent
<1> QED BY <1>1, <1>2, FS_Subset, FS_CardinalityType

LEMMA OneFaultStep ==
  ASSUME IInv, IInv', [Next]_vars, NEW c \in Clients, c \in acl,
         \A n \in Numbers : <<c, n>> \notin Invalid, OneFaultEach(c)
  PROVE  OneFaultEach(c)'
<1>1. IsFiniteSet(Spent(c)) /\ Cardinality(Spent(c)) \in Nat
  BY SpentIsFinite DEF IInv
<1>2. Cardinality(Spent(c)') \in Nat
  <2>1. IsFiniteSet(1..copies'[c])
    BY FS_Interval, PublisherAssumption DEF IInv, TypeOK
  <2>2. Spent(c)' \subseteq 1..copies'[c]
    BY DEF Spent
  <2> QED BY <2>1, <2>2, FS_Subset, FS_CardinalityType
<1>3. faults \in Nat /\ faults' \in Nat
  BY PublisherAssumption DEF IInv, TypeOK
<1>4. CASE Spent(c)' \subseteq Spent(c) /\ faults <= faults'
  <2>1. Cardinality(Spent(c)') <= Cardinality(Spent(c))
    BY <1>1, <1>4, FS_Subset
  <2> QED BY <1>1, <1>2, <1>3, <1>4, <2>1 DEF OneFaultEach
<1>5. ASSUME NEW j, faults' = faults + 1, Spent(c)' \subseteq Spent(c) \union {j}
      PROVE  OneFaultEach(c)'
  <2>1. /\ IsFiniteSet(Spent(c) \union {j})
        /\ Cardinality(Spent(c) \union {j}) \in {Cardinality(Spent(c)), Cardinality(Spent(c)) + 1}
    BY <1>1, FS_AddElement
  <2>2. Cardinality(Spent(c)') <= Cardinality(Spent(c) \union {j})
    BY <1>5, <2>1, FS_Subset
  <2>3. Cardinality(Spent(c) \union {j}) \in Nat
    BY <2>1, FS_CardinalityType
  <2> QED BY <1>1, <1>2, <1>3, <1>5, <2>1, <2>2, <2>3 DEF OneFaultEach
<1> QED BY <1>4, <1>5, SpentStep

\* A client who keeps his rights and whose requests are valid is never stuck: while he
\* has no answer, one of his messages can get his request done or he may make one that
\* can, if he makes more messages of a request than things go wrong. For this the retry
\* has to be a new message, and the guard must not know a message that was turned away
\* (handle_ipfs_message).
THEOREM RetriesSuffice ==
  ASSUME NEW c \in Clients, \A n \in Numbers : <<c, n>> \notin Invalid, MaxCopies > MaxFaults
  PROVE  Spec /\ [](c \in acl) => []CanRetry(c)
<1>1. Init => OneFaultEach(c)
  <2> SUFFICES ASSUME Init PROVE OneFaultEach(c)
    OBVIOUS
  <2>1. copies[c] = 0 /\ faults = 0
    BY DEF Init
  <2>2. Spent(c) = {}
    BY <2>1 DEF Spent
  <2> QED BY <2>1, <2>2, FS_EmptySet DEF OneFaultEach
<1>2. IInv /\ IInv' /\ [Next]_vars /\ c \in acl /\ OneFaultEach(c) => OneFaultEach(c)'
  BY OneFaultStep
<1>3. IInv /\ OneFaultEach(c) => CanRetry(c)
  <2> SUFFICES ASSUME IInv, OneFaultEach(c), ~(copies[c] < MaxCopies),
                      \A k \in 1..MaxCopies : ~Live(c, k)
               PROVE  FALSE
    BY DEF CanRetry
  <2>1. copies[c] = MaxCopies /\ faults <= MaxFaults /\ faults \in Nat
    BY PublisherAssumption DEF IInv, TypeOK
  <2>2. Spent(c) = 1..MaxCopies
    BY <2>1 DEF Spent
  <2>3. Cardinality(1..MaxCopies) = MaxCopies
    BY PublisherAssumption, FS_Interval
  <2> QED BY <2>1, <2>2, <2>3, PublisherAssumption DEF OneFaultEach
<1> QED BY <1>1, <1>2, <1>3, Invariance, PTL DEF Spec

====
