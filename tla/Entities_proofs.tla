---- MODULE Entities_proofs ----
(***************************************************************************)
(* Proofs about Entities, for any sets of entities, ACL names, callers and *)
(* documents.                                                              *)
(*                                                                         *)
(* The invariants the runs check do not stand alone. Admission rests on    *)
(* the cache being the library's, or a part of it (CacheFollows); stale    *)
(* requests rest on knowing who is still to drain a queue (QueuesOwned);   *)
(* and both on a process beginning with nothing in memory (BeginsBlank).   *)
(* Inv collects them, with the types.                                      *)
(***************************************************************************)
EXTENDS Entities, TLAPS

BeginsBlank == mode = "down" => Memory

WhoIsKnown == main.pc # "idle" => main.who \in Names

CacheFollows ==
    /\ mode = "up" /\ ~missed => cache = manifest.acls
    /\ \A l \in AclNames : cache[l] # None => manifest.acls[l] # None

Admitted == OnlyLinkedAclAdmits /\ AdmittedByManifest

Owned(n) == n \in busy \/ (main.pc = "called" /\ main.who = n)

QueuesOwned == ~trapped => \A n \in Names : queue[n] # {} => Owned(n)

Inv ==
    /\ TypeOK /\ BeginsBlank /\ WhoIsKnown
    /\ LiveIsKept
    /\ CacheFollows /\ Admitted
    /\ QueuesOwned

----

\* One row of a table replaced by a well typed one.
LEMMA RowTyped ==
  ASSUME NEW t \in Table, NEW n \in Names, NEW x \in Nodes \union {NoNode}
  PROVE  [t EXCEPT ![n] = x] \in Table
BY DEF Table

\* A plugin replaced or removed.
LEMMA ReplacedTyped ==
  ASSUME TypeOK, NEW n \in Names, NEW x \in Nodes \union {NoNode}, Replaced(n, x)
  PROVE  live' \in Table /\ queue' \in [Names -> SUBSET Names] /\ busy' \subseteq Names
BY RowTyped DEF TypeOK, Replaced

\* An entity link of the manifest written.
LEMMA WrittenTyped ==
  ASSUME TypeOK, NEW n \in Names, NEW x \in Nodes \union {NoNode}, NodeWritten(n, x)
  PROVE  manifest' \in [node : Table, acls : Acls]
<1>1. manifest.node \in Table
  BY DEF TypeOK
<1>2. [manifest.node EXCEPT ![n] = x] \in Table
  BY <1>1, RowTyped
<1>3. QED
  BY <1>2 DEF TypeOK, NodeWritten

\* Requests added to a queue.
LEMMA QueuedTyped ==
  ASSUME TypeOK, NEW n \in Names, NEW asked \in SUBSET Names
  PROVE  [queue EXCEPT ![n] = @ \union asked] \in [Names -> SUBSET Names]
BY DEF TypeOK


\* Types are kept by every step.
LEMMA TypeStep ==
  ASSUME TypeOK, WhoIsKnown, [Next]_vars  PROVE TypeOK'
<1>1. CASE Start
  <2>1. manifest' \in [node : Table, acls : Acls]
    BY <1>1 DEF Start
  <2>2. live' \in Table
    BY <1>1, <2>1 DEF Start, Table
  <2>3. cache' \in Acls
    BY <1>1, <2>1 DEF Start, Acls
  <2>4. QED
    BY <1>1, <2>1, <2>2, <2>3 DEF Start, TypeOK
<1>2. CASE Stop
  BY <1>2 DEF Stop, Empty, NoCache, NoQueues, Idle, TypeOK, Table, Nodes, NoNode, Acls
<1>3. ASSUME NEW n \in Names, NEW l \in AclNames \union {None}, SetEntityAcl(n, l)
    PROVE TypeOK'
  <2> DEFINE x == [manifest.node[n] EXCEPT !.acl = l]
  <2>1. manifest.node[n] \in Nodes
    BY <1>3 DEF SetEntityAcl, Known, TypeOK, Table, NoNode
  <2>2. x \in Nodes
    BY <2>1 DEF Nodes
  <2>3. manifest' \in [node : Table, acls : Acls]
    BY <1>3, <2>2, WrittenTyped DEF SetEntityAcl
  <2>4. QED
    BY <1>3, <2>3 DEF SetEntityAcl, TypeOK
<1>4. ASSUME NEW n \in Names, NEW x \in Nodes, Upsert(n, x)  PROVE TypeOK'
  BY <1>4, WrittenTyped, ReplacedTyped DEF Upsert, TypeOK
<1>5. ASSUME NEW n \in Names, Delete(n)  PROVE TypeOK'
  BY <1>5, WrittenTyped, ReplacedTyped DEF Delete, TypeOK
<1>6. ASSUME NEW l \in AclNames, NEW d \in Docs, SetAcl(l, d)  PROVE TypeOK'
  <2>1. manifest' \in [node : Table, acls : Acls]
    BY <1>6 DEF SetAcl, TypeOK, Acls
  <2>2. cache' \in Acls
    BY <1>6 DEF SetAcl, Cached, TypeOK, Acls
  <2>3. QED
    BY <1>6, <2>1, <2>2 DEF SetAcl, TypeOK
<1>7. ASSUME NEW l \in AclNames, DeleteAcl(l)  PROVE TypeOK'
  BY <1>7 DEF DeleteAcl, Cached, TypeOK, Table, Nodes, NoNode, Acls
<1>8. ASSUME NEW c \in Callers, NEW n \in Names, Dispatch(c, n)  PROVE TypeOK'
  <2>1. queue' \in [Names -> SUBSET Names]
    BY <1>8, QueuedTyped DEF Dispatch
  <2>2. main' \in [pc : {"idle", "called", "deleting"}, who : Names \union {None},
                   caller : Callers \union {None}, todo : SUBSET Names]
    BY <1>8 DEF Dispatch, TypeOK
  <2>3. trapped' \in BOOLEAN
    BY <1>8 DEF Dispatch, TypeOK
  <2>4. QED
    BY <1>8, <2>1, <2>2, <2>3 DEF Dispatch, TypeOK
<1>9. CASE TakeRequests
  <2>1. main.who \in Names
    BY <1>9 DEF TakeRequests, WhoIsKnown
  <2>2. queue[main.who] \in SUBSET Names /\ queue' \in [Names -> SUBSET Names]
    BY <1>9, <2>1 DEF TakeRequests, Emptied, TypeOK
  <2>3. QED
    BY <1>9, <2>2 DEF TakeRequests, TypeOK
<1>10. ASSUME NEW t \in Names, DeleteRequested(t)  PROVE TypeOK'
  BY <1>10, ReplacedTyped DEF DeleteRequested, TypeOK
<1>11. CASE Answered
  BY <1>11 DEF Answered, Idle, TypeOK, Table, Nodes, NoNode, Acls
<1>12. ASSUME NEW n \in Names, ScheduledCall(n)  PROVE TypeOK'
  <2>1. queue' \in [Names -> SUBSET Names]
    BY <1>12, QueuedTyped DEF ScheduledCall
  <2>2. QED
    BY <1>12, <2>1 DEF ScheduledCall, TypeOK
<1>13. ASSUME NEW n \in Names, ScheduledTake(n)  PROVE TypeOK'
  BY <1>13 DEF ScheduledTake, Emptied, TypeOK, Table, Nodes, NoNode, Acls
<1>14. CASE UNCHANGED vars
  BY <1>14 DEF vars, TypeOK, Table, Nodes, NoNode, Acls
<1>15. QED
  BY <1>1, <1>2, <1>3, <1>4, <1>5, <1>6, <1>7, <1>8, <1>9, <1>10, <1>11, <1>12, <1>13,
      <1>14 DEF Next, Crud, Rpc, Scheduled

\* A process that is not running has nothing in memory.
LEMMA BlankStep ==
  ASSUME TypeOK, BeginsBlank, [Next]_vars  PROVE BeginsBlank'
<1>1. CASE Start
  BY <1>1 DEF Start, BeginsBlank
<1>2. CASE Stop
  BY <1>2 DEF Stop, Empty, NoCache, NoQueues, Idle, Memory, BeginsBlank
<1>3. ASSUME NEW n \in Names, NEW l \in AclNames \union {None}, SetEntityAcl(n, l)
    PROVE BeginsBlank'
  BY <1>3 DEF SetEntityAcl, NodeWritten, Known, Serving, BeginsBlank
<1>4. ASSUME NEW n \in Names, NEW x \in Nodes, Upsert(n, x)  PROVE BeginsBlank'
  BY <1>4 DEF Upsert, NodeWritten, Replaced, Serving, BeginsBlank
<1>5. ASSUME NEW n \in Names, Delete(n)  PROVE BeginsBlank'
  BY <1>5 DEF Delete, NodeWritten, Replaced, Serving, BeginsBlank
<1>6. ASSUME NEW l \in AclNames, NEW d \in Docs, SetAcl(l, d)  PROVE BeginsBlank'
  BY <1>6 DEF SetAcl, Cached, Serving, BeginsBlank
<1>7. ASSUME NEW l \in AclNames, DeleteAcl(l)  PROVE BeginsBlank'
  BY <1>7 DEF DeleteAcl, Cached, Serving, BeginsBlank
<1>8. ASSUME NEW c \in Callers, NEW n \in Names, Dispatch(c, n)  PROVE BeginsBlank'
  BY <1>8 DEF Dispatch, Serving, BeginsBlank
<1>9. CASE TakeRequests
  BY <1>9 DEF TakeRequests, Emptied, BeginsBlank
<1>10. ASSUME NEW t \in Names, DeleteRequested(t)  PROVE BeginsBlank'
  BY <1>10 DEF DeleteRequested, Replaced, BeginsBlank
<1>11. CASE Answered
  BY <1>11 DEF Answered, Idle, BeginsBlank
<1>12. ASSUME NEW n \in Names, ScheduledCall(n)  PROVE BeginsBlank'
  BY <1>12 DEF ScheduledCall, BeginsBlank
<1>13. ASSUME NEW n \in Names, ScheduledTake(n)  PROVE BeginsBlank'
  BY <1>13 DEF ScheduledTake, Emptied, BeginsBlank
<1>14. CASE UNCHANGED vars
  BY <1>14 DEF vars, BeginsBlank, Memory
<1>15. QED
  BY <1>1, <1>2, <1>3, <1>4, <1>5, <1>6, <1>7, <1>8, <1>9, <1>10, <1>11, <1>12, <1>13,
      <1>14 DEF Next, Crud, Rpc, Scheduled

\* A request being handled is for an entity.
LEMMA WhoStep ==
  ASSUME TypeOK, WhoIsKnown, [Next]_vars  PROVE WhoIsKnown'
<1>1. CASE Start
  BY <1>1 DEF Start, TypeOK, WhoIsKnown
<1>2. CASE Stop
  BY <1>2 DEF Stop, Empty, NoCache, NoQueues, Idle, TypeOK, WhoIsKnown
<1>3. ASSUME NEW n \in Names, NEW l \in AclNames \union {None}, SetEntityAcl(n, l)
    PROVE WhoIsKnown'
  BY <1>3 DEF SetEntityAcl, NodeWritten, Known, TypeOK, WhoIsKnown
<1>4. ASSUME NEW n \in Names, NEW x \in Nodes, Upsert(n, x)  PROVE WhoIsKnown'
  BY <1>4 DEF Upsert, NodeWritten, Replaced, TypeOK, WhoIsKnown
<1>5. ASSUME NEW n \in Names, Delete(n)  PROVE WhoIsKnown'
  BY <1>5 DEF Delete, NodeWritten, Replaced, TypeOK, WhoIsKnown
<1>6. ASSUME NEW l \in AclNames, NEW d \in Docs, SetAcl(l, d)  PROVE WhoIsKnown'
  BY <1>6 DEF SetAcl, Cached, TypeOK, WhoIsKnown
<1>7. ASSUME NEW l \in AclNames, DeleteAcl(l)  PROVE WhoIsKnown'
  BY <1>7 DEF DeleteAcl, Cached, TypeOK, WhoIsKnown
<1>8. ASSUME NEW c \in Callers, NEW n \in Names, Dispatch(c, n)  PROVE WhoIsKnown'
  BY <1>8 DEF Dispatch, TypeOK, WhoIsKnown
<1>9. CASE TakeRequests
  BY <1>9 DEF TakeRequests, Emptied, TypeOK, WhoIsKnown
<1>10. ASSUME NEW t \in Names, DeleteRequested(t)  PROVE WhoIsKnown'
  BY <1>10 DEF DeleteRequested, Replaced, TypeOK, WhoIsKnown
<1>11. CASE Answered
  BY <1>11 DEF Answered, Idle, TypeOK, WhoIsKnown
<1>12. ASSUME NEW n \in Names, ScheduledCall(n)  PROVE WhoIsKnown'
  BY <1>12 DEF ScheduledCall, TypeOK, WhoIsKnown
<1>13. ASSUME NEW n \in Names, ScheduledTake(n)  PROVE WhoIsKnown'
  BY <1>13 DEF ScheduledTake, Emptied, TypeOK, WhoIsKnown
<1>14. CASE UNCHANGED vars
  BY <1>14 DEF vars, TypeOK, WhoIsKnown
<1>15. QED
  BY <1>1, <1>2, <1>3, <1>4, <1>5, <1>6, <1>7, <1>8, <1>9, <1>10, <1>11, <1>12, <1>13,
      <1>14 DEF Next, Crud, Rpc, Scheduled

\* Upsert writes the manifest first, delete the registry first; no other step takes a
\* node from the manifest or adds a plugin, but for the start, which loads from it.
LEMMA KeptStep ==
  ASSUME TypeOK, LiveIsKept, [Next]_vars  PROVE LiveIsKept'
<1>1. CASE Start
  BY <1>1 DEF Start, TypeOK, LiveIsKept, Table, Nodes, NoNode
<1>2. CASE Stop
  BY <1>2 DEF Stop, Empty, NoCache, NoQueues, Idle, TypeOK, LiveIsKept, Table, Nodes,
      NoNode
<1>3. ASSUME NEW n \in Names, NEW l \in AclNames \union {None}, SetEntityAcl(n, l)
    PROVE LiveIsKept'
  BY <1>3 DEF SetEntityAcl, NodeWritten, Known, TypeOK, LiveIsKept, Table, Nodes, NoNode
<1>4. ASSUME NEW n \in Names, NEW x \in Nodes, Upsert(n, x)  PROVE LiveIsKept'
  BY <1>4 DEF Upsert, NodeWritten, Replaced, TypeOK, LiveIsKept, Table, Nodes, NoNode
<1>5. ASSUME NEW n \in Names, Delete(n)  PROVE LiveIsKept'
  BY <1>5 DEF Delete, NodeWritten, Replaced, TypeOK, LiveIsKept, Table, Nodes, NoNode
<1>6. ASSUME NEW l \in AclNames, NEW d \in Docs, SetAcl(l, d)  PROVE LiveIsKept'
  BY <1>6 DEF SetAcl, Cached, TypeOK, LiveIsKept, Table, Nodes, NoNode
<1>7. ASSUME NEW l \in AclNames, DeleteAcl(l)  PROVE LiveIsKept'
  BY <1>7 DEF DeleteAcl, Cached, TypeOK, LiveIsKept, Table, Nodes, NoNode
<1>8. ASSUME NEW c \in Callers, NEW n \in Names, Dispatch(c, n)  PROVE LiveIsKept'
  BY <1>8 DEF Dispatch, TypeOK, LiveIsKept, Table, Nodes, NoNode
<1>9. CASE TakeRequests
  BY <1>9 DEF TakeRequests, Emptied, TypeOK, LiveIsKept, Table, Nodes, NoNode
<1>10. ASSUME NEW t \in Names, DeleteRequested(t)  PROVE LiveIsKept'
  BY <1>10 DEF DeleteRequested, Replaced, TypeOK, LiveIsKept, Table, Nodes, NoNode
<1>11. CASE Answered
  BY <1>11 DEF Answered, Idle, TypeOK, LiveIsKept, Table, Nodes, NoNode
<1>12. ASSUME NEW n \in Names, ScheduledCall(n)  PROVE LiveIsKept'
  BY <1>12 DEF ScheduledCall, TypeOK, LiveIsKept, Table, Nodes, NoNode
<1>13. ASSUME NEW n \in Names, ScheduledTake(n)  PROVE LiveIsKept'
  BY <1>13 DEF ScheduledTake, Emptied, TypeOK, LiveIsKept, Table, Nodes, NoNode
<1>14. CASE UNCHANGED vars
  BY <1>14 DEF vars, TypeOK, LiveIsKept, Table, Nodes, NoNode
<1>15. QED
  BY <1>1, <1>2, <1>3, <1>4, <1>5, <1>6, <1>7, <1>8, <1>9, <1>10, <1>11, <1>12, <1>13,
      <1>14 DEF Next, Crud, Rpc, Scheduled

\* The cache lags behind the library only after a failing fetch, and never holds an ACL
\* that is not in it.
LEMMA CacheStep ==
  ASSUME TypeOK, BeginsBlank, CacheFollows, [Next]_vars  PROVE CacheFollows'
<1>1. CASE Start
  BY <1>1 DEF Start, TypeOK, BeginsBlank, Memory, CacheFollows, Acls
<1>2. CASE Stop
  BY <1>2 DEF Stop, Empty, NoCache, NoQueues, Idle, TypeOK, BeginsBlank, Memory,
      CacheFollows, Acls
<1>3. ASSUME NEW n \in Names, NEW l \in AclNames \union {None}, SetEntityAcl(n, l)
    PROVE CacheFollows'
  BY <1>3 DEF SetEntityAcl, NodeWritten, Known, TypeOK, BeginsBlank, Memory,
      CacheFollows, Acls
<1>4. ASSUME NEW n \in Names, NEW x \in Nodes, Upsert(n, x)  PROVE CacheFollows'
  BY <1>4 DEF Upsert, NodeWritten, Replaced, TypeOK, BeginsBlank, Memory, CacheFollows,
      Acls
<1>5. ASSUME NEW n \in Names, Delete(n)  PROVE CacheFollows'
  BY <1>5 DEF Delete, NodeWritten, Replaced, TypeOK, BeginsBlank, Memory, CacheFollows,
      Acls
<1>6. ASSUME NEW l \in AclNames, NEW d \in Docs, SetAcl(l, d)  PROVE CacheFollows'
  BY <1>6, EntitiesAssumption DEF SetAcl, Serving, Cached, TypeOK, CacheFollows, Acls
<1>7. ASSUME NEW l \in AclNames, DeleteAcl(l)  PROVE CacheFollows'
  BY <1>7 DEF DeleteAcl, Cached, TypeOK, BeginsBlank, Memory, CacheFollows, Acls
<1>8. ASSUME NEW c \in Callers, NEW n \in Names, Dispatch(c, n)  PROVE CacheFollows'
  BY <1>8 DEF Dispatch, TypeOK, BeginsBlank, Memory, CacheFollows, Acls
<1>9. CASE TakeRequests
  BY <1>9 DEF TakeRequests, Emptied, TypeOK, BeginsBlank, Memory, CacheFollows, Acls
<1>10. ASSUME NEW t \in Names, DeleteRequested(t)  PROVE CacheFollows'
  BY <1>10 DEF DeleteRequested, Replaced, TypeOK, BeginsBlank, Memory, CacheFollows,
      Acls
<1>11. CASE Answered
  BY <1>11 DEF Answered, Idle, TypeOK, BeginsBlank, Memory, CacheFollows, Acls
<1>12. ASSUME NEW n \in Names, ScheduledCall(n)  PROVE CacheFollows'
  BY <1>12 DEF ScheduledCall, TypeOK, BeginsBlank, Memory, CacheFollows, Acls
<1>13. ASSUME NEW n \in Names, ScheduledTake(n)  PROVE CacheFollows'
  BY <1>13 DEF ScheduledTake, Emptied, TypeOK, BeginsBlank, Memory, CacheFollows, Acls
<1>14. CASE UNCHANGED vars
  BY <1>14 DEF vars, TypeOK, BeginsBlank, Memory, CacheFollows, Acls
<1>15. QED
  BY <1>1, <1>2, <1>3, <1>4, <1>5, <1>6, <1>7, <1>8, <1>9, <1>10, <1>11, <1>12, <1>13,
      <1>14 DEF Next, Crud, Rpc, Scheduled

\* A request passes the gate on the strength of the cache, hence of the library; while it
\* is handled the library, the registry's entry and the caller stay as they are.
LEMMA AdmittedStep ==
  ASSUME TypeOK, BeginsBlank, WhoIsKnown, CacheFollows, Admitted, [Next]_vars  PROVE
      Admitted'
<1>1. CASE Start
  <2>1. main'.pc = "idle"
    BY <1>1 DEF Start, BeginsBlank, Memory, Idle
  <2>2. QED
    BY <2>1 DEF Admitted, OnlyLinkedAclAdmits, AdmittedByManifest
<1>2. CASE Stop
  BY <1>2 DEF Stop, Empty, NoCache, NoQueues, Idle, TypeOK, Admitted,
      OnlyLinkedAclAdmits, AdmittedByManifest
<1>3. ASSUME NEW n \in Names, NEW l \in AclNames \union {None}, SetEntityAcl(n, l)
    PROVE Admitted'
  BY <1>3 DEF SetEntityAcl, NodeWritten, Known, Serving, TypeOK, Admitted,
      OnlyLinkedAclAdmits, AdmittedByManifest
<1>4. ASSUME NEW n \in Names, NEW x \in Nodes, Upsert(n, x)  PROVE Admitted'
  BY <1>4 DEF Upsert, NodeWritten, Replaced, Serving, TypeOK, Admitted,
      OnlyLinkedAclAdmits, AdmittedByManifest
<1>5. ASSUME NEW n \in Names, Delete(n)  PROVE Admitted'
  BY <1>5 DEF Delete, NodeWritten, Replaced, Serving, TypeOK, Admitted,
      OnlyLinkedAclAdmits, AdmittedByManifest
<1>6. ASSUME NEW l \in AclNames, NEW d \in Docs, SetAcl(l, d)  PROVE Admitted'
  BY <1>6 DEF SetAcl, Cached, Serving, TypeOK, Admitted, OnlyLinkedAclAdmits,
      AdmittedByManifest
<1>7. ASSUME NEW l \in AclNames, DeleteAcl(l)  PROVE Admitted'
  BY <1>7 DEF DeleteAcl, Cached, Serving, TypeOK, Admitted, OnlyLinkedAclAdmits,
      AdmittedByManifest
<1>8. ASSUME NEW c \in Callers, NEW n \in Names, Dispatch(c, n)  PROVE Admitted'
  <2> DEFINE l == live[n].acl
  <2>1. l # None /\ cache[l] # None /\ c \in cache[l]
    BY <1>8 DEF Dispatch, Gate
  <2>2. live[n] \in Nodes
    BY <1>8 DEF Dispatch, TypeOK, Table, NoNode
  <2>3. l \in AclNames
    BY <2>1, <2>2 DEF Nodes
  <2>4. manifest.acls[l] # None
    BY <2>1, <2>3 DEF CacheFollows
  <2>5. ~missed => c \in manifest.acls[l]
    BY <1>8, <2>1 DEF Dispatch, Serving, CacheFollows
  <2>6. live' = live /\ manifest' = manifest /\ missed' = missed
    BY <1>8 DEF Dispatch
  <2>7. CASE main' = [pc |-> "called", who |-> n, caller |-> c, todo |-> {}]
    <3>1. main'.who = n /\ main'.caller = c
      BY <2>7
    <3>2. QED
      BY <2>1, <2>4, <2>5, <2>6, <3>1
         DEF Admitted, OnlyLinkedAclAdmits, AdmittedByManifest
  <2>8. CASE main' = main
    BY <1>8, <2>8 DEF Dispatch, Serving, Admitted, OnlyLinkedAclAdmits,
        AdmittedByManifest
  <2>9. QED
    BY <1>8, <2>7, <2>8 DEF Dispatch
<1>9. CASE TakeRequests
  BY <1>9 DEF TakeRequests, Emptied, TypeOK, Admitted, OnlyLinkedAclAdmits,
      AdmittedByManifest
<1>10. ASSUME NEW t \in Names, DeleteRequested(t)  PROVE Admitted'
  BY <1>10 DEF DeleteRequested, Replaced, TypeOK, Admitted, OnlyLinkedAclAdmits,
      AdmittedByManifest
<1>11. CASE Answered
  BY <1>11 DEF Answered, Idle, TypeOK, Admitted, OnlyLinkedAclAdmits, AdmittedByManifest
<1>12. ASSUME NEW n \in Names, ScheduledCall(n)  PROVE Admitted'
  BY <1>12 DEF ScheduledCall, TypeOK, Admitted, OnlyLinkedAclAdmits, AdmittedByManifest
<1>13. ASSUME NEW n \in Names, ScheduledTake(n)  PROVE Admitted'
  BY <1>13 DEF ScheduledTake, Emptied, TypeOK, Admitted, OnlyLinkedAclAdmits,
      AdmittedByManifest
<1>14. CASE UNCHANGED vars
  BY <1>14 DEF vars, TypeOK, Admitted, OnlyLinkedAclAdmits, AdmittedByManifest
<1>15. QED
  BY <1>1, <1>2, <1>3, <1>4, <1>5, <1>6, <1>7, <1>8, <1>9, <1>10, <1>11, <1>12, <1>13,
      <1>14 DEF Next, Crud, Rpc, Scheduled

\* A queue is filled only by a call whose caller then drains it, or drained with the
\* plugin that held it.
LEMMA QueuesStep ==
  ASSUME TypeOK, BeginsBlank, QueuesOwned, [Next]_vars  PROVE QueuesOwned'
<1>1. CASE Start
  BY <1>1 DEF Start, BeginsBlank, Memory, Idle, TypeOK, QueuesOwned, Owned
<1>2. CASE Stop
  BY <1>2 DEF Stop, Empty, NoCache, NoQueues, Idle, TypeOK, QueuesOwned, Owned
<1>3. ASSUME NEW n \in Names, NEW l \in AclNames \union {None}, SetEntityAcl(n, l)
    PROVE QueuesOwned'
  BY <1>3 DEF SetEntityAcl, NodeWritten, Known, Serving, TypeOK, QueuesOwned, Owned
<1>4. ASSUME NEW n \in Names, NEW x \in Nodes, Upsert(n, x)  PROVE QueuesOwned'
  BY <1>4 DEF Upsert, NodeWritten, Replaced, TypeOK, QueuesOwned, Owned
<1>5. ASSUME NEW n \in Names, Delete(n)  PROVE QueuesOwned'
  BY <1>5 DEF Delete, NodeWritten, Replaced, TypeOK, QueuesOwned, Owned
<1>6. ASSUME NEW l \in AclNames, NEW d \in Docs, SetAcl(l, d)  PROVE QueuesOwned'
  BY <1>6 DEF SetAcl, Cached, TypeOK, QueuesOwned, Owned
<1>7. ASSUME NEW l \in AclNames, DeleteAcl(l)  PROVE QueuesOwned'
  BY <1>7 DEF DeleteAcl, Cached, TypeOK, QueuesOwned, Owned
<1>8. ASSUME NEW c \in Callers, NEW n \in Names, Dispatch(c, n)  PROVE QueuesOwned'
  BY <1>8 DEF Dispatch, Serving, TypeOK, QueuesOwned, Owned
<1>9. CASE TakeRequests
  BY <1>9 DEF TakeRequests, Emptied, TypeOK, QueuesOwned, Owned
<1>10. ASSUME NEW t \in Names, DeleteRequested(t)  PROVE QueuesOwned'
  BY <1>10 DEF DeleteRequested, Replaced, TypeOK, QueuesOwned, Owned
<1>11. CASE Answered
  BY <1>11 DEF Answered, Idle, TypeOK, QueuesOwned, Owned
<1>12. ASSUME NEW n \in Names, ScheduledCall(n)  PROVE QueuesOwned'
  BY <1>12 DEF ScheduledCall, TypeOK, QueuesOwned, Owned
<1>13. ASSUME NEW n \in Names, ScheduledTake(n)  PROVE QueuesOwned'
  BY <1>13 DEF ScheduledTake, Emptied, TypeOK, QueuesOwned, Owned
<1>14. CASE UNCHANGED vars
  BY <1>14 DEF vars, TypeOK, QueuesOwned, Owned
<1>15. QED
  BY <1>1, <1>2, <1>3, <1>4, <1>5, <1>6, <1>7, <1>8, <1>9, <1>10, <1>11, <1>12, <1>13,
      <1>14 DEF Next, Crud, Rpc, Scheduled

----
\* Every manifest with nothing in memory satisfies the invariant.
LEMMA InitInv ==
  ASSUME Init  PROVE Inv
<1>1. TypeOK
  BY DEF Init, Memory, TypeOK, Table, Acls, Empty, NoCache, NoQueues, Idle, NoNode
<1>2. BeginsBlank /\ WhoIsKnown /\ LiveIsKept /\ Admitted
  BY DEF Init, Memory, BeginsBlank, WhoIsKnown, LiveIsKept, Admitted,
      OnlyLinkedAclAdmits,
         AdmittedByManifest, Empty, NoNode, Idle
<1>3. QueuesOwned
  BY DEF Init, Memory, QueuesOwned, NoQueues
<1>4. CacheFollows
  BY DEF Init, Memory, CacheFollows, NoCache
<1>5. QED
  BY <1>1, <1>2, <1>3, <1>4 DEF Inv

\* The invariant holds throughout.
LEMMA Always ==
  Spec => []Inv
<1>1. Init => Inv
  BY InitInv
<1>2. Inv /\ [Next]_vars => Inv'
  BY TypeStep, BlankStep, WhoStep, KeptStep, CacheStep, AdmittedStep, QueuesStep DEF Inv
<1>3. QED
  BY <1>1, <1>2, PTL DEF Spec

----
\* Every reachable state is well typed.
THEOREM TypeCorrect ==
  Spec => []TypeOK
<1>1. Inv => TypeOK
  BY DEF Inv
<1>2. QED
  BY <1>1, Always, PTL

\* An entity that answers requests is in the manifest (crud/entities.rs upsert and delete,
\* rpc.rs deletions), for any number of entities.
THEOREM LiveEntitiesAreKept ==
  Spec => []LiveIsKept
<1>1. Inv => LiveIsKept
  BY DEF Inv
<1>2. QED
  BY <1>1, Always, PTL

\* Nobody is admitted through an ACL name that is not in the library (the gate in rpc.rs,
\* crud/namespaces.rs).
THEOREM LinkedAclsAdmit ==
  Spec => []OnlyLinkedAclAdmits
<1>1. Inv => OnlyLinkedAclAdmits
  BY DEF Inv, Admitted
<1>2. QED
  BY <1>1, Always, PTL

\* Unless a document could not be fetched, admission is by the library's current document
\* (the gate in rpc.rs, crud/namespaces.rs, the loading of ACLs in main.rs).
THEOREM ManifestAdmits ==
  Spec => []AdmittedByManifest
<1>1. Inv => AdmittedByManifest
  BY DEF Inv, Admitted
<1>2. QED
  BY <1>1, Always, PTL

\* Without failing calls, no delete request outlives its dispatch (dispatch_to).
THEOREM RequestsAreFresh ==
  Spec => []NoStaleRequest
<1>1. Inv => NoStaleRequest
  BY DEF Inv, QueuesOwned, Owned, NoStaleRequest, TypeOK
<1>2. QED
  BY <1>1, Always, PTL

\* Deletions that plugins ask for leave no child without the parent it had (the loop over
\* delete_requests in rpc.rs), for any forest of entities and any order of requests.
THEOREM DeletionsLeaveNoOrphan ==
  Spec => DeletionLeavesNoOrphan
<1> DEFINE Deleting == main.pc = "deleting" /\ mode' = "up"
           Kept == \A n \in Names : HasParent(n) /\ live'[n].present => HasParent(n)'
<1>1. ASSUME Inv, [Next]_vars, Deleting  PROVE Kept
  <2>1. CASE live' = live
    BY <2>1 DEF HasParent
  <2>2. ASSUME NEW t \in Names, DeleteRequested(t), MayDelete(t)  PROVE Kept
    <3>1. live' = [live EXCEPT ![t] = NoNode]
      BY <2>2 DEF DeleteRequested, Replaced
    <3>2. SUFFICES ASSUME NEW n \in Names, HasParent(n), live'[n].present
                   PROVE  HasParent(n)'
      OBVIOUS
    <3>3. n # t /\ live'[n] = live[n]
      BY <1>1, <3>1, <3>2 DEF Inv, TypeOK, Table, NoNode
    <3>4. live[n].parent # t
      BY <2>2, <3>2 DEF MayDelete, HasChildren, HasParent
    <3>5. live'[live[n].parent] = live[live[n].parent]
      BY <1>1, <3>1, <3>2, <3>4 DEF Inv, TypeOK, Table, Nodes, NoNode, HasParent
    <3>6. QED
      BY <3>2, <3>3, <3>5 DEF HasParent
  <2>3. ASSUME NEW t \in Names, DeleteRequested(t), ~MayDelete(t)  PROVE live' = live
    BY <2>3 DEF DeleteRequested
  <2>4. ~Crud /\ ~Start /\ ~Stop
    BY <1>1 DEF Crud, SetEntityAcl, Upsert, Delete, SetAcl, DeleteAcl, Serving, Start,
        Stop,
                Inv, BeginsBlank, Memory, Idle
  <2>5. Answered \/ TakeRequests \/ Scheduled \/ UNCHANGED vars => live' = live
    BY DEF Answered, TakeRequests, Scheduled, ScheduledCall, ScheduledTake, vars
  <2>6. ASSUME NEW c \in Callers, NEW n \in Names, Dispatch(c, n)  PROVE live' = live
    BY <2>6 DEF Dispatch
  <2>7. QED
    BY <1>1, <2>1, <2>2, <2>3, <2>4, <2>5, <2>6 DEF Next, Rpc
<1>2. Inv /\ [Next]_vars => [Deleting => Kept]_vars
  BY <1>1
<1>3. QED
  BY <1>2, Always, PTL DEF Spec, DeletionLeavesNoOrphan

\* Entities each of which is the parent of one of them: a cycle, or one that is its own
\* parent.
Ring(S) == \A n \in S : live[n].present /\ \E m \in S : live[m].parent = n

\* The deletions plugins ask for never break into a ring, though each of its entities may
\* ask for itself and for its children: the one to go first would leave a child. Only a
\* CRUD request can delete it (the loop over delete_requests in rpc.rs).
THEOREM RingsStay ==
  Spec => [][main.pc = "deleting" /\ mode' = "up" =>
                \A S \in SUBSET Names : Ring(S) => Ring(S)']_vars
<1> DEFINE Deleting == main.pc = "deleting" /\ mode' = "up"
<1>1. ASSUME Inv, [Next]_vars, Deleting, NEW S \in SUBSET Names, Ring(S)  PROVE Ring(S)'
  <2>1. CASE live' = live
    BY <1>1, <2>1 DEF Ring
  <2>2. ASSUME NEW t \in Names, DeleteRequested(t), MayDelete(t)  PROVE Ring(S)'
    <3>1. live' = [live EXCEPT ![t] = NoNode]
      BY <2>2 DEF DeleteRequested, Replaced
    <3>2. t \notin S
      BY <1>1, <2>2 DEF Ring, MayDelete, HasChildren
    <3>3. \A n \in S : live'[n] = live[n]
      BY <1>1, <3>1, <3>2 DEF Inv, TypeOK, Table
    <3>4. QED
      BY <1>1, <3>3 DEF Ring
  <2>3. ASSUME NEW t \in Names, DeleteRequested(t), ~MayDelete(t)  PROVE live' = live
    BY <2>3 DEF DeleteRequested
  <2>4. ~Crud /\ ~Start /\ ~Stop
    BY <1>1 DEF Crud, SetEntityAcl, Upsert, Delete, SetAcl, DeleteAcl, Serving, Start,
        Stop, Inv, BeginsBlank, Memory, Idle
  <2>5. Answered \/ TakeRequests \/ Scheduled \/ UNCHANGED vars => live' = live
    BY DEF Answered, TakeRequests, Scheduled, ScheduledCall, ScheduledTake, vars
  <2>6. ASSUME NEW c \in Callers, NEW n \in Names, Dispatch(c, n)  PROVE live' = live
    BY <2>6 DEF Dispatch
  <2>7. QED
    BY <1>1, <2>1, <2>2, <2>3, <2>4, <2>5, <2>6 DEF Next, Rpc
<1>2. Inv /\ [Next]_vars =>
        [main.pc = "deleting" /\ mode' = "up" =>
            \A S \in SUBSET Names : Ring(S) => Ring(S)']_vars
  BY <1>1
<1>3. QED
  BY <1>2, Always, PTL DEF Spec

====
