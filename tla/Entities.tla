---- MODULE Entities ----
(***************************************************************************)
(* The entities of one runtime: the manifest in IPFS says which entities   *)
(* and which named ACLs there are, the registry holds the loaded plugins   *)
(* and the ACL cache the loaded ACL documents. CRUD requests change the    *)
(* manifest and then registry or cache; RPC requests pass the gate of the  *)
(* entity they are for and may make its plugin ask for deletions           *)
(* (ma_delete_entity), which change the registry only.                     *)
(*                                                                         *)
(* The main loop handles one request at a time, so a CRUD request is one   *)
(* step here, whatever of it fails; scheduled calls run beside it. Start   *)
(* takes any manifest: what a bootstrap file or an earlier process left.   *)
(*                                                                         *)
(* Left out: the transport gate and the capabilities CRUD asks for         *)
(* (Ownership), how a document admits a caller (it is the set of those it  *)
(* admits), groups among its principals, states (PluginState), where       *)
(* manifests are kept (RuntimeHead), #scheduler. ma_create_entity does     *)
(* nothing: the kind registry it consults is never filled. A parent        *)
(* written as a DID-URL equals no fragment and counts as none.             *)
(***************************************************************************)
EXTENDS Naturals

CONSTANTS
    Names,      \* fragments of entities
    AclNames,   \* names of the ACL library
    Callers,    \* senders of RPC messages
    Docs,       \* ACL documents, as the sets of callers they admit
    None        \* no entity, no ACL, no parent, nobody

ASSUME EntitiesAssumption ==
    /\ Docs \subseteq SUBSET Callers
    /\ None \notin Names \union AclNames \union Callers \union Docs

VARIABLES
    mode,       \* "down" or "up"
    manifest,   \* the current manifest: its entity nodes and named ACLs
    live,       \* entity_registry: each plugin with the acl and parent it was loaded with
    cache,      \* acl_cache
    queue,      \* delete requests queued in each plugin
    busy,       \* plugins a scheduled call has returned from, its requests not yet taken
    main,       \* the RPC request the main loop is at
    missed,     \* an ACL document could not be fetched in this process
    trapped     \* a plugin call failed in this process

vars == <<mode, manifest, live, cache, queue, busy, main, missed, trapped>>

----
NoNode == [acl |-> None, parent |-> None, present |-> FALSE]
Nodes  == [acl : AclNames \union {None}, parent : Names \union {None}, present : {TRUE}]
Table  == [Names -> Nodes \union {NoNode}]
Acls   == [AclNames -> Docs \union {None}]
Idle   == [pc |-> "idle", who |-> None, caller |-> None, todo |-> {}]

Empty    == [n \in Names |-> NoNode]
NoCache  == [l \in AclNames |-> None]
NoQueues == [n \in Names |-> {}]

TypeOK ==
    /\ mode \in {"down", "up"}
    /\ manifest \in [node : Table, acls : Acls]
    /\ live \in Table
    /\ cache \in Acls
    /\ queue \in [Names -> SUBSET Names]
    /\ busy \subseteq Names
    /\ main \in [pc : {"idle", "called", "deleting"}, who : Names \union {None},
                 caller : Callers \union {None}, todo : SUBSET Names]
    /\ missed \in BOOLEAN /\ trapped \in BOOLEAN

Memory ==
    /\ live = Empty /\ cache = NoCache /\ queue = NoQueues
    /\ busy = {} /\ main = Idle
    /\ missed = FALSE /\ trapped = FALSE

Init == mode = "down" /\ manifest \in [node : Table, acls : Acls] /\ Memory

----
(* Start and stop *)

\* What load_entities and the loading of the named ACLs get hold of: an item that
\* cannot be fetched or loaded is skipped.
Start ==
    /\ mode = "down"
    /\ mode' = "up"
    /\ manifest' \in [node : Table, acls : Acls]
    /\ \E got \in SUBSET Names :
          live' = [n \in Names |-> IF n \in got THEN manifest'.node[n] ELSE NoNode]
    /\ \E got \in SUBSET AclNames :
          /\ cache' = [l \in AclNames |-> IF l \in got THEN manifest'.acls[l] ELSE None]
          /\ missed' = (cache' # manifest'.acls)
    /\ UNCHANGED <<queue, busy, main, trapped>>

\* The process ends, however it does.
Stop ==
    /\ mode = "up"
    /\ mode' = "down"
    /\ live' = Empty /\ cache' = NoCache /\ queue' = NoQueues
    /\ busy' = {} /\ main' = Idle
    /\ missed' = FALSE /\ trapped' = FALSE
    /\ UNCHANGED manifest

----
(* CRUD requests; one whose manifest write fails before anything else changed is *)
(* no step *)

Serving == mode = "up" /\ main.pc = "idle"

NodeWrittenOrNot(n, x) ==  \* faulty variant: a failing manifest write is ignored
    \/ manifest' = [manifest EXCEPT !.node[n] = x]
    \/ UNCHANGED manifest

\* with_manifest_crud on one entity link
NodeWritten(n, x) == manifest' = [manifest EXCEPT !.node[n] = x]

\* A new plugin, or none, takes the place of the old one, which any scheduled call
\* still running on it keeps to itself.
Replaced(n, x) ==
    /\ live' = [live EXCEPT ![n] = x]
    /\ queue' = [queue EXCEPT ![n] = {}]
    /\ busy' = busy \ {n}

\* entities.<n>: <path>; a plugin that does not load leaves the old one in place.
Upsert(n, x) ==
    /\ Serving
    /\ NodeWritten(n, x)
    /\ Replaced(n, x) \/ UNCHANGED <<live, queue, busy>>
    /\ UNCHANGED <<mode, cache, main, missed, trapped>>

\* entities.<n>: with no value; the registry goes first, then the manifest may fail.
Delete(n) ==
    /\ Serving
    /\ Replaced(n, NoNode)
    /\ NodeWritten(n, NoNode) \/ UNCHANGED manifest
    /\ UNCHANGED <<mode, cache, main, missed, trapped>>

\* fetch_entity_node finds the entity.
Known(n) == manifest.node[n].present

\* entities.<n>.acl: <name> or no value; the loaded plugin keeps its own.
SetEntityAcl(n, l) ==
    /\ Serving
    /\ Known(n)
    /\ l # None => manifest.acls[l] # None
    /\ NodeWritten(n, [manifest.node[n] EXCEPT !.acl = l])
    /\ UNCHANGED <<mode, live, cache, queue, busy, main, missed, trapped>>

NotCached(l, d) == UNCHANGED cache  \* faulty variant

Cached(l, d) == cache' = [cache EXCEPT ![l] = d]

\* acls.<l>: <cid>; a document that cannot be fetched leaves the cache as it is.
SetAcl(l, d) ==
    /\ Serving
    /\ manifest' = [manifest EXCEPT !.acls[l] = d]
    /\ \/ Cached(l, d) /\ UNCHANGED missed
       \/ UNCHANGED cache /\ missed' = TRUE
    /\ UNCHANGED <<mode, live, queue, busy, main, trapped>>

\* acls.<l>: with no value
DeleteAcl(l) ==
    /\ Serving
    /\ manifest' = [manifest EXCEPT !.acls[l] = None]
    /\ Cached(l, None)
    /\ UNCHANGED <<mode, live, queue, busy, main, missed, trapped>>

----
(* RPC requests *)

GateOpen(c, n) ==  \* faulty variant: no cached document, no restriction
    /\ live[n].acl # None
    /\ cache[live[n].acl] # None => c \in cache[live[n].acl]

\* The gate of the entity: it fails closed without an ACL name or a cached document.
Gate(c, n) ==
    /\ live[n].acl # None
    /\ cache[live[n].acl] # None
    /\ c \in cache[live[n].acl]

\* dispatch_to: the plugin runs and queues requests; a failing call leaves them queued.
Dispatch(c, n) ==
    /\ Serving
    /\ live[n].present /\ Gate(c, n)
    /\ \E asked \in SUBSET Names : queue' = [queue EXCEPT ![n] = @ \union asked]
    /\ \/ /\ main' = [pc |-> "called", who |-> n, caller |-> c, todo |-> {}]
          /\ UNCHANGED trapped
       \/ trapped' = TRUE /\ UNCHANGED main
    /\ UNCHANGED <<mode, manifest, live, cache, busy, missed>>

Unemptied(n) == UNCHANGED queue  \* faulty variant: what is taken stays queued

Emptied(n) == queue' = [queue EXCEPT ![n] = {}]

\* Then, outside the plugin's mutex, the queue is drained, whoever filled it.
TakeRequests ==
    /\ mode = "up" /\ main.pc = "called"
    /\ main' = [main EXCEPT !.pc = "deleting", !.todo = queue[main.who]]
    /\ Emptied(main.who)
    /\ UNCHANGED <<mode, manifest, live, cache, busy, missed, trapped>>

AnyChildren(t) == FALSE  \* faulty variant: no look at the children

HasChildren(t) == \E n \in Names : live[n].present /\ live[n].parent = t

MayDelete(t) ==
    /\ live[t].present
    /\ live[t].parent = main.who \/ t = main.who
    /\ ~HasChildren(t)

\* One request, in whatever order the plugin made them.
DeleteRequested(t) ==
    /\ mode = "up" /\ main.pc = "deleting"
    /\ t \in main.todo
    /\ main' = [main EXCEPT !.todo = @ \ {t}]
    /\ IF MayDelete(t) THEN Replaced(t, NoNode) ELSE UNCHANGED <<live, queue, busy>>
    /\ UNCHANGED <<mode, manifest, cache, missed, trapped>>

Answered ==
    /\ mode = "up" /\ main.pc = "deleting"
    /\ main.todo = {}
    /\ main' = Idle
    /\ UNCHANGED <<mode, manifest, live, cache, queue, busy, missed, trapped>>

----
(* Scheduled calls: no gate, and what they drain besides a state is dropped *)

ScheduledCall(n) ==
    /\ mode = "up" /\ live[n].present
    /\ \E asked \in SUBSET Names : queue' = [queue EXCEPT ![n] = @ \union asked]
    /\ \/ busy' = busy \union {n} /\ UNCHANGED trapped
       \/ trapped' = TRUE /\ UNCHANGED busy
    /\ UNCHANGED <<mode, manifest, live, cache, main, missed>>

ScheduledTake(n) ==
    /\ mode = "up" /\ n \in busy
    /\ busy' = busy \ {n}
    /\ Emptied(n)
    /\ UNCHANGED <<mode, manifest, live, cache, main, missed, trapped>>

----
Crud ==
    \/ \E n \in Names : \/ \E l \in AclNames \union {None} : SetEntityAcl(n, l)
                        \/ \E x \in Nodes : Upsert(n, x)
                        \/ Delete(n)
    \/ \E l \in AclNames : (\E d \in Docs : SetAcl(l, d)) \/ DeleteAcl(l)

Rpc ==
    \/ \E c \in Callers, n \in Names : Dispatch(c, n)
    \/ TakeRequests
    \/ \E t \in Names : DeleteRequested(t)
    \/ Answered

Scheduled == \E n \in Names : ScheduledCall(n) \/ ScheduledTake(n)

Next == Start \/ Stop \/ Crud \/ Rpc \/ Scheduled

Spec == Init /\ [][Next]_vars

----
(* Properties *)

\* An entity that answers requests is in the manifest, or the next start would lose it,
\* whichever writes and loads fail and whatever is deleted by whom (upsert writes the
\* manifest before it registers, delete the other way round).
LiveIsKept == \A n \in Names : live[n].present => manifest.node[n].present

\* An ACL that is no longer in the library admits nobody, even when documents could not
\* be fetched (handle_root_acls drops the cached document, the gate fails closed).
OnlyLinkedAclAdmits ==
    main.pc = "called" =>
        live[main.who].acl # None /\ manifest.acls[live[main.who].acl] # None

\* While every ACL document could be fetched, who reaches a plugin is named in the
\* document the manifest links now under the ACL name the plugin was loaded with.
AdmittedByManifest ==
    main.pc = "called" /\ ~missed => main.caller \in manifest.acls[live[main.who].acl]

\* Between requests no plugin holds delete requests that a later, unrelated dispatch
\* would carry out, as long as no call failed (dispatch_to drains after each call).
NoStaleRequest ==
    main.pc = "idle" /\ ~trapped =>
        \A n \in Names : n \notin busy => queue[n] = {}

HasParent(n) == live[n].present /\ live[n].parent # None /\ live[live[n].parent].present

\* Deletions a plugin asks for leave no child behind that had a parent, in whatever
\* order they are carried out (handle_entity_plugin_message looks at the registry anew
\* for each).
DeletionLeavesNoOrphan ==
    [][main.pc = "deleting" /\ mode' = "up" =>
          \A n \in Names : HasParent(n) /\ live'[n].present => HasParent(n)']_vars

====
