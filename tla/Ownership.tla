---- MODULE Ownership ----
(***************************************************************************)
(* Who owns the runtime, and who passes its gates.                         *)
(*                                                                         *)
(* The owners are kept four times: in stats.owners, in the live root ACL   *)
(* (one "*" grant each), in config.yaml and in the manifest's config. Two  *)
(* parties change them: POST /claim, served by a task per request, and the *)
(* CRUD handlers of the main loop, one at a time. A third copy of          *)
(* config.yaml, shared_config, is read once at startup and written back    *)
(* whole whenever CRUD sets a daemon key.                                  *)
(*                                                                         *)
(* Simplifications:                                                        *)
(* - an ACL is the set of DIDs it grants "*"; denials, other capabilities  *)
(*   and groups are left to the ACL's own rules. The "+owners" entry added *)
(*   to every loaded ACL grants nobody anything at these gates, because no *)
(*   group is resolved there;                                              *)
(* - no start is given --root-cid or --owner. It finds the manifest that   *)
(*   was published last: the head is only in memory, and a request to      *)
(*   publish it is answered late, lost, or overtaken by an older one.      *)
(*   When and how often publishers try is RuntimeHead's subject;           *)
(* - config.yaml has a path, and Config::save replaces the file at once;   *)
(*   of the file, and of shared_config, only the owners are kept.          *)
(***************************************************************************)
EXTENDS Naturals, FiniteSets

CONSTANTS
    Dids,       \* principals
    Configured, \* owners in config.yaml before the first start
    NoList,     \* the manifest's config.owners is absent or not a sequence
    MaxEdits,   \* bound on accepted CRUD requests
    MaxStarts,  \* bound on starts
    MaxSent     \* bound on requests to publish under way at once

ASSUME OwnershipAssumption ==
    /\ Configured \subseteq Dids
    /\ \A S \in SUBSET Dids : S # NoList
    /\ MaxEdits \in Nat /\ MaxStarts \in Nat /\ MaxSent \in Nat

VARIABLES
    \* what survives a restart
    file,       \* the owners in config.yaml
    published,  \* the manifest the runtime's name leads to, or the first start's
    sent,       \* manifests in requests to publish that Kubo has not settled
    \* the process
    up,
    manifest,   \* the runtime's head: config.owners and the root ACL document
    mem,        \* the owners in shared_config
    owners,     \* stats.owners
    acl,        \* the live root ACL
    guard,      \* the main loop holds a read guard of the ACL across a handler
    crud,       \* the CRUD request the main loop is at
    claim,      \* each DID's POST /claim
    \* bounds and history
    edits, starts,
    authority,  \* DIDs somebody entitled to it has made an owner or granted "*"
    settled,    \* an answered claim or a start left owners, and no CRUD request
                \* has written the manifest since
    edited      \* a CRUD request wrote the manifest in this process

durable  == <<file, published, sent>>
process  == <<up, manifest, mem, owners, acl, guard, crud, claim>>
auxVars  == <<edits, starts, authority, settled, edited>>
vars     == <<durable, process, auxVars>>

----
Manifests == [owners : {NoList} \union SUBSET Dids, acl : SUBSET Dids]

\* What an accepted CRUD request does: write a manifest (and then maybe swap the
\* root ACL), or set a daemon key.
Idle   == [pc |-> "idle"]
Writes == [pc : {"write"}, to : Manifests, swap : BOOLEAN]
Swaps  == [pc : {"swap"}, to : Manifests]
Keys   == [pc : {"key"}]

\* A process that has ended has no manifest.
NoManifest == [owners |-> NoList, acl |-> {}]

NoClaim == [pc |-> "none", late |-> FALSE]

\* Accepted by the check of handle_claim.
Accepted(d) == claim[d].pc \in {"checked", "owner", "granted", "ok"}

ConfigTypes ==
    /\ file \subseteq Dids /\ mem \subseteq Dids
    /\ manifest \in Manifests /\ published \in Manifests /\ sent \subseteq Manifests

OwnerTypes ==
    /\ owners # NoList /\ owners \subseteq Dids /\ acl \subseteq Dids
    /\ authority \subseteq Dids

CrudTypes == crud \in {Idle} \union Writes \union Swaps \union Keys

ClaimTypes ==
    claim \in [Dids -> [pc : {"none", "checked", "owner", "granted", "ok", "conflict"},
                        late : BOOLEAN]]

FlagTypes ==
    up \in BOOLEAN /\ guard \in BOOLEAN /\ settled \in BOOLEAN /\ edited \in BOOLEAN

BoundTypes == edits \in 0 .. MaxEdits /\ starts \in 0 .. MaxStarts

\* Every variable keeps its type: in particular stats.owners stays a list of DIDs,
\* whatever value CRUD writes under the manifest's config.owners.
TypeOK ==
    /\ ConfigTypes /\ OwnerTypes /\ CrudTypes /\ ClaimTypes /\ FlagTypes /\ BoundTypes

\* Before the first start: a bootstrapped manifest without a list was published, or the
\* start makes a minimal one, whose list of owners is empty.
Init ==
    /\ file = Configured
    /\ published \in [owners : {{}, NoList}, acl : {{}}] /\ sent = {}
    /\ mem = {} /\ manifest = NoManifest
    /\ up = FALSE /\ guard = FALSE
    /\ owners = {} /\ acl = {}
    /\ crud = Idle
    /\ claim = [d \in Dids |-> NoClaim]
    /\ edits = 0 /\ starts = 0
    /\ authority = Configured
    /\ settled = FALSE /\ edited = FALSE

----
(* Start and stop *)

BootAclGrantFirst(loaded) == loaded  \* faulty variant: the load replaces the grants

BootAcl(loaded) == loaded \union file

\* main(): find the published manifest and load its ACL, or keep the empty one when that
\* fails; then grant "*" to the owners of config.yaml.
Start ==
    /\ ~up /\ starts < MaxStarts
    /\ up' = TRUE
    /\ starts' = starts + 1
    /\ mem' = file
    /\ manifest' = published
    /\ owners' = file
    /\ \E loaded \in {published.acl, {}} : acl' = BootAcl(loaded)
    /\ settled' = (file # {})
    /\ edited' = FALSE
    /\ UNCHANGED <<durable, guard, crud, claim, edits, authority>>

\* Shutdown or crash, at any point of any handler and of any publish.
Stop ==
    /\ up /\ starts < MaxStarts
    /\ up' = FALSE
    /\ guard' = FALSE
    /\ crud' = Idle
    /\ claim' = [d \in Dids |-> NoClaim]
    /\ mem' = {} /\ manifest' = NoManifest
    /\ owners' = {} /\ acl' = {}
    /\ settled' = FALSE /\ edited' = FALSE
    /\ UNCHANGED <<durable, edits, starts, authority>>

----
(* Publication *)

\* The periodic task, or the ctrl-c branch, has read the head and asks Kubo to publish it.
Publish ==
    /\ up /\ Cardinality(sent) < MaxSent
    /\ sent' = sent \union {manifest}
    /\ UNCHANGED <<file, published, process, auxVars>>

\* Kubo settles a request at any time, also when its caller has given up or is gone: the
\* name leads to its manifest, or the request is lost.
PublishSettles ==
    \E m \in sent :
        /\ sent' = sent \ {m}
        /\ published' \in {published, m}
        /\ UNCHANGED <<file, process, auxVars>>

----
(* POST /claim *)

UncheckedClaim == TRUE  \* faulty variant: no 409

Unclaimed == owners = {}

\* The check takes and drops its read guard before the list is written.
ClaimCheck(d) ==
    /\ up /\ claim[d].pc = "none"
    /\ IF Unclaimed
       THEN /\ claim' = [claim EXCEPT ![d].pc = "checked", ![d].late = settled]
            /\ authority' = authority \union {d}
       ELSE /\ claim' = [claim EXCEPT ![d].pc = "conflict", ![d].late = settled]
            /\ UNCHANGED authority
    /\ UNCHANGED <<durable, up, manifest, mem, owners, acl, guard, crud, edits, starts,
                   settled, edited>>

ClaimOwn(d) ==
    /\ claim[d].pc = "checked"
    /\ owners' = {d}
    /\ claim' = [claim EXCEPT ![d].pc = "owner"]
    /\ UNCHANGED <<durable, up, manifest, mem, acl, guard, crud, auxVars>>

\* grant_owners_in_acl waits for the write guard.
ClaimGrant(d) ==
    /\ claim[d].pc = "owner"
    /\ ~guard
    /\ acl' = acl \union {d}
    /\ claim' = [claim EXCEPT ![d].pc = "granted"]
    /\ UNCHANGED <<durable, up, manifest, mem, owners, guard, crud, auxVars>>

\* persist_owners_to_config: put the new list into the file, or fail with a warning; then
\* answer.
ClaimPersist(d) ==
    /\ claim[d].pc = "granted"
    /\ file' \in {file, {d}}
    /\ claim' = [claim EXCEPT ![d].pc = "ok"]
    /\ settled' = (owners # {})
    /\ UNCHANGED <<published, sent, up, manifest, mem, owners, acl, guard, crud, edits,
                   starts, authority, edited>>

----
(* The main loop *)

\* An RPC or IPFS handler runs under a read guard of the ACL.
RpcBegin ==
    /\ up /\ crud = Idle /\ ~guard
    /\ guard' = TRUE
    /\ UNCHANGED <<durable, up, manifest, mem, owners, acl, crud, claim, auxVars>>

RpcEnd ==
    /\ guard /\ crud = Idle
    /\ guard' = FALSE
    /\ UNCHANGED <<durable, up, manifest, mem, owners, acl, crud, claim, auxVars>>

\* The manifests d's request may write, and whom it names in doing so.
Requested(m, swap, named) ==
    \/ m = manifest /\ ~swap /\ named = {}                      \* any other field
    \/ /\ m \in [owners : {NoList} \union SUBSET Dids, acl : {manifest.acl}]
       /\ ~swap
       /\ named = IF m.owners = NoList THEN {} ELSE m.owners    \* config.owners
    \/ /\ m \in [owners : {manifest.owners}, acl : SUBSET Dids]
       /\ swap
       /\ named = m.acl                                         \* :acl

GateOpen(d) == TRUE  \* faulty variant: nobody is turned away

Gate(d) == d \in owners \/ d \in acl

CrudGuardKept == TRUE  \* faulty variant: the handler runs under a read guard

\* The snapshot is a clone; its read guard is dropped before the handler runs.
CrudGuard == FALSE

\* handle_crud_message on a snapshot of the ACL: owners pass, others need the
\* capability. The next manifest is computed from the current head, which only the
\* main loop moves.
CrudBegin(d) ==
    /\ up /\ crud = Idle /\ ~guard
    /\ edits < MaxEdits
    /\ Gate(d)
    /\ edits' = edits + 1
    /\ guard' = CrudGuard
    /\ \/ /\ crud' = [pc |-> "key"]
          /\ UNCHANGED authority
       \/ \E m \in Manifests, swap \in BOOLEAN, named \in SUBSET Dids :
             /\ Requested(m, swap, named)
             /\ crud' = [pc |-> "write", to |-> m, swap |-> swap]
             /\ authority' = IF d \in authority THEN authority \union named ELSE authority
    /\ UNCHANGED <<durable, up, manifest, mem, owners, acl, claim, starts, settled, edited>>

Synced(m) == IF m.owners = NoList THEN owners ELSE m.owners

\* with_manifest_crud: the new manifest becomes the head, and stats.owners follows
\* its list when it has one. A failing call leaves everything as it was.
CrudWrite ==
    /\ crud.pc = "write"
    /\ \/ /\ manifest' = crud.to
          /\ owners' = Synced(crud.to)
          /\ settled' = FALSE
          /\ edited' = TRUE
          /\ crud' = IF crud.swap THEN [pc |-> "swap", to |-> crud.to] ELSE Idle
       \/ /\ crud' = Idle
          /\ UNCHANGED <<manifest, owners, settled, edited>>
    /\ UNCHANGED <<durable, up, mem, acl, guard, claim, edits, starts, authority>>

\* handle_root_acl replaces the live ACL by the document: the owners' grants go.
CrudSwapAcl ==
    /\ crud.pc = "swap"
    /\ ~guard
    /\ acl' = crud.to.acl
    /\ crud' = Idle
    /\ UNCHANGED <<durable, up, manifest, mem, owners, guard, claim, auxVars>>

\* A daemon key: change shared_config, then save all of it, with the owners it was read
\* with, over config.yaml; the client is answered with :ok also when the save fails.
CrudSetKey ==
    /\ crud.pc = "key"
    /\ file' \in {file, mem}
    /\ crud' = Idle
    /\ UNCHANGED <<published, sent, up, manifest, mem, owners, acl, guard, claim, auxVars>>

----
Claim(d) == ClaimOwn(d) \/ ClaimGrant(d) \/ ClaimPersist(d)

MainLoop == RpcEnd \/ CrudWrite \/ CrudSwapAcl \/ CrudSetKey

Next ==
    \/ Start \/ Stop \/ Publish \/ PublishSettles
    \/ \E d \in Dids : ClaimCheck(d) \/ Claim(d) \/ CrudBegin(d)
    \/ RpcBegin
    \/ MainLoop

Spec == Init /\ [][Next]_vars

\* The handlers' awaits return; tokio's RwLock serves its waiters in order, so RPC
\* handlers cannot keep a claim from its write guard for ever.
Fairness ==
    /\ WF_vars(MainLoop)
    /\ \A d \in Dids : SF_vars(Claim(d))

FairSpec == Spec /\ Fairness

----
(* Properties *)

\* Only those entitled to it ever hold power over the runtime: its configured
\* owners, those who claimed it while it had none, and those they named. Until then
\* the empty ACL denies everyone (acl.rs), also after a restart.
AuthorityIsGiven ==
    /\ owners \union acl \subseteq authority
    /\ file \union mem \subseteq authority
    /\ manifest.acl \union published.acl \subseteq authority

ListOf(m) == IF m.owners = NoList THEN {} ELSE m.owners

Named(m) == ListOf(m) \union m.acl

\* Claims under way, and the principals with power now, at the end of a CRUD handler, or
\* after a restart: by config.yaml, by the manifest the name leads to, or by one that a
\* request on its way may still put there.
Claiming == {d \in Dids : claim[d].pc \in {"checked", "owner", "granted"}}
Writing  == IF crud.pc \in {"write", "swap"} THEN Named(crud.to) ELSE {}
Live     == owners \union acl \union mem \union Named(manifest) \union Writing
Lasting  == file \union Named(published) \union UNION {Named(m) : m \in sent}
Holders  == Live \union Lasting

Rights == INSTANCE Power WITH held <- Holders, claiming <- Claiming, open <- (owners = {})

\* Power over the runtime is handed on: whoever gains it has claimed a runtime without
\* owners, or is named by someone who has it at that moment. A copy of the owners that is
\* stale when it is loaded or written back gives power to those it names and to nobody
\* else. What takes power away is final only when it is published: until then a crash
\* brings the previous manifest back, and those it names are holders all along
\* (handle_claim, the gate of handle_crud_message, with_manifest_crud, Config::save, the
\* periodic task and the start of main.rs).
PowerIsHandedOn == Rights!Spec

\* A claim that begins when a claim has been answered, or when the runtime started
\* with owners, gets a conflict (handle_claim); only a CRUD write of the manifest
\* opens the runtime again.
NoLateClaim == \A d \in Dids : claim[d].late => ~Accepted(d)

\* Every owner holds a grant in the live ACL, on which the IPFS handler and the
\* entity management check rely, until CRUD first writes the manifest; a claimant
\* in between its two steps is about to get one.
OwnersAreGranted ==
    up /\ ~edited => \A d \in owners : d \in acl \/ claim[d].pc = "owner"

\* Every claim is answered unless the daemon stops: no handler keeps the ACL's guard
\* for ever (main.rs:699-702 on the snapshot that the CRUD branch takes).
ClaimIsAnswered ==
    \A d \in Dids :
        (claim[d].pc \in {"checked", "owner", "granted"})
            ~> (claim[d].pc \in {"none", "ok", "conflict"})

====
