# A verification of the ma runtime daemon

This directory holds TLA+ models of the daemon in `src/` (an IPFS-backed actor
runtime), the TLC configurations that check them on small instances, and
theorems about them that TLAPS proves for every instance. Paths below are
relative to the repository's root; `main.rs` is `src/main.rs`.

The daemon is one process beside a Kubo node. It keeps almost everything it
knows behind one CID, the *runtime head*: the manifest that links entities,
named ACLs, kinds and configuration. What is hard about it is not any single
function but what several parties do to the same few variables: the main loop,
a task per HTTP request, a periodic publisher, scheduled jobs on other worker
threads, a Kubo that fails or answers late, and restarts in between.

## Contents

| module | what it is |
|---|---|
| `PublishedHead` | abstract specification of the runtime's durable name |
| `RuntimeHead` | startup, manifest writes, pins, both publishers, shutdown, crashes |
| `Power` | abstract specification of who has power over the runtime |
| `Ownership` | owners, `POST /claim`, root ACL, `config.yaml`, the published manifest |
| `PluginState` | the way of a plugin's state to IPFS and back |
| `Entities` | registry, manifest, ACL cache, gate, deletion requests |
| `Acl` | the decision of `check_full` while groups change and fail |
| `KindStore` | abstract specification of the kinds: a map from protocol IDs |
| `KindTree` | the nested map of kinds under CRUD, export and build |
| `Schedules` | requests to `#scheduler`, the jobs they become, the order of the start |
| `NameService` | abstract specification of what the publisher service does for its clients |
| `Publisher` | `/ma/ipfs/0.0.1`: replay guard, publish, clients who retry |
| `Languages` | loading, switching and looking up messages |
| `MC*` | model values and symmetry for TLC |
| `*_proofs` | inductive invariants, lemmas and theorems of the module named (`AclLanguages_proofs`: of `Acl` and `Languages`) |

Each `.cfg` opens with a comment that says what it instantiates. To check one:
`tlc -config RuntimeHead.cfg MCRuntimeHead.tla`; to prove one module:
`tlapm RuntimeHead_proofs.tla`. `PROJECT.json` lists runs, findings, hazards,
theorems, the mutated definitions that every property is known to catch, and
for each definition the source lines it models.

## Inventory of the system

**Runtime head and publication** (`main.rs`, `kubo.rs`, `ipfs.rs`,
`crud/helpers.rs`, `status.rs`). State: `stats.root_cid`; in Kubo the blocks,
recursive pins, IPNS keys and records; the periodic task's
`last_published_cid` and `last_published_at`. Operations: resolve the head at
startup (`--root-cid`, IPNS, or a minimal manifest), write a manifest
(`dag_put`, `pin/update`, commit), publish the DID document and the runtime's
name (periodic task; once in the background at start; once at shutdown). Hard:
a timed-out publish is abandoned and may land later, also after a restart; two
publishers race; each step may fail alone. Correct when the name always leads
to a stored manifest, the head keeps its pin, a skipped publish was not needed,
an acknowledged shutdown stands, and both names settle on the head.

**Ownership** (`status.rs`, `acl.rs`, `crud/config.rs`, `crud/namespaces.rs`,
`crud/helpers.rs`). State: the owners, kept four times (`stats.owners`, a `*`
grant in the live root ACL, `config.yaml`, the manifest's `config.owners`) and
`shared_config`, a copy of the file made at startup; the manifest is in memory
and, as it was last published, behind the runtime's name. Operations: `POST
/claim` in four steps with no lock across them, CRUD on `:acl`, `config.owners`
and daemon keys, publication, startup. Hard: claims race claims and CRUD; a
guard held across an await would stop everything; copies go stale, and a restart
takes up the published one. Correct when power comes only from those who have
it, a late claim conflicts, owners have their grants and every claim is
answered.

**Plugin state** (`plugin.rs`, `rpc.rs`, `schedule.rs`, `bootstrap.rs`). State:
the plugin's own memory, `StateCtx.pending` and `persisted`, the state link of
the entity node. Operations: `ma_set_state`, dispatch of the main loop and of
jobs, `mark_saved`, `save_state` and linking at shutdown, restoring at load.
Hard: the plugin's mutex covers the call and not what follows it. Correct when
change detection only knows stored states, and no state is left in a queue.

**Entities and named ACLs** (`rpc.rs`, `crud/entities.rs`,
`crud/namespaces.rs`, `plugin.rs`, `bootstrap.rs`). State: manifest nodes, the
registry of loaded plugins with copies of their acl and parent, the ACL cache,
queues of deletion requests. Operations: upsert, delete, set the acl of an
entity; set and delete ACLs; RPC dispatch with its gate; deletion requests;
scheduled calls. Hard: two or three of these copies change in one request and
each may fail. Correct when registry and manifest agree where they must, only
linked ACLs admit, and deletions leave no orphan.

**ACL decision** (`acl.rs`, gates in `rpc.rs`). State: a copy of a document
and, spread over entities, who is in which group. Hard: groups are asked one
await after another. Correct when the verdict is the document's, and when a
denial stands and an admission has a grant even while groups change.

**Schedules** (`schedule.rs`, `scheduler_actor.rs`, `main.rs`, `rpc.rs`). State:
the outbox of the plugins, the RPC inbox, the native `#scheduler` in the
registry, the jobs of tokio-cron-scheduler. Operations: a plugin asks with
`ma_send`, mostly from `init()`; the main loop drains the outbox to its own
inbox; `#scheduler` checks its gate, parses, answers and spawns the registration
of an At, Interval, Cron or random job; a job calls its entity beside the main
loop. Hard: requests are sent before anybody can receive them; random jobs add
their successors; jobs outlive their entity; durations and timestamps overflow.
Correct when no request is turned away because the start is not over, a
registration is one chain of jobs that goes on while its entity is loaded, and
jobs neither fire early nor spin.

**Kinds** (`entity.rs`, `crud/kinds.rs`, `bootstrap.rs`). State: a nested map of
kinds in the manifest, a YAML descriptor made from it and edited by hand; an
in-memory registry that is never filled. Operations: insert, remove, list and
get protocol IDs, export, build. Hard: a path may be a leaf or a branch, each
operation may meet either, and a build depends on the order of insertion.
Correct when the nested map is indistinguishable from a map on IDs.

**Configuration and languages** (`crud/config.rs`, `i18n.rs`, `main.rs`). State:
values in the manifest, daemon keys in `config.yaml`, the table of messages and
the runtime's language, each behind a lock. Operations: `init`, `switch_lang`,
`t`, `t_lang`, CRUD on `config.i18n`. Hard: two locks for one change, tasks that
look messages up meanwhile, files that are missing or do not parse. Correct when
a lookup finds the language it settled on and the runtime speaks what the
manifest says.

**DID document publisher service** (`ipfs.rs`, `main.rs`). State: a replay guard
in memory, the names of clients in Kubo. Operations: check the ACL, the guard and
the request, publish a document on behalf of its subject or store content,
answer. Hard: messages are lost, repeated and reordered, calls of Kubo fail
after having worked, the guard dies with the process, and a client can only try
again. Correct when answers are true, no message runs twice, a name does not go
back and retries succeed.

**Plugin outbox and replies, entity creation by plugins, bootstrap and export,
status pages, command line, bundled plugins** (`main.rs`, `rpc.rs`,
`bootstrap.rs`, `status.rs`, `lib.rs`, `plugins/`).

How they meet: the main loop takes one message at a time from the RPC, CRUD and
IPFS inboxes, so handlers never overlap each other; they overlap axum's tasks,
the periodic task, the background publish and the jobs. These share
`stats`, the root ACL, the ACL cache and the registry behind tokio RwLocks, and
a plugin behind its mutex. Kubo is shared by all and survives the process.

Everything in this code that is hard to test is listed, at its line, under
`hazards` in `PROJECT.json`, with the properties that watch it and, where they
leave something of it out, what and why.

## The models and the code

### RuntimeHead

A manifest is its CID. `stored`, `pins`, `names`, `keyKnown` and `late` are
Kubo's and survive a crash; `late` holds publish requests whose caller gave up
or died, each of which may take effect at any later time or never. The rest is
the process: `head` is `stats.root_cid`, `pub` the attempt of the periodic task
with the CID it has read, `lastPub` and `warm` what it remembers of the last
successful one, `bootDoc` the document `main()` publishes in the background,
`stop` the publish of the ctrl-c branch.

| action | code |
|---|---|
| `Start`, `BootOverride`, `BootFromIpns`, `BootMinimal`, `BootRefused` | `main()` up to the first use of the head, `main.rs:255-290` |
| `WritePut`, `WriteCommit` | `with_manifest_crud`: `dag_put`, then `pin_update` and `stats.root_cid` |
| `Shutdown`, `SaveFails`, `StopKey`, `StopLand`, `StopAck`, `StopFails`, `Close` | the ctrl-c branch and its publish |
| `PubTick` to `PubRuntime`, `WarmElapses` | the periodic task, `main.rs:476-580` |
| `BootDocSettles`, `LateSettles` | requests nobody waits for |
| `Crash` | the end of the process at any point |

A handler that fails before it has stored a manifest changes nothing here and
has no action. Every failing call picks one of the kinds in `FaultKinds` and
counts against `MaxFaults`: `pin` (a warning, and the head moves all the same),
`error` (the call had no effect) and `timeout` (its effect is open).

`PublishedHead` says what the runtime promises about the name: it leads nowhere
or to a stored manifest, and manifests are never taken back. `DurableName` is
that specification under the mapping `name <- names.runtime`.

### Ownership

An ACL is the set of DIDs it grants `*`, because the gates modelled here resolve
no groups. `ClaimCheck`, `ClaimOwn`, `ClaimGrant` and `ClaimPersist` are the
steps of `handle_claim` between its locks; several principals may be in it at
once. `RpcBegin` and `RpcEnd` are the read guard that the RPC and IPFS branches
of the main loop hold across their handler. The CRUD branch (`CrudBegin`, then
`CrudWrite`, `CrudSwapAcl` or `CrudSetKey`) works on a snapshot and holds none;
`CrudGuard` is that choice. `Synced` is the copy of `config.owners` into
`stats.owners` at the end of `with_manifest_crud`. `manifest` is the head and
dies with the process; `published` is what the runtime's name leads to and what
`Start` loads. `Publish` sends the head to Kubo, at any time and by whichever
publisher; `PublishSettles` is Kubo's side, which may come late, after the
process, or never. `authority` is a history variable: configured owners,
claimants of a runtime without owners, and everyone an authorised principal has
named.

`Power` is the same without copies, locks or history: the principals with power,
those whose claim is under way, and whether the runtime lists an owner. Power is
gained by a claim that begins while it lists none, or given by someone who has
it at that moment. In `PowerIsHandedOn` the holders are all who are named by a
copy of the process (the live list, the live ACL, the copy of `config.yaml`, the
head, a manifest about to be written) or by one that outlives it (`config.yaml`,
the published manifest, a request to publish one that is under way); the claims
are those between `ClaimCheck` and their answer. What is taken from somebody
over CRUD is thus taken only when no published manifest and no request names him
any more: a crash before that brings it back to him, which the code leaves so.

### PluginState

One stateful entity. `live` is the state in the plugin's memory, `pending` and
`persisted` are `StateCtx`, `holder` is the plugin's mutex. `Call`, `SetState`,
`Return`, `Take`, `Added` are one dispatch, of the main loop or of a job, in the
steps that others can get between; `Trap` and `AddFails` its failures; `Ask` and
`TakeForQuery` are `query_actor_group`; `SaveCall`, `SaveTake`, `SaveLink`,
`SaveFails` are `trigger_save` and `save_all_entity_states`. The plugin keeps
the contract of `plugins/`: every change is passed to `ma_set_state`, and
`save_state` passes the current state.

### Entities

`manifest` has the entity nodes and the ACL library, `live` the registry with
the acl and parent each plugin was loaded with, `cache` is `acl_cache`, `queue`
the deletion requests of each plugin, `main` the RPC request in progress. A
CRUD request is one step, because the main loop takes one request at a time and
scheduled calls touch nothing a CRUD handler reads; what of it may fail is a
disjunct. `Dispatch`, `TakeRequests`, `DeleteRequested` and `Answered` are
`handle_entity_plugin_message`; `ScheduledCall` and `ScheduledTake` happen
between any two of them. A CRUD write does not go through a publisher here: any
manifest may be the one a start finds.

### Acl

One call of `check_full` with `query_actor_group`, then the next one. `Begin`
is steps 1 and 2, `AskDenying` step 3a, `AskAllowing` step 3b. `Change` is a
scheduled call that changes a group, `Answers` lets every query fail. `ever`
and `always` record which groups the caller was in since the check began,
`unheard` which of them did not answer. The reference definition of a verdict,
`Admits`, is written without loops.

### KindTree

A path is the list of its segments, and `tree` a function from paths to a leaf
(the link of a kind node), a branch or nothing, in which everything lies inside
branches. `Above` is the prefix relation; the module needs of it only that it is
a strict order in which the paths above another one form a chain. `Insert` and
`Remove` are `kind_tree_insert` and `kind_tree_remove` with their recursion
unfolded: a leaf on the way ends the descent, and inner maps that become empty
go. `Upsert` and `Delete` are the CRUD requests. `Export` is
`export_bootstrap_yaml`, `Edit` the operator at the descriptor, `BuildStart`,
`BuildKind`, `BuildFails` and `Adopt` are `ma --gen-root-cid` and a start with
its root CID. `BuildKind` takes IDs in any order in which a prefix comes before
what continues it, which a `BTreeMap` guarantees.

`KindStore` is the same without a tree: a map from IDs in which no ID continues
another one. A new ID makes its continuations give way, and is ignored where it
continues an existing one. `StoreSpec` is that specification under the mapping
`kinds <- Protocols(tree)`, `descriptor <- yaml`.

### Schedules

A request has a number, `asked` what it says and `stage` how far it has come:
`outbox`, `inbox`, `spawned` (answered with `:ok`), `registered`, or one of the
ways to end. `jobs` are the entries of the JobScheduler with the ticks they have
still to wait; a random job is `calling` between its firing and the add of its
successor.

| action | code |
|---|---|
| `Start`, `Load`, `RegisterNative`, `LoadAcls`, `Stop` | `main()` from the start to the loop, in the order of `main.rs:326-460`; `load_entities` |
| `Upsert`, `Delete`, `Run`, `SetAcl` | CRUD on entities and on `:acls.scheduler`; a call of a plugin |
| `MaySend` | `ma_send` to `#scheduler` in `init()` or any later call |
| `Drain`, `Handle`, `Register` | the loop's outbox branch, `handle_rpc_message` with `make_native_dispatch`, `register_schedule` |
| `Tick`, `FireRecurring`, `FireAt`, `FireRandom`, `Return` | the jobs, and the self-scheduling of `make_random_job` |

`Seconds`, `Delay`, `MaxSecs` and `Parses` compute in `u64` and `i64` of `Width`
bits as a release build does; with three bits a duration can wrap to 0. What a
call does to its plugin is the subject of `PluginState` and `Entities`. A job names
the entity it calls (`fragment`); `JobsKeepFiring` is about jobs whose entity is
loaded, since the comment on `make_random_job` and its code disagree about the
others.

### Publisher

A client numbers its requests; each may be sent in several messages with IDs of
their own, and a client goes on when it has an answer. `Receive` is
`handle_ipfs_message` up to the call of Kubo: the ACL first, then
`check_and_insert`, then the validation. `Land` is Kubo's side of the call;
`Answer`, `AnswerLost` and `CallFails` are its ends. `Lose`, the repeated
delivery in `Receive`, `SetAcl` and `Crash`, which takes the guard along, count
against `MaxFaults` like the failing calls. The history variables `ran` and
`done` say what this process has handed to Kubo and what Kubo has ever done.

`NameService` is the service without messages, guard or crashes: a request is
performed at any time after its client has come to it, possibly more than once,
and a client goes on when its request is done. `ImplementsService` is that
specification under the identity, `wants`, `name` and `done` being variables of
both.

### Languages

A file is what `parse_ftl` makes of it: `sound` when the parser and the bundle
take it (a message that is defined twice is enough for a refusal), and the known
messages it defines. `messages` maps each language that is loaded to the
messages that have a text; for the others of it `parse_ftl` puts in the bare
key, for all of them when the file is refused. Bundled files are treated like
any other, since one of them, Amharic, is refused (`i18n/am.ftl`, a finding).
`InitMessages` and `InitLanguage` are the two halves of `init`, `Insert` and
`Activate` those of `switch_lang`, `Look`, `LookFor` and `Return` the two halves
of a lookup by a task or by the main loop, each half under one lock. `Put` and
`Delete` are CRUD on `config.i18n`. Names that `Acl` has too start with `Lang`
(`LangInit`, `LangNext`, `LangTypeOK`), because one module holds the proofs of
both.

## What the runs check

Ten runs pass; each property in them is known to be violated by at least one
plausible bug in the code (`mutants` in `PROJECT.json`).

| run | shows | bounds | states |
|---|---|---|---|
| `runtime_head` | `PinFollowsHead`, `CleanStop`, `DurableName` | 2 CIDs, 2 starts, 1 edit, 1 failing call | 4.3 M |
| `runtime_head_live` | `SkipIsSound`, `Converges` | 2 CIDs, 1 start, 2 edits, 2 failing calls | 0.48 M |
| `ownership` | `AuthorityIsGiven`, `NoLateClaim`, `OwnersAreGranted`, `ClaimIsAnswered`, `PowerIsHandedOn` | 2 principals, 2 CRUD requests, 2 starts, 1 request to publish at a time | 1.0 M |
| `plugin_state` | `PersistedIsStored`, `DispatchesStore`, `NothingLeftQueued`, `ShutdownCatchesUp` | 3 states, 2 jobs, 3 changes, 2 failing calls, 2 starts | 0.94 M |
| `entities` | `LiveIsKept`, `OnlyLinkedAclAdmits`, `AdmittedByManifest`, `NoStaleRequest`, `DeletionLeavesNoOrphan` | 2 entities, 1 ACL, 1 caller, 2 documents | 1.5 M |
| `acl` | `VerdictFollowsRule`, `AdmittedWasGranted`, `DenialHolds` | 3 groups | 0.37 M |
| `kind_tree` | `BuiltAsWritten`, `RoundTrip`, `StoreSpec` | 5 IDs of up to 3 segments, 2 kind nodes | 0.12 M |
| `schedules` | `InitIsHeard`, `OneChain`, `AtOnTime`, `Rests`, `EveryAskSettles`, `JobsKeepFiring` | 1 plugin, 2 requests of 10 forms, 3 bits, 3 ticks of the clock | 0.27 M |
| `publisher` | `GuardIsExact`, `OncePerProcess`, `NameNeverGoesBack`, `ImplementsService`, `EveryoneIsServed` | 2 clients, 2 requests each, 2 messages per request, 1 fault | 0.12 M |
| `languages` | `SwitchedIsLoaded`, `LookupsFindTheirLanguage`, `BareKeysAreGaps`, `SpeaksAsConfigured` | 5 languages, 2 messages, 3 readers, 3 changes, 1 crash | 1.6 M |

The type invariant of every module is proved (`TypeCorrect`, `LangTypeCorrect`), and
not run as well.
Why the bounds are enough:

- Runtime head: two CIDs tell an old manifest from a new one, and two edits let
  the head return to a CID that was published before. A failing call leaves at
  most one abandoned request; two of them, and the start-up document, race each
  other and a live publish. Restarts need a second start only, since a third
  one finds Kubo in a state that a second one can find.
- Ownership: two principals race, and either may undo what the other was given. Two
  CRUD requests are one that gives and one that takes away, with a publication
  before, between or after them; the second start then finds the older or the newer
  manifest. One request to publish at a time may be pending for as long as it
  likes; that an older one overtakes a newer one is `RuntimeHead`'s subject, and the
  proofs cover any number of them.
- Plugin state: two jobs and the main loop are the three that overlap at one
  entity. Three changes are needed for *there and back again and on*, which
  leaves an intermediate state queued.
- Entities: with two entities there are parents, children, self-parents and
  cycles. One library entry is there or not, linked or not, cached or not.
- Acl: three groups are one denying, one admitting and one more that changes
  while the others are asked; the proofs cover any number.
- Kinds: the five IDs hold a chain of three, two siblings and an unrelated one,
  which are all the positions two or three IDs can have to each other.
- Schedules: two requests are two jobs, or one and a request on its way while
  the first one's entity is reloaded. The clock stops at `MaxNow` while ticks go
  on, so jobs recur for ever in finitely many states.
- Publisher: two requests of a client are an older and a newer document, a second
  message of the older one the retry that may come late. One fault is what a
  message more per request makes good.
- Languages: the five are bundled and complete; bundled, with less in Kubo; bundled
  and refused, with a good file in Kubo; known to the build and incomplete, or
  complete in the map; and only in the map, and refused.

`PluginState` and `Entities` are checked modulo permutations of jobs and
states, and of entities: no definition tells one of them from another (`Fresh`,
the state a plugin starts from, is not permuted). Both runs check safety only.
Deadlock is checked in `entities` and `acl`. The others may stop when their bounds
are used up or, in the case of the runtime, when the daemon was shut down.

### Fairness

`RuntimeHead` (`Converges`): the periodic task is driven by an interval and each
of its awaits on Kubo has a tokio timeout, so `PubTick`, `PubDid`, `PubKey` and
`PubRuntime` are weakly fair, and so are the main loop's steps of a handler it
has begun. Kubo answers or drops a request (`PubLand`, `LateSettles`), and time
passes (`WarmElapses`). Nobody is obliged to edit, crash, start or stop, and a
failing call is never obliged to fail. The bound on failing calls stands for
the assumption that Kubo works at last.

`Ownership` (`ClaimIsAnswered`): the main loop finishes what it has begun. The
steps of a claim are strongly fair, because the write guard is free again and
again while RPC handlers come and go, and tokio's RwLock serves its waiters in
order of arrival.

`Schedules` (`EveryAskSettles`, `JobsKeepFiring`): a start goes on, time passes,
tokio runs spawned tasks and due jobs, and the main loop gets to each message,
because at every poll it drains its inboxes one after the other, in a fixed
order, and each handler ends (`main.rs:599-772`). Starts, stops, CRUD requests
and calls are never obliged to happen.

`Publisher` (`EveryoneIsServed`): a client without an answer sends again (`Send`),
Kubo's calls end (`Land`, `Answer`). `Receive` is strongly fair, since the loop is
free again and again and its inbox is a queue. Each client has one message more
per request than there are faults.

### Disagreements between code and documentation

Two runs violate one property each, which states a sentence of the repository:

| run | what the code does |
|---|---|
| `runtime_head_refused` | a crash between the import of the IPNS key and the first publish makes every later start fail (`ipfs.rs:241`) |
| `plugin_state_shutdown` | a state that a dispatch has stored is never linked, not even by a clean shutdown (`plugin.rs:148`) |

`findings` in `PROJECT.json` quotes the sentences, and lists the other
disagreements that were met while modelling. Behaviours of passing runs show
several of them: in `ownership` a daemon key set over CRUD writes the start-up
copy of `config.yaml` over a claim (`crud/config.rs:254`), and the first
manifest write after a claim empties `stats.owners` (`crud/helpers.rs:107`); in
`plugin_state` a gate's group query takes and drops the state a job has queued
(`acl.rs:215`); in `entities` clearing the acl of an entity leaves the loaded
plugin open (`crud/entities.rs:208`); in `kind_tree` an insertion below a leaf
is lost and acknowledged (`entity.rs:79`); in `schedules` a random job outlives
its entity (`schedule.rs:179`) and a long duration wraps (`schedule.rs:228`); in
`languages` a switch that fails is acknowledged (`i18n.rs:232`), and a bundled
file that is refused leaves its language with bare keys (`i18n.rs:263`).

## What is proved

TLAPS proves the following for every value of the constants, that is for any
number of manifests, principals, states, jobs, entities, ACLs, groups, protocol
IDs, requests and clients, for integers of any width, and for any bounds. The
assumptions are the named `ASSUME`s of the modules: distinct names for what is absent, and bounds that are natural numbers.

- `RuntimeHead_proofs`: `TypeOK`, `DurableName` (the refinement of
  `PublishedHead`), `PinFollowsHead`, `CleanStop`, `SkipIsSound`. Each rests on
  `Control`, which ties the phases of the process, of a write and of the two
  publishers together. `Known` adds that everything which may still reach the
  name is stored: the head, the uncommitted write, the attempt's CID, the
  abandoned requests. Without the last of these a crash would break
  `DurableName`. `Undisturbed` says what the periodic task knows after each of
  its steps as long as nobody else touched a name. `AttemptsSettle` and
  `SettledStays` are the safe half of `Converges`: from the moment on at which
  nothing under way leads away from the head (`Harmless`), a full attempt brings
  both names there, and nothing but a new head takes them off it.
  `OnlyHeadsAreNamed` is about `HSpec`, which is `Spec` with a history variable
  for the heads there have been: neither name ever shows a manifest that was
  stored but did not become the head, so a crash between the two steps of a write
  is as if the write had not begun. It adds to `DurableName` which of the stored
  manifests a restart can take up.
- `Ownership_proofs`: `TypeOK`, `AuthorityIsGiven`, `NoLateClaim`,
  `OwnersAreGranted`, `PowerIsHandedOn`. `Given` extends the first to everything on its way: a
  claim past its check, a CRUD request that is not yet written, a manifest that is
  published or in a request to publish it. `Phases` ties the guards to the handlers; two more results
  follow from it. `WritersGetIn`: whoever waits to write the root ACL waits for a
  handler that waits for no lock. `ConfiguredOwnersStay`: the start-up copy that
  CRUD saves over `config.yaml` costs the file its last owner only in the process
  that was claimed, since a process that found owners there saves owners. For the
  refinement of `Power` no invariant but the types is needed: `ClaimCheck` on a
  runtime without owners is `Claim`, `CrudBegin` is `Name` because its gate reads
  two of the copies that count, and every other step copies from one of them, or
  from a claim under way, to another: a start from the published manifest and
  `config.yaml`, whose owners are holders while the process is down, too.
- `PluginState_proofs`: `TypeOK`, `PersistedIsStored`, `DispatchesStore`,
  `NothingLeftQueued`, `ShutdownCatchesUp`. `OnItsWay` is the heart: a state
  that is not stored yet is queued or in the hands of a dispatcher, and
  whatever is queued has a dispatcher who will still take it. `CatchingUp`
  follows the shutdown branch step by step. `OnlyBehindIsLinked` adds what it
  leaves unlinked: a state that is taken for persisted because a dispatch has
  stored it, in every process in which nothing failed and no job interfered, which is the finding of
  `plugin_state_shutdown` for all instances.
- `Entities_proofs`: `TypeOK`, all four invariants and the action property.
  `CacheFollows` relates the cache to the library when no fetch failed and when
  one did; `QueuesOwned` says who will drain a queue that is not empty.
  `RingsStay`: entities that are each other's parents, or their own, cannot be
  deleted by plugins, only by CRUD.
- `AclLanguages_proofs`, on `Acl`: `TypeOK`, `VerdictFollowsRule`,
  `AdmittedWasGranted`, `DenialHolds`. The invariants of the two loops are
  `PassedBy` and `NoneLeft`: a group that need not be asked any more was not
  heard, or the caller was at some time not in it.
- `AclLanguages_proofs`, on `Languages`: `LangTypeOK` and all four invariants.
  `Phases` says what is loaded at each stage of the main task, `Kept` that what is loaded of a language comes whole from one of its files and that the bundled languages are always there, `Reachable` that a switch has a file to take, `Settled`
  that a lookup that found its language has one, `OnTheWay` that a switch under way
  leads to the language of the manifest.
- `KindTree_proofs`: `TypeOK`, `NoEmptyFamily`, `BuiltAsWritten`, `RoundTrip`,
  `StoreSpec`. The lemmas say what `Insert` and `Remove` return, and that they
  keep trees trees without empty maps. `BuiltSoFar` is the invariant of a build:
  the leaves of the draft are shortest IDs of the descriptor, and every ID
  inserted is one or continues one. `ExportedApart` makes `RoundTrip` of it: in an
  exported descriptor no ID continues another one.
- `KindTree_proofs`, on the operators: `KindsMakeTheTree`, that the kinds
  determine the nested map, so a manifest's CID does not depend on its history.
  With it follow that insertions of unrelated IDs commute (`InsertionsCommute`),
  removals commute (`RemovalsCommute`), each undoes the other
  (`RemoveUndoesInsert`, `InsertUndoesRemove`), and that building from an unedited
  export ends with the very tree it was made from (`RebuiltIsSame`).
- `Schedules_proofs`: `TypeOK`, `InitIsHeard`, `OneChain`, `AtOnTime`, `Rests`.
  `StartUp` says that nothing leaves the outbox before `mode` is `up`, `Queue`
  that an envelope is in the outbox once, `Admitted` what a request that got
  through looks like, `JobShape` what a slot holds. `DelayIsExact` is the lemma
  on integers of a width. `OneChain` has that a registered request has a job,
  which makes it inductive for a random job between its firing and its successor.
  `RequestsCanGoOn` is proved with `NoneForgotten`, and with a count: a spawned
  request has no job yet and nobody has two, so one of as many slots as there are
  requests is free.
- `Publisher_proofs`: `TypeOK`, `GuardIsExact`,
  `OncePerProcess`, `NameNeverGoesBack`, `ImplementsService`. `NameNeverGoesBack` rests on
  `InOrder`: as long as no crash has happened, all earlier requests of a client
  who sends each of them once have run, so what Kubo is busy with is the request
  the client is at, and the name leads to none that is newer. For the refinement
  of `NameService`, `Made` says that a message is of a request its client has come
  to, and every step is `Perform`, `GoOn` or a stutter. `RetriesSuffice` counts: each
  thing that goes wrong spends at most one message of the request a client is at
  (`OneFaultEach`), so with more messages than faults one is left that can succeed
  or that can still be made.

Each proof has the same shape: the invariant holds initially, one step per
action shows that it is kept, and a temporal step combines the two.

Only model-checked: `Converges`, `ClaimIsAnswered`, `EveryAskSettles`,
`JobsKeepFiring` and `EveryoneIsServed`, since liveness is out of the prover's
reach, and the violations. What these liveness properties need besides fairness
is a matter of safety, and proved: that an attempt brings the names to the head
and they stay there (`AttemptsSettle`, `SettledStays`), that nobody waits for
himself (`WritersGetIn`), that a request on its way meets no closed door
(`RequestsCanGoOn`), that a registration always has its job (`OneChain`), and
that messages do not run out before faults do (`RetriesSuffice`).

## What is not modelled

- The verbs of the bundled plugins: sequential functions on one value, of which
  the runtime sees what `PluginState` assumes.
- Configuration keys other than `owners`, `i18n` and the daemon keys: values of
  the manifest that nothing reads at run time.
- Entity creation by plugins: unreachable, because the kind registry is never
  filled. The branch would also wait for itself on `stats` (`rpc.rs:285`).
- Replies, and envelopes of plugins that are not for `#scheduler`: sent once or
  dropped with a warning, and nothing in the runtime depends on them.
- Bootstrap from YAML and export beyond the kinds, status pages, command line,
  build script: single passes over data or read-only views.
- How tokio-cron-scheduler finds the next firing of a cron spec: it is one of the
  `Gaps`. The 120 seconds after which `ma_core` takes a message for expired, and
  the guard may forget it.
- `ma_core` is not in the repository. Its `check_cap`, principal normalisation
  and message validation appear as their callers in `src/` use them.
- Expiry of IPNS records and garbage collection in Kubo.

## Plan

Done, in this order: the runtime head and its abstract specification, since
everything else hangs from it; ownership, later with its abstract specification;
plugin state; entities; the ACL decision; kinds and their abstract specification;
schedules; the publisher service and what it is to its clients; languages. Each
has its proofs.

What the code would still allow:

1. Composition: `Entities` and `PluginState` over `RuntimeHead`, so that a
   restart finds the manifest the name leads to.
2. An abstract specification of what a plugin's user sees of its state across
   restarts, and the refinement.
3. The verbs of the bundled plugins as operators, and `PluginState` composed
   with them.
