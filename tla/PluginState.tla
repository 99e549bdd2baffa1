---- MODULE PluginState ----
(***************************************************************************)
(* How the state of one stateful entity reaches IPFS.                      *)
(*                                                                         *)
(* The plugin keeps its state in its own memory and hands it to the        *)
(* runtime with ma_set_state. Dispatches of the main loop and of scheduled *)
(* jobs run concurrently: the plugin's mutex covers only the call, what    *)
(* the call queued is taken and added to IPFS afterwards. At a graceful    *)
(* shutdown the main loop calls save_state and links what that queued in   *)
(* the entity node; the next start loads the linked state.                 *)
(*                                                                         *)
(* The plugin follows the contract of plugins/: every change of its state  *)
(* is passed to ma_set_state, and save_state passes the current one. A     *)
(* kind that lacks the export save_state fails in SaveFails each time.     *)
(*                                                                         *)
(* Left out: StateCtx.dirty, which the code sets and never reads; other    *)
(* entities; replacing or deleting the entity while it runs.               *)
(***************************************************************************)
EXTENDS Naturals

CONSTANTS
    States,     \* encoded states
    Fresh,      \* what a plugin starts from when it is given no state
    NoBytes,    \* no state: no link, nothing queued
    Loop,       \* the main loop
    Jobs,       \* scheduled jobs of the entity
    Nobody,     \* holds no mutex
    Queried,    \* entity ACLs name the entity as a group
    MaxWrites,  \* bound on changes of the state in a process
    MaxFaults,  \* bound on failing calls
    MaxStarts   \* bound on starts

ASSUME PluginStateAssumption ==
    /\ Fresh \in States /\ NoBytes \notin States
    /\ Loop \notin Jobs /\ Nobody \notin Jobs \union {Loop}
    /\ Queried \in BOOLEAN
    /\ MaxWrites \in Nat /\ MaxFaults \in Nat /\ MaxStarts \in Nat

VARIABLES
    stored,     \* states in IPFS
    link,       \* the state link of the entity node in the current manifest
    mode,       \* "down", "up", "saving" (the shutdown branch runs)
    live,       \* the state in the plugin's memory
    pending,    \* StateCtx.pending
    persisted,  \* StateCtx.persisted
    holder,     \* who holds the plugin's mutex
    task,       \* each dispatcher's step and the bytes it is adding
    writes, faults, starts,
    slipped,    \* a call failed in this process
    robbed,     \* a group query took a queued state in this process
    quiet,      \* no job was at work since the shutdown branch began
    behind,     \* the shutdown branch began with a state not known as persisted
    clean       \* the last process ended through the shutdown branch, whose save and
                \* link succeeded if there was anything to save

context  == <<live, pending, persisted, holder, task>>
auxVars  == <<writes, faults, starts, slipped, robbed, quiet, behind, clean>>
vars     == <<stored, link, mode, context, auxVars>>

----
Tasks   == Jobs \union {Loop}
Bytes   == States \union {NoBytes}
Steps   == {"idle", "calling", "called", "asked", "adding"}
Resting == [pc |-> "idle", bytes |-> NoBytes]
AtRest  == \A t \in Tasks : task[t] = Resting

\* A call fails; failures are bounded by MaxFaults.
Slip ==
    /\ faults < MaxFaults
    /\ faults' = faults + 1
    /\ slipped' = TRUE

\* A job that is at work during the shutdown branch may disturb it.
Noticed(t) == quiet' = (quiet /\ (mode # "saving" \/ t = Loop))

TypeOK ==
    /\ stored \subseteq States
    /\ link \in Bytes /\ pending \in Bytes /\ persisted \in Bytes
    /\ live \in States
    /\ mode \in {"down", "up", "saving"}
    /\ holder \in Tasks \union {Nobody}
    /\ task \in [Tasks -> [pc : Steps, bytes : Bytes]]
    /\ writes \in Nat /\ faults \in Nat /\ starts \in Nat
    /\ slipped \in BOOLEAN /\ robbed \in BOOLEAN /\ quiet \in BOOLEAN
    /\ behind \in BOOLEAN /\ clean \in BOOLEAN

Init ==
    /\ stored = {} /\ link = NoBytes
    /\ mode = "down"
    /\ live = Fresh /\ pending = NoBytes /\ persisted = NoBytes
    /\ holder = Nobody
    /\ task = [t \in Tasks |-> Resting]
    /\ writes = 0 /\ faults = 0 /\ starts = 0
    /\ slipped = FALSE /\ robbed = FALSE
    /\ quiet = TRUE /\ behind = FALSE /\ clean = FALSE

----
(* Start and stop *)

\* init() of the plugin: it starts afresh when it is given no state.
Restored(given) == IF given = NoBytes THEN Fresh ELSE given

\* EntityPlugin::load: a linked state that cannot be fetched counts as no state.
Start ==
    /\ mode = "down" /\ starts < MaxStarts
    /\ mode' = "up"
    /\ starts' = starts + 1
    /\ \E given \in {link, NoBytes} :
          /\ live' = Restored(given)
          /\ persisted' = given
          /\ IF given = link THEN UNCHANGED faults
                             ELSE faults < MaxFaults /\ faults' = faults + 1
    /\ pending' = NoBytes
    /\ holder' = Nobody
    /\ task' = [t \in Tasks |-> Resting]
    /\ writes' = 0
    /\ slipped' = FALSE /\ robbed' = FALSE
    /\ quiet' = TRUE /\ behind' = FALSE /\ clean' = FALSE
    /\ UNCHANGED <<stored, link>>

Crash ==
    /\ mode # "down"
    /\ mode' = "down"
    /\ UNCHANGED <<stored, link, context, auxVars>>

\* ctrl-c between two rounds of the main loop; jobs go on.
Shutdown ==
    /\ mode = "up" /\ task[Loop] = Resting
    /\ mode' = "saving"
    /\ quiet' = \A t \in Jobs : task[t] = Resting
    /\ behind' = (live # persisted)
    /\ UNCHANGED <<stored, link, context, writes, faults, starts, slipped, robbed,
                   clean>>

----
(* Dispatches: handle_entity_plugin_message and dispatch_scheduled *)

\* The plugin's mutex is taken for the call.
Call(t) ==
    /\ mode # "down" /\ task[t].pc = "idle"
    /\ mode = "saving" => t # Loop
    /\ holder = Nobody
    /\ holder' = t
    /\ task' = [task EXCEPT ![t].pc = "calling"]
    /\ Noticed(t)
    /\ UNCHANGED <<stored, link, mode, live, pending, persisted, writes, faults, starts,
                   slipped, robbed, behind, clean>>

\* ma_set_state: queue the bytes unless they are the persisted ones.
Queued(v) == pending' = IF v # persisted THEN v ELSE pending

\* The plugin changes its state and passes it on.
SetState(t, v) ==
    /\ mode # "down" /\ holder = t
    /\ mode = "saving" => t # Loop
    /\ writes < MaxWrites
    /\ writes' = writes + 1
    /\ live' = v
    /\ Queued(v)
    /\ UNCHANGED <<stored, link, mode, persisted, holder, task, faults, starts, slipped,
                   robbed, quiet, behind, clean>>

Return(t) ==
    /\ mode # "down" /\ holder = t
    /\ mode = "saving" => t # Loop
    /\ holder' = Nobody
    /\ task' = [task EXCEPT ![t].pc = "called"]
    /\ UNCHANGED <<stored, link, mode, live, pending, persisted, auxVars>>

\* The call fails: dispatch_to returns before it takes what was queued.
Trap(t) ==
    /\ mode # "down" /\ holder = t
    /\ mode = "saving" => t # Loop
    /\ Slip
    /\ holder' = Nobody
    /\ task' = [task EXCEPT ![t] = Resting]
    /\ UNCHANGED <<stored, link, mode, live, pending, persisted, writes, starts, robbed,
                   quiet, behind, clean>>

AfterPeek == pending  \* faulty variant: what was taken stays queued

AfterTake == NoBytes

\* Outside the plugin's mutex: take what is queued by now, by whichever call.
Take(t) ==
    /\ mode # "down" /\ task[t].pc = "called"
    /\ mode = "saving" => t # Loop
    /\ task' = [task EXCEPT ![t] =
                   IF pending = NoBytes THEN Resting
                                        ELSE [pc |-> "adding", bytes |-> pending]]
    /\ pending' = AfterTake
    /\ UNCHANGED <<stored, link, mode, live, persisted, holder, auxVars>>

\* query_actor_group on behalf of a gate: ask the plugin, under its mutex, whether it
\* holds a member, which changes no state ...
Ask ==
    /\ Queried
    /\ mode = "up" /\ task[Loop].pc = "idle"
    /\ holder = Nobody
    /\ task' = [task EXCEPT ![Loop].pc = "asked"]
    /\ UNCHANGED <<stored, link, mode, live, pending, persisted, holder, auxVars>>

\* ... and then read only the answer: what is queued by now is gone.
TakeForQuery ==
    /\ mode = "up" /\ task[Loop].pc = "asked"
    /\ task' = [task EXCEPT ![Loop] = Resting]
    /\ pending' = AfterTake
    /\ robbed' = (robbed \/ pending # NoBytes)
    /\ UNCHANGED <<stored, link, mode, live, persisted, holder, writes, faults, starts,
                   slipped, quiet, behind, clean>>

SavedAndCleared(v) ==  \* faulty variant: mark_saved also drops what is queued
    persisted' = v /\ pending' = NoBytes

Saved(v) == persisted' = v /\ UNCHANGED pending

\* ipfs_add succeeded: mark_saved. Nobody keeps the CID.
Added(t) ==
    /\ mode # "down" /\ task[t].pc = "adding"
    /\ mode = "saving" => t # Loop
    /\ stored' = stored \union {task[t].bytes}
    /\ Saved(task[t].bytes)
    /\ task' = [task EXCEPT ![t] = Resting]
    /\ UNCHANGED <<link, mode, live, holder, auxVars>>

DroppedAsSaved(v) == persisted' = v  \* faulty variant: mark_saved in both branches

Dropped(v) == UNCHANGED persisted

\* ipfs_add failed: a warning, and the bytes are gone.
AddFails(t) ==
    /\ mode # "down" /\ task[t].pc = "adding"
    /\ mode = "saving" => t # Loop
    /\ Slip
    /\ Dropped(task[t].bytes)
    /\ task' = [task EXCEPT ![t] = Resting]
    /\ UNCHANGED <<stored, link, mode, live, pending, holder, writes, starts, robbed,
                   quiet, behind, clean>>

----
(* The shutdown branch: trigger_save, then the entity node *)

SaveSkipped == UNCHANGED pending  \* faulty variant: takes without asking the plugin

SaveQueued == Queued(live)

\* The save_state export passes the current state to ma_set_state.
SaveCall ==
    /\ mode = "saving" /\ task[Loop].pc = "idle"
    /\ holder = Nobody
    /\ SaveQueued
    /\ task' = [task EXCEPT ![Loop].pc = "called"]
    /\ UNCHANGED <<stored, link, mode, live, persisted, holder, auxVars>>

SaveTake ==
    /\ mode = "saving" /\ task[Loop].pc = "called"
    /\ \/ /\ pending = NoBytes                  \* Ok(None): the node stays as it is
          /\ mode' = "down"
          /\ clean' = TRUE
          /\ task' = [task EXCEPT ![Loop] = Resting]
       \/ /\ pending # NoBytes
          /\ task' = [task EXCEPT ![Loop] = [pc |-> "adding", bytes |-> pending]]
          /\ UNCHANGED <<mode, clean>>
    /\ pending' = NoBytes
    /\ UNCHANGED <<stored, link, live, persisted, holder, writes, faults, starts, slipped,
                   robbed, quiet, behind>>

\* The state is added, marked as saved and linked in a new entity node.
SaveLink ==
    /\ mode = "saving" /\ task[Loop].pc = "adding"
    /\ stored' = stored \union {task[Loop].bytes}
    /\ persisted' = task[Loop].bytes
    /\ link' = task[Loop].bytes
    /\ mode' = "down"
    /\ clean' = TRUE
    /\ task' = [task EXCEPT ![Loop] = Resting]
    /\ UNCHANGED <<live, pending, holder, writes, faults, starts, slipped,
                   robbed, quiet, behind>>

\* save_state, ipfs_add or the node's dag_put failed: the entity is skipped, and
\* what the failing step left in memory goes with the process.
SaveFails ==
    /\ mode = "saving"
    /\ Slip
    /\ mode' = "down"
    /\ UNCHANGED <<stored, link, context, writes, starts, robbed, quiet, behind, clean>>

----
Dispatch(t) ==
    \/ Call(t)
    \/ \E v \in States : SetState(t, v)
    \/ Return(t) \/ Trap(t) \/ Take(t) \/ Added(t) \/ AddFails(t)

Next ==
    \/ Start \/ Crash \/ Shutdown
    \/ \E t \in Tasks : Dispatch(t)
    \/ Ask \/ TakeForQuery
    \/ SaveCall \/ SaveTake \/ SaveLink \/ SaveFails

Spec == Init /\ [][Next]_vars

----
(* Properties *)

\* Change detection never takes a state for persisted that is not in IPFS, or the
\* plugin's next ma_set_state of it would be dropped for good (mark_saved runs only
\* after ipfs_add). The link too leads to a stored state.
PersistedIsStored ==
    /\ persisted # NoBytes /\ mode # "down" => persisted \in stored
    /\ link # NoBytes => link \in stored

\* When every dispatch has ended, no call failed and no group query came between,
\* the plugin's state is in IPFS, however dispatches overlapped between the call, the
\* take and mark_saved.
DispatchesStore ==
    mode = "up" /\ AtRest /\ ~slipped /\ ~robbed /\ writes > 0 => live \in stored

\* When every dispatch has ended, nothing is left queued that a later dispatch could write over a newer state.
NothingLeftQueued == mode # "down" /\ AtRest /\ ~slipped => pending = NoBytes

\* What an earlier failure kept from IPFS the shutdown catches up with, if no
\* scheduled job interferes (ma_set_state queues whatever is not persisted).
ShutdownCatchesUp == mode = "down" /\ clean /\ behind /\ quiet => link = live

\* README.md:35-36: "State is persisted back to IPFS on graceful shutdown." A clean
\* shutdown of a process in which no call failed leaves the state for the next start.
StateSurvivesShutdown == mode = "down" /\ clean /\ ~slipped /\ writes > 0 => link = live

====
