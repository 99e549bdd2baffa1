---- MODULE RuntimeHead ----
(***************************************************************************)
(* The life of the runtime head: the CID of the current RuntimeManifest.   *)
(*                                                                         *)
(* Three parties touch it. The main loop (main.rs) owns stats.root_cid and *)
(* replaces it one handler at a time (with_manifest_crud); the periodic    *)
(* task publishes what it last read of it, first in the DID document and   *)
(* then under the runtime's IPNS name; the ctrl-c branch saves the entity  *)
(* states in a last manifest and publishes that one. Kubo keeps blocks,    *)
(* pins, keys and names across restarts, and a request it received may     *)
(* take effect after its caller gave up or died.                           *)
(*                                                                         *)
(* Simplifications:                                                        *)
(* - a manifest is its CID: an edit takes the head to any manifest, and    *)
(*   two edits may lead back to an earlier CID because CIDs are content    *)
(*   addresses;                                                            *)
(* - a handler that fails before its dag_put has stored a manifest changes *)
(*   nothing, and has no action;                                           *)
(* - IPNS records do not expire and Kubo does not collect garbage;         *)
(* - requests abandoned with the same name and value count once in late.   *)
(***************************************************************************)
EXTENDS Naturals

CONSTANTS
    Cids,       \* manifest CIDs
    Minimal,    \* the manifest of bootstrap_minimal_manifest
    Overrides,  \* manifests made by --gen-root-cid, usable with --root-cid
    NoCid,      \* no head, no record
    Bare,       \* a DID document without a runtime link
    FaultKinds, \* which calls may fail: "pin", "error", "timeout"
    MaxEdits,   \* bound on manifest edits
    MaxFaults,  \* bound on failed calls
    MaxStarts   \* bound on starts of the daemon

ASSUME CidsAssumption ==
    /\ Minimal \in Cids
    /\ Overrides \subseteq Cids
    /\ NoCid \notin Cids
    /\ Bare \notin Cids
    /\ Bare # NoCid

ASSUME BoundsAssumption ==
    MaxEdits \in Nat /\ MaxFaults \in Nat /\ MaxStarts \in Nat

VARIABLES
    \* Kubo
    stored,     \* manifests Kubo has
    pins,       \* manifests pinned recursively
    names,      \* what the "did" and the "runtime" name resolve to
    keyKnown,   \* the runtime's IPNS key is in Kubo's key store
    late,       \* abandoned publish requests that may still take effect
    \* the daemon
    proc,       \* phase of the process
    head,       \* stats.root_cid (root_cid while starting)
    write,      \* the manifest the main loop has put but not yet committed
    bootDoc,    \* the document of the background publish of main(), if outstanding
    pub,        \* the periodic task's current attempt
    lastPub,    \* last_published_cid
    warm,       \* did_publish_cache_warm_secs have elapsed since last_published_at
    stop,       \* the shutdown branch's publish
    \* bounds and history
    edits, faults, starts,
    pinOk,      \* the last manifest written by this process got its pin
    failed,     \* an attempt of the periodic task ended without being recorded
    foreign     \* since the periodic task's last attempt began, a request that
                \* was not its own changed a name

kuboVars == <<stored, pins, names, keyKnown, late>>
procVars == <<proc, head, write, bootDoc, pub, lastPub, warm, stop>>
auxVars  == <<edits, faults, starts, pinOk, failed, foreign>>
vars     == <<kuboVars, procVars, auxVars>>

----
(* Helpers *)

Roots   == Cids \union {NoCid}
Running == {"up", "saving", "stopping", "closing"}
Alive   == Running \union {"booting"}

IdlePub == [pc |-> "idle", cid |-> NoCid, didOk |-> FALSE, landed |-> FALSE]
NoStop  == [pc |-> "none", landed |-> FALSE, overtaken |-> FALSE]

\* A call of the given kind fails; failures are bounded by MaxFaults.
Fault(kind) ==
    /\ kind \in FaultKinds
    /\ faults < MaxFaults
    /\ faults' = faults + 1

\* The publish request an attempt of the periodic task is waiting for, if it is
\* still to take effect.
PubOutstanding ==
    IF pub.pc \in {"did", "runtime"} /\ ~pub.landed
    THEN {<<pub.pc, pub.cid>>} ELSE {}

StopOutstanding ==
    IF stop.pc = "runtime" /\ ~stop.landed THEN {<<"runtime", head>>} ELSE {}

BootOutstanding == IF bootDoc = NoCid THEN {} ELSE {<<"did", bootDoc>>}

\* The process ends: its tasks go, what they had asked of Kubo (asked) may still
\* happen.
Exit(asked) ==
    /\ late' = late \union asked
    /\ write' = NoCid
    /\ bootDoc' = NoCid
    /\ pub' = IdlePub
    /\ lastPub' = NoCid
    /\ warm' = TRUE
    /\ pinOk' = FALSE

PinMovedNoFallback(old, new) ==  \* faulty variant: no pin_add for an unpinned root
    IF old \in pins THEN (pins \ {old}) \union {new} ELSE pins

\* The runtime's name changes after the shutdown's own publish took effect.
Overtaken == [stop EXCEPT !.overtaken = stop.landed]

\* pin_update: move the pin when the old manifest has one, else pin_add.
PinMoved(old, new) ==
    IF old \in pins THEN (pins \ {old}) \union {new} ELSE pins \union {new}

KuboTypes ==
    /\ stored \subseteq Cids
    /\ pins \subseteq Cids
    /\ names \in [did : Roots \union {Bare}, runtime : Roots]
    /\ keyKnown \in BOOLEAN
    /\ late \subseteq ({"did"} \X (Cids \union {Bare})) \union ({"runtime"} \X Cids)

ProcTypes ==
    /\ proc \in {"down", "booting", "up", "saving", "stopping", "closing", "stopped",
               "refused"}
    /\ head \in Roots
    /\ write \in Roots
    /\ bootDoc \in Roots \union {Bare}
    /\ pub \in [pc : {"idle", "did", "key", "runtime"}, cid : Roots,
                didOk : BOOLEAN, landed : BOOLEAN]
    /\ lastPub \in Roots
    /\ stop \in [pc : {"none", "runtime", "acked", "failed"}, landed : BOOLEAN,
                 overtaken : BOOLEAN]

BoundTypes == edits \in Nat /\ faults \in Nat /\ starts \in Nat

FlagTypes ==
    /\ warm \in BOOLEAN
    /\ pinOk \in BOOLEAN /\ failed \in BOOLEAN /\ foreign \in BOOLEAN

\* Every variable keeps its type: in particular the periodic task never asks Kubo
\* to publish an absent root CID.
TypeOK == KuboTypes /\ ProcTypes /\ BoundTypes /\ FlagTypes

Init ==
    /\ stored = Overrides
    /\ pins = Overrides
    /\ names = [did |-> NoCid, runtime |-> NoCid]
    /\ keyKnown = FALSE
    /\ late = {}
    /\ proc = "down"
    /\ head = NoCid
    /\ write = NoCid
    /\ bootDoc = NoCid
    /\ pub = IdlePub
    /\ lastPub = NoCid
    /\ warm = TRUE
    /\ stop = NoStop
    /\ edits = 0 /\ faults = 0 /\ starts = 0
    /\ pinOk = FALSE /\ failed = FALSE /\ foreign = FALSE

----
(* Starting *)

\* main(): the DID document goes out in the background, with a runtime link only
\* when --root-cid gave one.
Start ==
    /\ proc \in {"down", "stopped", "refused"}
    /\ starts < MaxStarts
    /\ starts' = starts + 1
    /\ proc' = "booting"
    /\ \E override \in Overrides \union {NoCid} :
          /\ head' = override
          /\ bootDoc' = IF override = NoCid THEN Bare ELSE override
    /\ stop' = NoStop
    /\ failed' = FALSE /\ foreign' = FALSE
    /\ UNCHANGED <<kuboVars, write, pub, lastPub, warm, edits, faults, pinOk>>

BootOverride ==
    /\ proc = "booting" /\ head # NoCid
    /\ proc' = "up"
    /\ UNCHANGED <<kuboVars, head, write, bootDoc, pub, lastPub, warm, stop, auxVars>>

BootFromIpns ==
    /\ proc = "booting" /\ head = NoCid
    /\ keyKnown /\ names.runtime # NoCid
    /\ head' = names.runtime
    /\ proc' = "up"
    /\ UNCHANGED <<kuboVars, write, bootDoc, pub, lastPub, warm, stop, auxVars>>

\* No such key in Kubo: bootstrap_minimal_manifest, whose failure is only logged.
BootMinimal ==
    /\ proc = "booting" /\ head = NoCid
    /\ ~keyKnown
    /\ \/ /\ stored' = stored \union {Minimal}
          /\ pins' = pins \union {Minimal}
          /\ head' = Minimal
          /\ pinOk' = TRUE
          /\ UNCHANGED faults
       \/ /\ Fault("pin")
          /\ stored' \in {stored, stored \union {Minimal}}
          /\ UNCHANGED <<pins, head, pinOk>>
    /\ proc' = "up"
    /\ UNCHANGED <<names, keyKnown, late, write, bootDoc, pub, lastPub, warm, stop,
                   edits, starts, failed, foreign>>

\* The key is there but name/resolve fails because nothing was ever published under
\* it, or Kubo is not reachable: main() returns the error.
BootRefused ==
    /\ proc = "booting"
    /\ \/ /\ head = NoCid /\ keyKnown /\ names.runtime = NoCid
          /\ UNCHANGED faults
       \/ Fault("error")
    /\ proc' = "refused"
    /\ Exit(BootOutstanding)
    /\ UNCHANGED <<stored, pins, names, keyKnown, head, stop, edits, starts,
                   failed, foreign>>

Boot == BootOverride \/ BootFromIpns \/ BootMinimal \/ BootRefused

\* The process dies. A crash that no start follows is left out: nothing would see it.
Crash ==
    /\ proc \in Alive
    /\ starts < MaxStarts
    /\ proc' = "down"
    /\ head' = NoCid
    /\ stop' = NoStop
    /\ Exit(PubOutstanding \union StopOutstanding \union BootOutstanding)
    /\ UNCHANGED <<stored, pins, names, keyKnown, edits, faults, starts, failed, foreign>>

----
(* The main loop: one writer of the head *)

PutUnchecked(c) == UNCHANGED stored  \* faulty variant: dag_put's failure is ignored

Put(c) == stored' = stored \union {c}

\* with_manifest_crud and save_all_entity_states store the new manifest first.
WritePut(c) ==
    /\ write = NoCid /\ head # NoCid
    /\ \/ proc = "up" /\ edits < MaxEdits /\ edits' = edits + 1
       \/ proc = "saving" /\ UNCHANGED edits
    /\ Put(c)
    /\ write' = c
    /\ UNCHANGED <<pins, names, keyKnown, late, proc, head, bootDoc, pub, lastPub, warm,
                   stop, faults, starts, pinOk, failed, foreign>>

\* The pin moves, or pin_update fails with a warning (and may have moved it all
\* the same); either way the new manifest becomes the head.
WriteCommit ==
    /\ write # NoCid
    /\ \/ /\ pins' = PinMoved(head, write)
          /\ pinOk' = TRUE
          /\ UNCHANGED faults
       \/ /\ Fault("pin")
          /\ pins' \in {pins, PinMoved(head, write)}
          /\ pinOk' = FALSE
    /\ head' = write
    /\ write' = NoCid
    /\ proc' = IF proc = "saving" THEN "stopping" ELSE proc
    /\ UNCHANGED <<stored, names, keyKnown, late, bootDoc, pub, lastPub, warm, stop,
                   edits, starts, failed, foreign>>

\* ctrl-c, seen between two rounds of the main loop. Without a head there is nothing
\* to publish, without entities nothing to save.
Shutdown ==
    /\ proc = "up" /\ write = NoCid
    /\ IF head = NoCid THEN proc' = "closing" ELSE proc' \in {"saving", "stopping"}
    /\ UNCHANGED <<kuboVars, head, write, bootDoc, pub, lastPub, warm, stop, auxVars>>

\* save_all_entity_states returns an error: the old head is published.
SaveFails ==
    /\ proc = "saving" /\ write = NoCid
    /\ Fault("error")
    /\ proc' = "stopping"
    /\ UNCHANGED <<kuboVars, head, write, bootDoc, pub, lastPub, warm, stop, edits, starts,
                   pinOk, failed, foreign>>

StopKey ==
    /\ proc = "stopping" /\ stop.pc = "none"
    /\ keyKnown' = TRUE
    /\ stop' = [stop EXCEPT !.pc = "runtime"]
    /\ UNCHANGED <<stored, pins, names, late, proc, head, write, bootDoc, pub, lastPub, warm,
                   auxVars>>

StopLand ==
    /\ stop.pc = "runtime" /\ ~stop.landed
    /\ names' = [names EXCEPT !.runtime = head]
    /\ stop' = [stop EXCEPT !.landed = TRUE]
    /\ UNCHANGED <<stored, pins, keyKnown, late, proc, head, write, bootDoc, pub, lastPub,
                   warm, auxVars>>

StopAnsweredEarly == TRUE  \* faulty variant: Kubo's answer is not awaited

StopAnswered == stop.landed

StopAck ==
    /\ stop.pc = "runtime" /\ StopAnswered
    /\ stop' = [stop EXCEPT !.pc = "acked"]
    /\ proc' = "closing"
    /\ UNCHANGED <<kuboVars, head, write, bootDoc, pub, lastPub, warm, auxVars>>

\* The shutdown publish fails or times out; the process ends all the same.
StopFails ==
    /\ proc = "stopping"
    /\ \/ /\ ~stop.landed
          /\ Fault("error")
          /\ UNCHANGED late
       \/ /\ Fault("timeout")
          /\ late' = late \union StopOutstanding
    /\ stop' = [stop EXCEPT !.pc = "failed"]
    /\ proc' = "closing"
    /\ UNCHANGED <<stored, pins, names, keyKnown, head, write, bootDoc, pub, lastPub, warm,
                   edits, starts, pinOk, failed, foreign>>

\* endpoint.close() has returned: until here the tasks went on.
Close ==
    /\ proc = "closing"
    /\ proc' = "stopped"
    /\ Exit(PubOutstanding \union BootOutstanding)
    /\ UNCHANGED <<stored, pins, names, keyKnown, head, stop, edits, faults, starts,
                   failed, foreign>>

----
(* The periodic task *)

HasHead == head # NoCid

DueOnChange == lastPub # head  \* faulty variant: no cache warming

\* Changed since last_published_cid, or due for cache warming.
Due == lastPub # head \/ warm

PubTick ==
    /\ proc \in Running /\ pub.pc = "idle"
    /\ HasHead /\ Due
    /\ pub' = [IdlePub EXCEPT !.pc = "did", !.cid = head]
    /\ foreign' = FALSE
    /\ UNCHANGED <<kuboVars, proc, head, write, bootDoc, lastPub, warm, stop,
                   edits, faults, starts, pinOk, failed>>

\* Kubo publishes what the task asked for.
PubLand ==
    /\ pub.pc \in {"did", "runtime"} /\ ~pub.landed
    /\ names' = IF pub.pc = "did" THEN [names EXCEPT !.did = pub.cid]
                                  ELSE [names EXCEPT !.runtime = pub.cid]
    /\ pub' = [pub EXCEPT !.landed = TRUE]
    /\ stop' = IF pub.pc = "runtime" THEN Overtaken ELSE stop
    /\ UNCHANGED <<stored, pins, keyKnown, late, proc, head, write, bootDoc, lastPub, warm,
                   auxVars>>

\* do_publish_own_document returned, with an error or not: the runtime name is next.
PubDid ==
    /\ pub.pc = "did"
    /\ \/ /\ pub.landed
          /\ pub' = [pub EXCEPT !.pc = "key", !.didOk = TRUE, !.landed = FALSE]
          /\ UNCHANGED <<late, faults>>
       \/ /\ ~pub.landed /\ Fault("error")
          /\ pub' = [pub EXCEPT !.pc = "key"]
          /\ UNCHANGED late
       \/ /\ Fault("timeout")
          /\ late' = late \union PubOutstanding
          /\ pub' = [pub EXCEPT !.pc = "key", !.landed = FALSE]
    /\ UNCHANGED <<stored, pins, names, keyKnown, proc, head, write, bootDoc, lastPub, warm,
                   stop, edits, starts, pinOk, failed, foreign>>

\* ensure_kubo_ipns_key of publish_runtime_root_cid.
PubKey ==
    /\ pub.pc = "key"
    /\ keyKnown' = TRUE
    /\ pub' = [pub EXCEPT !.pc = "runtime"]
    /\ UNCHANGED <<stored, pins, names, late, proc, head, write, bootDoc, lastPub, warm,
                   stop, auxVars>>

RecordEither(ipnsOk) ==  \* faulty variant: one successful publish is enough
    IF pub.didOk \/ ipnsOk
    THEN lastPub' = pub.cid /\ warm' = FALSE /\ failed' = FALSE
    ELSE failed' = TRUE /\ UNCHANGED <<lastPub, warm>>

\* last_published_cid and last_published_at move only when both publishes succeeded.
Record(ipnsOk) ==
    IF pub.didOk /\ ipnsOk
    THEN lastPub' = pub.cid /\ warm' = FALSE /\ failed' = FALSE
    ELSE failed' = TRUE /\ UNCHANGED <<lastPub, warm>>

\* publish_runtime_root_cid returned: the attempt is over.
PubRuntime ==
    /\ \/ /\ pub.pc = "runtime" /\ pub.landed
          /\ Record(TRUE)
          /\ UNCHANGED <<late, faults>>
       \/ /\ pub.pc \in {"key", "runtime"} /\ ~pub.landed
          /\ Fault("error")
          /\ Record(FALSE)
          /\ UNCHANGED late
       \/ /\ pub.pc \in {"key", "runtime"}
          /\ Fault("timeout")
          /\ late' = late \union PubOutstanding
          /\ Record(FALSE)
    /\ pub' = IdlePub
    /\ UNCHANGED <<stored, pins, names, keyKnown, proc, head, write, bootDoc, stop,
                   edits, starts, pinOk, foreign>>

\* Time passes; during an attempt it makes no difference.
WarmElapses ==
    /\ proc \in Running /\ pub.pc = "idle" /\ ~warm
    /\ warm' = TRUE
    /\ UNCHANGED <<kuboVars, proc, head, write, bootDoc, pub, lastPub, stop, auxVars>>

----
(* Requests nobody waits for *)

\* The background publish of main() takes effect, or its failure is logged.
BootDocSettles ==
    /\ bootDoc # NoCid
    /\ \/ /\ names' = [names EXCEPT !.did = bootDoc]
          /\ foreign' = TRUE
          /\ UNCHANGED <<late, faults>>
       \/ /\ Fault("error")
          /\ UNCHANGED <<names, late, foreign>>
       \/ /\ Fault("timeout")
          /\ late' = late \union BootOutstanding
          /\ UNCHANGED <<names, foreign>>
    /\ bootDoc' = NoCid
    /\ UNCHANGED <<stored, pins, keyKnown, proc, head, write, pub, lastPub, warm, stop,
                   edits, starts, pinOk, failed>>

\* Kubo gets to an abandoned request, or drops it.
LateSettles ==
    \E r \in late :
        /\ late' = late \ {r}
        /\ \/ /\ names' = IF r[1] = "did" THEN [names EXCEPT !.did = r[2]]
                                          ELSE [names EXCEPT !.runtime = r[2]]
              /\ stop' = IF r[1] = "runtime" THEN Overtaken ELSE stop
              /\ foreign' = TRUE
           \/ UNCHANGED <<names, stop, foreign>>
        /\ UNCHANGED <<stored, pins, keyKnown, proc, head, write, bootDoc, pub, lastPub, warm,
                       edits, faults, starts, pinOk, failed>>

----
Daemon ==
    \/ Boot
    \/ \E c \in Cids : WritePut(c)
    \/ WriteCommit \/ SaveFails
    \/ StopKey \/ StopAck \/ StopFails \/ Close
    \/ PubTick \/ PubDid \/ PubKey \/ PubRuntime

Kubo == PubLand \/ StopLand \/ BootDocSettles \/ LateSettles

Next == Start \/ Crash \/ Shutdown \/ WarmElapses \/ Daemon \/ Kubo

Spec == Init /\ [][Next]_vars

\* The periodic task ticks and tokio's timeouts make each of its awaits return;
\* time passes; Kubo answers. Nobody is obliged to edit, crash, start or stop.
Fairness ==
    /\ WF_vars(Boot)
    /\ WF_vars(WriteCommit)
    /\ WF_vars(\E c \in Cids : proc = "saving" /\ WritePut(c))
    /\ WF_vars(StopKey) /\ WF_vars(StopLand) /\ WF_vars(StopAck) /\ WF_vars(Close)
    /\ WF_vars(PubTick) /\ WF_vars(PubDid) /\ WF_vars(PubKey) /\ WF_vars(PubRuntime)
    /\ WF_vars(PubLand) /\ WF_vars(WarmElapses)
    /\ WF_vars(BootDocSettles) /\ WF_vars(LateSettles)

FairSpec == Spec /\ Fairness

----
(* Properties *)

\* The runtime's name only ever points to a manifest Kubo has, and manifests are
\* not taken back (with_manifest_crud stores before it commits, and the publishers
\* read only what was committed).
Durable == INSTANCE PublishedHead WITH name <- names.runtime

DurableName == Durable!Spec

\* As long as the last pin call of this process succeeded, the head is pinned,
\* also when the manifest it replaced had lost its pin in an earlier failure or
\* crash (the pin_add fallback of pin_update).
PinFollowsHead == proc \in Alive /\ pinOk => head \in pins

\* When the periodic task would skip its tick, both names lead to the head, unless
\* an attempt failed since the last recorded one or a request that was not the
\* task's own changed a name (last_published_cid is moved only by a full success).
SkipIsSound ==
    (/\ proc \in Running /\ pub.pc = "idle" /\ head # NoCid
     /\ lastPub = head /\ ~warm
     /\ ~failed /\ ~foreign)
    => names.runtime = head /\ names.did = head

\* A shutdown whose publish was acknowledged leaves the saved head under the
\* runtime's name, unless a publish already on its way landed after it.
CleanStop ==
    stop.pc = "acked" /\ ~stop.overtaken => names.runtime = head

\* Once edits, failures and restarts are over, both names settle on the head and
\* stay there, whatever abandoned publish or background document lands late: the
\* cache-warming publish repairs it.
Converges ==
    <>[](proc = "up" /\ head # NoCid => names.runtime = head /\ names.did = head)

\* README.md:240-241: step 10 of the startup sequence publishes a minimal manifest
\* when no root CID is found in IPNS. A start that finds no record does not give up.
BootWithoutRecord ==
    [][proc = "booting" /\ names.runtime = NoCid => proc' # "refused"]_vars

====
