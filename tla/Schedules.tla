---- MODULE Schedules ----
(***************************************************************************)
(* Scheduled dispatch. A plugin asks #scheduler for a job with ma_send,    *)
(* typically from init(); the envelope goes through the daemon's outbox    *)
(* and the RPC inbox to the native #scheduler, whose ACL gate it must      *)
(* pass; the request is parsed, answered with :ok, and registered by a     *)
(* task of its own. Jobs call their target entity when they are due.       *)
(*                                                                         *)
(* Time passes in ticks. A number of seconds is a u64 and a timestamp an   *)
(* i64, both of Width bits here, computed as a release build does. What a  *)
(* call does to its plugin is PluginState and Entities.                    *)
(***************************************************************************)
EXTENDS Integers, Sequences, SequencesExt

CONSTANTS
    Entities,    \* plugin entities of the manifest, #scheduler aside
    Asks,        \* schedule requests: [kind, number, duration, fragment]
    UnitSecs,    \* seconds of the units of a duration, 's', 'm', 'h' and 'd'
    Width,       \* bits of an integer
    MaxDefault,  \* max_secs of a request whose number is no u64
    Gaps,        \* times between two firings of a cron job
    MaxAsks,     \* bound: requests of one process
    MaxNow       \* bound: the clock stops here

Scheduler == "scheduler"    \* a reserved name

Kinds == {"at", "interval", "random", "cron", "badcron", "other"}

U64 == 0..(2^Width - 1)
I64 == -2^(Width - 1)..(2^(Width - 1) - 1)

\* parse_duration: the numbers of a duration, times their units, in u64.
Seconds(duration) ==
    FoldLeft(LAMBDA total, part : total + part[1] * UnitSecs[part[2]], 0, duration) % 2^Width

ASSUME SchedulesAssumption ==
    /\ 2^(Width - 1) \in Nat \ {0} /\ 2^Width = 2 * 2^(Width - 1)
    /\ Scheduler \notin Entities
    /\ MaxAsks \in Nat /\ MaxNow \in Nat \intersect I64 /\ MaxDefault \in U64 \ {0}
    /\ Gaps \subseteq U64 \ {0}
    /\ \A a \in Asks : a.kind \in Kinds /\ a.number \in Int /\ Seconds(a.duration) \in U64

VARIABLES
    mode,      \* "off", "loading" the entities, "wiring" the rest, "up": the main loop runs
    toload,    \* entities load_entities has still to load
    registry,  \* the entity registry
    gate,      \* "unread", or what the ACL cache makes of a local caller: "open", "shut"
    asked,     \* the requests
    stage,     \* how far each has come
    outbox,    \* envelopes no one has drained yet
    jobs,      \* the jobs in the JobScheduler, in slots
    fired,     \* how often the job of a request fired; for a recurring one 0, 1, 2, 1, 2...
    now        \* the system clock

vars == <<mode, toload, registry, gate, asked, stage, outbox, jobs, fired, now>>

Ids == 1..MaxAsks
Slots == Ids
Job == [of : 0..MaxAsks, phase : {"free", "waiting", "calling"}, left : U64]
NoJob == [of |-> 0, phase |-> "free", left |-> 0]
Waiting(i, n) == [of |-> i, phase |-> "waiting", left |-> n]
Calling(i) == [of |-> i, phase |-> "calling", left |-> 0]

NoAsk == [kind |-> "none", number |-> 0, duration |-> <<>>, fragment |-> Scheduler]

Stages == {"none", "outbox", "inbox", "spawned", "registered",
           "lost", "unheard", "refused", "failed", "done"}

----
(* Delays *)

\* A difference below i64::MIN wraps; above i64::MAX there is none, for now >= 0.
Signed(n) == IF n < -2^(Width - 1) THEN n + 2^Width ELSE n

Unclamped(t) ==  \* faulty variant: the distance, whichever way
    IF t < now THEN now - t ELSE t - now

\* A timestamp that has passed fires at once.
Delay(t) == IF Signed(t - now) > 0 THEN Signed(t - now) ELSE 0

\* u64::try_from(number).unwrap_or(default), and the range rand_delay draws from.
MaxSecs(n) == IF n \in U64 THEN n ELSE MaxDefault

RandDelays(n) == 1..(IF MaxSecs(n) > 1 THEN MaxSecs(n) ELSE 1)

ParsesEmpty(a) == a.kind # "other"  \* faulty variant: a duration of 0 seconds is taken

\* parse_schedule_request; the check for 0 comes after the sum has wrapped.
Parses(a) ==
    /\ a.kind # "other"
    /\ a.kind = "at" => a.number \in I64
    /\ a.kind = "interval" => Seconds(a.duration) # 0

\* How long the first firing of a job is away.
FirstDelays(a) ==
    CASE a.kind = "at"       -> {Delay(a.number)}
      [] a.kind = "interval" -> {Seconds(a.duration)}
      [] a.kind = "random"   -> RandDelays(a.number)
      [] a.kind = "cron"     -> Gaps
      [] OTHER               -> {}      \* Job::new_async refuses the spec

----
Init ==
    /\ mode = "off" /\ toload = {} /\ registry = {} /\ gate = "unread"
    /\ asked = [i \in Ids |-> NoAsk] /\ stage = [i \in Ids |-> "none"] /\ outbox = <<>>
    /\ jobs = [s \in Slots |-> NoJob]
    /\ fired = [i \in Ids |-> 0]
    /\ now = 0

\* A call of a plugin may have sent a request when it returns, or traps.
MaySend ==
    \/ UNCHANGED <<asked, stage, outbox>>
    \/ \E i \in Ids, a \in Asks :
          /\ stage[i] = "none" /\ \A j \in 1..(i - 1) : stage[j] # "none"
          /\ asked' = [asked EXCEPT ![i] = a]
          /\ stage' = [stage EXCEPT ![i] = "outbox"]
          /\ outbox' = Append(outbox, i)

----
(* The process *)

Start ==
    /\ mode = "off"
    /\ mode' = "loading"
    /\ toload' \in SUBSET Entities       \* the entities of the manifest
    /\ UNCHANGED <<registry, gate, asked, stage, outbox, jobs, fired, now>>

\* One entity of load_entities; if its load fails, what init() sent is still on its way.
Load(n) ==
    /\ mode = "loading" /\ n \in toload
    /\ toload' = toload \ {n}
    /\ registry' \in {registry, registry \union {n}}
    /\ MaySend
    /\ UNCHANGED <<mode, gate, jobs, fired, now>>

\* The JobScheduler starts, and #scheduler is registered.
RegisterNative ==
    /\ mode = "loading" /\ toload = {}
    /\ mode' = "wiring"
    /\ registry' = registry \union {Scheduler}
    /\ UNCHANGED <<toload, gate, asked, stage, outbox, jobs, fired, now>>

\* The manifest's ACLs go to the cache: "scheduler" is there and admits local callers, or not.
LoadAcls ==
    /\ mode = "wiring"
    /\ mode' = "up"
    /\ gate' \in {"open", "shut"}
    /\ UNCHANGED <<toload, registry, asked, stage, outbox, jobs, fired, now>>

\* The process ends. Jobs and requests are nowhere but in its memory.
Stop ==
    /\ mode # "off"
    /\ mode' = "off" /\ toload' = {} /\ registry' = {} /\ gate' = "unread"
    /\ asked' = [i \in Ids |-> NoAsk] /\ stage' = [i \in Ids |-> "none"] /\ outbox' = <<>>
    /\ jobs' = [s \in Slots |-> NoJob]
    /\ fired' = [i \in Ids |-> 0]
    /\ UNCHANGED now

----
(* CRUD and other RPC requests of the main loop *)

\* `:entities.<name>` with a path: the plugin is loaded anew, and its init() runs again.
Upsert(n) ==
    /\ mode = "up" /\ n \in Entities     \* reserved names are refused
    /\ registry' \in {registry, registry \union {n}}
    /\ MaySend
    /\ UNCHANGED <<mode, toload, gate, jobs, fired, now>>

\* No name is refused, and no job is removed.
Delete(n) ==
    /\ mode = "up" /\ n \in registry
    /\ registry' = registry \ {n}
    /\ UNCHANGED <<mode, toload, gate, asked, stage, outbox, jobs, fired, now>>

\* A call reaches plugin n: a client's, or a job's.
Run(n) ==
    /\ mode = "up" /\ n \in registry \ {Scheduler}
    /\ MaySend
    /\ UNCHANGED <<mode, toload, registry, gate, jobs, fired, now>>

\* `:acls.scheduler` is written or removed.
SetAcl ==
    /\ mode = "up"
    /\ gate' \in {"open", "shut"} \ {gate}
    /\ UNCHANGED <<mode, toload, registry, asked, stage, outbox, jobs, fired, now>>

----
(* The way of a request *)

To(i, s) == stage' = [stage EXCEPT ![i] = s]

DrainsAlways == mode # "off"  \* faulty variant: a task of its own drains

DrainsLoaded ==  \* faulty variant: no plugin in the registry, no mail
    mode = "up" /\ registry # {Scheduler}

Drains == mode = "up"

\* The main loop sends an envelope to the runtime's own endpoint, or drops it.
Drain ==
    /\ Drains /\ outbox # <<>>
    /\ \E s \in {"inbox", "lost"} : To(Head(outbox), s)
    /\ outbox' = Tail(outbox)
    /\ UNCHANGED <<mode, toload, registry, gate, asked, jobs, fired, now>>

\* handle_rpc_message for #scheduler.
Handle(i) ==
    /\ Drains /\ stage[i] = "inbox"
    /\ To(i, IF Scheduler \notin registry THEN "unheard"
             ELSE IF gate = "open" /\ Parses(asked[i]) THEN "spawned" ELSE "refused")
    /\ UNCHANGED <<mode, toload, registry, gate, asked, outbox, jobs, fired, now>>

\* sched.add: the job is in a slot of the JobScheduler.
Added(s, i, n) == jobs' = [jobs EXCEPT ![s] = Waiting(i, n)]

\* register_schedule, after the :ok: the requester does not learn how it ends.
Register(i) ==
    /\ stage[i] = "spawned"
    /\ \E s \in Slots :
          /\ jobs[s] = NoJob /\ \A t \in 1..(s - 1) : jobs[t] # NoJob
          /\ \/ \E n \in FirstDelays(asked[i]) : Added(s, i, n) /\ To(i, "registered")
             \/ To(i, "failed") /\ UNCHANGED jobs
    /\ UNCHANGED <<mode, toload, registry, gate, asked, outbox, fired, now>>

----
(* Jobs *)

Tick ==
    /\ mode # "off"
    /\ now' = IF now < MaxNow THEN now + 1 ELSE now
    /\ jobs' = [s \in Slots |-> IF jobs[s].left > 0
                                THEN [jobs[s] EXCEPT !.left = @ - 1] ELSE jobs[s]]
    /\ UNCHANGED <<mode, toload, registry, gate, asked, stage, outbox, fired>>

OnceMore(i) == fired' = [fired EXCEPT ![i] = IF @ = 2 THEN 1 ELSE @ + 1]

Due(s) == jobs[s].phase = "waiting" /\ jobs[s].left = 0

\* The job of an interval or a cron spec starts its call and is due again later.
FireRecurring(s) ==
    LET i == jobs[s].of IN
    /\ Due(s) /\ asked[i].kind \in {"interval", "cron"}
    /\ \E n \in FirstDelays(asked[i]) : Added(s, i, n)
    /\ OnceMore(i)
    /\ UNCHANGED <<mode, toload, registry, gate, asked, stage, outbox, now>>

RemoveOneShot(s) == jobs' = [jobs EXCEPT ![s] = NoJob]

FireAt(s) ==
    LET i == jobs[s].of IN
    /\ Due(s) /\ asked[i].kind = "at"
    /\ RemoveOneShot(s)
    /\ To(i, "done")
    /\ OnceMore(i)
    /\ UNCHANGED <<mode, toload, registry, gate, asked, outbox, now>>

FireRandom(s) ==
    LET i == jobs[s].of IN
    /\ Due(s) /\ asked[i].kind = "random"
    /\ jobs' = [jobs EXCEPT ![s] = Calling(i)]
    /\ OnceMore(i)
    /\ UNCHANGED <<mode, toload, registry, gate, asked, stage, outbox, now>>

ReAddedTwice(s, i, n) ==  \* faulty variant: the job re-adds itself, and so does its schedule
    jobs' = [t \in Slots |-> IF t = s \/ jobs[t] = NoJob THEN Waiting(i, n) ELSE jobs[t]]

ReAddedOnSuccess(s, i, n) ==  \* faulty variant: a call that fails ends the chain
    Added(s, i, n) \/ RemoveOneShot(s)

ReAdded(s, i, n) == Added(s, i, n)

\* The call of a random job is over, also when it failed or found no entity: the job adds
\* the next one, or the add fails and the chain ends.
Return(s) ==
    LET i == jobs[s].of IN
    /\ jobs[s].phase = "calling"
    /\ \/ \E n \in RandDelays(asked[i].number) : ReAdded(s, i, n) /\ UNCHANGED stage
       \/ RemoveOneShot(s) /\ To(i, "failed")
    /\ UNCHANGED <<mode, toload, registry, gate, asked, outbox, fired, now>>

Fire(s) == FireRecurring(s) \/ FireAt(s) \/ FireRandom(s)

----
Process == Start \/ (\E n \in Entities : Load(n)) \/ RegisterNative \/ LoadAcls \/ Stop

Requests == (\E n \in Entities : Upsert(n) \/ Run(n))
               \/ (\E n \in registry : Delete(n)) \/ SetAcl

Messages == Drain \/ \E i \in Ids : Handle(i) \/ Register(i)

Jobs == Tick \/ \E s \in Slots : Fire(s) \/ Return(s)

Next == Process \/ Requests \/ Messages \/ Jobs

Spec == Init /\ [][Next]_vars

\* A start goes on, time passes, the main loop gets to its mail, and tokio runs tasks and
\* due jobs. No client has to ask for anything, and the process may end at any time.
Fairness ==
    /\ \A n \in Entities : WF_vars(Load(n))
    /\ WF_vars(RegisterNative) /\ WF_vars(LoadAcls)
    /\ WF_vars(Tick) /\ WF_vars(Drain)
    /\ \A i \in Ids : WF_vars(Handle(i)) /\ WF_vars(Register(i))
    /\ \A s \in Slots : WF_vars(Fire(s)) /\ WF_vars(Return(s))

FairSpec == Spec /\ Fairness

----
(* Properties *)

TypeOK ==
    /\ mode \in {"off", "loading", "wiring", "up"}
    /\ toload \subseteq Entities /\ registry \subseteq Entities \union {Scheduler}
    /\ gate \in {"unread", "open", "shut"}
    /\ asked \in [Ids -> Asks \union {NoAsk}] /\ stage \in [Ids -> Stages]
    /\ outbox \in Seq(Ids)
    /\ jobs \in [Slots -> Job]
    /\ fired \in [Ids -> 0..2]
    /\ now \in 0..MaxNow

\* What plugins send from init() while the runtime starts is not turned away because
\* the start is not over: no request finds #scheduler missing unless someone removed
\* it, and none meets a cache that was not filled (main.rs: entities are loaded first,
\* then come #scheduler, the ACLs and the loop that drains the outbox).
InitIsHeard ==
    \A i \in Ids :
        /\ stage[i] = "unheard" => mode = "up" /\ Scheduler \notin registry
        /\ stage[i] = "refused" => gate # "unread"

\* A registration has a job as long as it lasts, and never two: a random job that adds
\* its successor is one chain that neither ends unnoticed nor forks, and a job belongs
\* to a request that was admitted and registered (make_random_job, register_schedule).
OneChain ==
    /\ \A s, t \in Slots : jobs[s] # NoJob /\ jobs[s].of = jobs[t].of => s = t
    /\ \A s \in Slots : jobs[s] # NoJob =>
          /\ jobs[s].of \in Ids
          /\ stage[jobs[s].of] = "registered"
    /\ \A i \in Ids : stage[i] = "registered" => \E s \in Slots : jobs[s].of = i

\* An `at` job fires when its time has come, never before, never again; the exception is
\* a negative timestamp, whose distance to now may wrap (ScheduleRequest::At).
AtOnTime ==
    \A i \in Ids : asked[i].kind = "at" =>
        /\ fired[i] <= 1
        /\ fired[i] = 1 => stage[i] = "done" /\ (now >= asked[i].number \/ now = MaxNow)
        /\ \A s \in Slots : jobs[s].of = i =>
              /\ fired[i] = 0
              /\ now < MaxNow /\ asked[i].number >= 0 =>
                    jobs[s].left = IF asked[i].number > now THEN asked[i].number - now ELSE 0

\* No job keeps the daemon busy: one that has fired, or one that does not name a time,
\* waits for a tick at least, also when its seconds have wrapped or its number is 0 or
\* negative (parse_duration, rand_delay).
Rests ==
    [][\A s \in Slots :
          jobs'[s] # jobs[s] /\ jobs'[s].phase = "waiting" /\ asked'[jobs'[s].of].kind # "at"
              => jobs'[s].left > 0 \/ jobs[s] = Waiting(jobs'[s].of, 1)]_vars

Settled(i) == stage[i] \notin {"outbox", "inbox", "spawned"}

\* Every request is registered, turned away or lost; none stays on the way.
EveryAskSettles == \A i \in Ids : []<>Settled(i)

Stuck(i, k) == stage[i] = "registered" /\ asked[i].fragment \in registry /\ fired[i] = k

\* While its entity is loaded, a registered job goes on firing until the process ends or an
\* add fails, and an `at` job fires in the end: neither a call that fails nor a reload in
\* the midst of one stops it (make_random_job, register_schedule). What becomes of the
\* job of an entity that is removed is left open here.
JobsKeepFiring == \A i \in Ids, k \in 0..2 : Stuck(i, k) ~> ~Stuck(i, k)

====
