---- MODULE Schedules_proofs ----
(***************************************************************************)
(* Types, and the safety properties of Schedules, for all entities,        *)
(* requests, widths and bounds. The invariant adds to the properties what  *)
(* the way of a request guarantees: an envelope in the outbox is there     *)
(* once, nothing gets past it before the main loop runs, what was spawned  *)
(* was parsed, and only a registered request has fired.                    *)
(***************************************************************************)
EXTENDS Schedules, SequenceTheorems, FiniteSetTheorems, TLAPS

H == 2^(Width - 1)

----
(* The invariant *)

StartUp ==
    /\ mode = "up" => gate # "unread"
    /\ mode # "up" => \A i \in Ids : stage[i] \in {"none", "outbox"}

Queue ==
    /\ \A k \in 1..Len(outbox) : stage[outbox[k]] = "outbox"
    /\ \A k, l \in 1..Len(outbox) : outbox[k] = outbox[l] => k = l

NoneForgotten ==
    \A i \in Ids : stage[i] = "outbox" => \E k \in 1..Len(outbox) : outbox[k] = i

Admitted ==
    \A i \in Ids :
        /\ stage[i] # "none" => asked[i] \in Asks
        /\ stage[i] \in {"spawned", "registered"} => Parses(asked[i])
        /\ fired[i] # 0 => stage[i] \in {"registered", "failed", "done"}
        /\ fired[i] # 0 /\ asked[i].kind = "at" => stage[i] = "done"

JobShape ==
    \A s \in Slots :
        /\ jobs[s].phase = "free" => jobs[s] = NoJob
        /\ jobs[s].phase = "calling" => jobs[s].left = 0 /\ asked[jobs[s].of].kind = "random"

Inv == TypeOK /\ StartUp /\ Queue /\ NoneForgotten /\ Admitted /\ JobShape /\ OneChain /\ InitIsHeard /\ AtOnTime

----
(* Delays *)

\* The numbers of the model are u64 numbers and there is room for 1 (Width).
LEMMA Numbers ==
    /\ H \in Nat \ {0} /\ 2^Width = 2 * H /\ U64 = 0..(2 * H - 1) /\ 1 \in U64
    /\ I64 = -H..(H - 1)
BY SchedulesAssumption DEF H, U64, I64

\* A timestamp that is an i64 gives a delay that is a u64, and the exact distance
\* unless it is negative (ScheduleRequest::At).
LEMMA DelayIsExact ==
    ASSUME now \in 0..MaxNow, NEW t \in I64
    PROVE  /\ Delay(t) \in U64
           /\ t >= 0 => Delay(t) = IF t > now THEN t - now ELSE 0
<1>1. MaxNow \in Nat /\ MaxNow < H
  BY SchedulesAssumption, Numbers
<1>2. H \in Nat \ {0} /\ t \in Int /\ -H <= t /\ t < H /\ now \in Nat /\ now < H
  BY <1>1, Numbers
<1>3. Signed(t - now) = IF t - now < -H THEN t - now + 2 * H ELSE t - now
  BY Numbers DEF Signed, H
<1> QED
  BY <1>2, <1>3, Numbers DEF Delay

\* A first firing is a u64 number of ticks away, one at least unless the request names
\* a time (parse_duration, rand_delay).
LEMMA FirstDelaysAreNumbers ==
    ASSUME now \in 0..MaxNow, NEW a \in Asks, Parses(a), NEW n \in FirstDelays(a)
    PROVE  n \in U64 /\ (a.kind # "at" => n > 0)
<1>1. CASE a.kind = "at"
  BY <1>1, DelayIsExact DEF FirstDelays, Parses
<1>2. CASE a.kind = "interval"
  <2>1. Seconds(a.duration) \in U64 /\ Seconds(a.duration) # 0 /\ n = Seconds(a.duration)
    BY <1>2, SchedulesAssumption DEF FirstDelays, Parses
  <2> QED BY <2>1, <1>2, Numbers
<1>3. CASE a.kind = "random"
  <2>1. MaxSecs(a.number) \in U64
    BY SchedulesAssumption DEF MaxSecs
  <2> QED BY <1>3, <2>1, Numbers DEF FirstDelays, RandDelays
<1>4. CASE a.kind = "cron"
  <2>1. n \in Gaps
    BY <1>4 DEF FirstDelays
  <2> QED BY <2>1, <1>4, SchedulesAssumption, Numbers
<1>5. CASE a.kind \notin {"at", "interval", "random", "cron"}
  BY <1>5 DEF FirstDelays
<1> QED BY <1>1, <1>2, <1>3, <1>4, <1>5

\* So is the next firing of a random job.
LEMMA RandDelaysAreNumbers ==
    ASSUME NEW a \in Asks, NEW n \in RandDelays(a.number)
    PROVE  n \in U64 /\ n > 0
<1>1. MaxSecs(a.number) \in U64
  BY SchedulesAssumption DEF MaxSecs
<1> QED BY <1>1, Numbers DEF RandDelays

----
(* Steps *)

Sends == MaySend /\ UNCHANGED <<jobs, fired, now>>

\* What a step can do to requests and jobs.
LEMMA Steps ==
    ASSUME Inv, [Next]_vars
    PROVE  \/ Sends \/ Stop \/ Drain \/ Tick
           \/ \E i \in Ids : Handle(i) \/ Register(i)
           \/ \E s \in Slots : FireRecurring(s) \/ FireAt(s) \/ FireRandom(s) \/ Return(s)
<1>1. CASE UNCHANGED vars
  BY <1>1 DEF vars, Sends, MaySend
<1>2. CASE Process
  BY <1>2 DEF Process, Start, Load, RegisterNative, LoadAcls, Sends, MaySend
<1>3. CASE Requests
  BY <1>3 DEF Requests, Upsert, Run, Delete, SetAcl, Sends, MaySend
<1>4. CASE Messages
  BY <1>4 DEF Messages
<1>5. CASE Jobs
  BY <1>5 DEF Jobs, Fire
<1> QED BY <1>1, <1>2, <1>3, <1>4, <1>5 DEF Next

----
(* Each part of the invariant is kept *)

LEMMA InitInv == Init => Inv
<1> SUFFICES ASSUME Init PROVE Inv
  OBVIOUS
<1>1. TypeOK
  <2>1. NoJob \in Job
    BY SchedulesAssumption, Numbers DEF Job, NoJob
  <2>2. outbox \in Seq(Ids) /\ now \in 0..MaxNow
    BY SchedulesAssumption, EmptySeq DEF Init
  <2> QED BY <2>1, <2>2 DEF Init, TypeOK, Stages
<1>2. Queue /\ NoneForgotten
  BY EmptySeq DEF Init, Queue, NoneForgotten
<1>3. StartUp /\ Admitted /\ JobShape /\ OneChain /\ InitIsHeard /\ AtOnTime
  BY DEF Init, StartUp, Admitted, JobShape, OneChain, InitIsHeard, AtOnTime, NoJob, NoAsk, Ids, Slots
<1> QED BY <1>1, <1>2, <1>3 DEF Inv

\* A waiting job is one of the records of TypeOK.
LEMMA WaitingIsJob ==
    ASSUME NEW i \in Ids, NEW n \in U64
    PROVE  Waiting(i, n) \in Job /\ Calling(i) \in Job /\ NoJob \in Job
BY SchedulesAssumption, Numbers DEF Job, Waiting, Calling, NoJob, Ids

\* What the request of a job is, whose job is in a slot that is not free.
LEMMA JobOf ==
    ASSUME Inv, NEW s \in Slots, jobs[s].phase # "free"
    PROVE  /\ jobs[s].of \in Ids /\ stage[jobs[s].of] = "registered"
           /\ asked[jobs[s].of] \in Asks /\ Parses(asked[jobs[s].of])
           /\ \A t \in Slots : jobs[t].of = jobs[s].of => t = s
<1>1. jobs[s] # NoJob
  BY DEF NoJob
<1> QED BY <1>1 DEF Inv, OneChain, Admitted

\* MaySend /\ Drain: the outbox stays a queue of requests.
LEMMA OutboxSteps ==
    ASSUME outbox \in Seq(Ids)
    PROVE  /\ \A i \in Ids : /\ Append(outbox, i) \in Seq(Ids)
                             /\ Len(Append(outbox, i)) = Len(outbox) + 1
                             /\ Append(outbox, i)[Len(outbox) + 1] = i
                             /\ \A k \in 1..Len(outbox) : Append(outbox, i)[k] = outbox[k]
           /\ Len(outbox) \in Nat /\ \A k \in 1..Len(outbox) : outbox[k] \in Ids
           /\ outbox # <<>> => /\ Head(outbox) \in Ids /\ Head(outbox) = outbox[1]
                               /\ Tail(outbox) \in Seq(Ids)
                               /\ Len(outbox) >= 1 /\ Len(Tail(outbox)) = Len(outbox) - 1
                               /\ \A k \in 1..(Len(outbox) - 1) : Tail(outbox)[k] = outbox[k + 1]
<1>1. \A i \in Ids : /\ Append(outbox, i) \in Seq(Ids)
                     /\ Len(Append(outbox, i)) = Len(outbox) + 1
                     /\ Append(outbox, i)[Len(outbox) + 1] = i
                     /\ \A k \in 1..Len(outbox) : Append(outbox, i)[k] = outbox[k]
  BY AppendProperties
<1>2. Len(outbox) \in Nat /\ \A k \in 1..Len(outbox) : outbox[k] \in Ids
  BY LenProperties, ElementOfSeq
<1>3. ASSUME outbox # <<>>
      PROVE  /\ Head(outbox) \in Ids /\ Head(outbox) = outbox[1]
             /\ Tail(outbox) \in Seq(Ids)
             /\ Len(outbox) >= 1 /\ Len(Tail(outbox)) = Len(outbox) - 1
             /\ \A k \in 1..(Len(outbox) - 1) : Tail(outbox)[k] = outbox[k + 1]
  BY <1>3, <1>2, HeadTailProperties, EmptySeq
<1> QED BY <1>1, <1>2, <1>3

LEMMA TypeInv == Inv /\ [Next]_vars => TypeOK'
<1> SUFFICES ASSUME Inv, [Next]_vars PROVE TypeOK'
  OBVIOUS
<1> USE DEF Inv, TypeOK
<1>1. mode' \in {"off", "loading", "wiring", "up"}
  BY DEF Next, vars, Process, Start, Load, RegisterNative, LoadAcls, Stop, Requests, Upsert,
         Run, Delete, SetAcl, Messages, Drain, Handle, Register, Jobs, Tick, Fire,
         FireRecurring, FireAt, FireRandom, Return
<1>2. toload' \subseteq Entities
  BY DEF Next, vars, Process, Start, Load, RegisterNative, LoadAcls, Stop, Requests, Upsert,
         Run, Delete, SetAcl, Messages, Drain, Handle, Register, Jobs, Tick, Fire,
         FireRecurring, FireAt, FireRandom, Return
<1>3. registry' \subseteq Entities \union {Scheduler}
  BY DEF Next, vars, Process, Start, Load, RegisterNative, LoadAcls, Stop, Requests, Upsert,
         Run, Delete, SetAcl, Messages, Drain, Handle, Register, Jobs, Tick, Fire,
         FireRecurring, FireAt, FireRandom, Return
<1>4. gate' \in {"unread", "open", "shut"}
  BY DEF Next, vars, Process, Start, Load, RegisterNative, LoadAcls, Stop, Requests, Upsert,
         Run, Delete, SetAcl, Messages, Drain, Handle, Register, Jobs, Tick, Fire,
         FireRecurring, FireAt, FireRandom, Return
<1>5. /\ asked' \in [Ids -> Asks \union {NoAsk}] /\ stage' \in [Ids -> Stages]
      /\ outbox' \in Seq(Ids)
  <2>1. CASE Sends
    <3>1. CASE UNCHANGED <<asked, stage, outbox>>
      BY <3>1
    <3>2. ASSUME NEW i \in Ids, NEW a \in Asks,
                 asked' = [asked EXCEPT ![i] = a], stage' = [stage EXCEPT ![i] = "outbox"],
                 outbox' = Append(outbox, i)
          PROVE  /\ asked' \in [Ids -> Asks \union {NoAsk}] /\ stage' \in [Ids -> Stages]
                 /\ outbox' \in Seq(Ids)
      BY <3>2, OutboxSteps DEF Stages
    <3> QED BY <2>1, <3>1, <3>2 DEF Sends, MaySend
  <2>2. CASE Stop
    BY <2>2, EmptySeq DEF Stop, Stages
  <2>3. CASE Drain
    BY <2>3, OutboxSteps DEF Drain, To, Stages
  <2>4. ASSUME NEW i \in Ids, Handle(i) \/ Register(i)
        PROVE  asked' = asked /\ outbox' = outbox /\ stage' \in [Ids -> Stages]
    BY <2>4 DEF Handle, Register, To, Stages
  <2>5. CASE Tick
    BY <2>5 DEF Tick
  <2>6. ASSUME NEW s \in Slots, FireRecurring(s) \/ FireAt(s) \/ FireRandom(s) \/ Return(s)
        PROVE  asked' = asked /\ outbox' = outbox /\ stage' \in [Ids -> Stages]
    BY <2>6 DEF FireRecurring, FireAt, FireRandom, Return, To, Stages
  <2> QED BY <2>1, <2>2, <2>3, <2>4, <2>5, <2>6, Steps
<1>6. fired' \in [Ids -> 0..2] /\ now' \in 0..MaxNow
  BY Steps, SchedulesAssumption
     DEF Sends, Stop, Drain, Handle, Register, Tick, FireRecurring, FireAt, FireRandom, Return, OnceMore
<1>7. jobs' \in [Slots -> Job]
  <2>1. CASE Sends \/ Drain \/ \E i \in Ids : Handle(i)
    BY <2>1 DEF Sends, Drain, Handle
  <2>2. CASE Stop
    BY <2>2, SchedulesAssumption, Numbers DEF Stop, Job, NoJob
  <2>3. ASSUME NEW i \in Ids, Register(i)
        PROVE  jobs' \in [Slots -> Job]
    <3>1. asked[i] \in Asks /\ Parses(asked[i])
      BY <2>3 DEF Register, Admitted
    <3>2. \A n \in FirstDelays(asked[i]) : n \in U64
      BY <3>1, FirstDelaysAreNumbers
    <3>3. \/ jobs' = jobs
          \/ \E s \in Slots, n \in U64 : jobs' = [jobs EXCEPT ![s] = Waiting(i, n)]
      BY <2>3, <3>2 DEF Register, Added
    <3>4. \A n \in U64 : Waiting(i, n) \in Job
      BY <2>3, WaitingIsJob
    <3> QED BY <3>3, <3>4
  <2>4. CASE Tick
    <3> SUFFICES ASSUME NEW s \in Slots
                 PROVE  jobs'[s] \in Job
      BY <2>4 DEF Tick
    <3>1. jobs[s].left > 0 => jobs[s].left - 1 \in U64
      BY Numbers DEF Job
    <3> QED BY <2>4, <3>1 DEF Tick, Job
  <2>5. ASSUME NEW s \in Slots, FireRecurring(s) \/ FireAt(s) \/ FireRandom(s) \/ Return(s)
        PROVE  jobs' \in [Slots -> Job]
    <3> DEFINE i == jobs[s].of
    <3>1. jobs[s].phase # "free"
      BY <2>5 DEF FireRecurring, FireAt, FireRandom, Return, Due
    <3>2. i \in Ids /\ asked[i] \in Asks /\ Parses(asked[i])
      BY <3>1, JobOf
    <3> HIDE DEF i
    <3>3. \A n \in FirstDelays(asked[i]) : n \in U64
      BY <3>2, FirstDelaysAreNumbers
    <3>4. \A n \in RandDelays(asked[i].number) : n \in U64
      BY <3>2, RandDelaysAreNumbers
    <3>5. Calling(i) \in Job /\ NoJob \in Job /\ \A n \in U64 : Waiting(i, n) \in Job
      BY <3>2, WaitingIsJob, Numbers
    <3>6. \E j \in Job : jobs' = [jobs EXCEPT ![s] = j]
      <4>1. CASE FireRecurring(s)
        BY <4>1, <3>3, <3>5 DEF i, FireRecurring, Added
      <4>2. CASE FireAt(s)
        BY <4>2, <3>5 DEF FireAt, RemoveOneShot
      <4>3. CASE FireRandom(s)
        BY <4>3, <3>5 DEF i, FireRandom
      <4>4. CASE Return(s)
        BY <4>4, <3>4, <3>5 DEF i, Return, Added, ReAdded, RemoveOneShot
      <4> QED BY <2>5, <4>1, <4>2, <4>3, <4>4
    <3> QED BY <3>6
  <2> QED BY <2>1, <2>2, <2>3, <2>4, <2>5, Steps
<1> QED BY <1>1, <1>2, <1>3, <1>4, <1>5, <1>6, <1>7

LEMMA StartUpInv == Inv /\ [Next]_vars => StartUp' /\ InitIsHeard'
<1> SUFFICES ASSUME Inv, [Next]_vars PROVE StartUp' /\ InitIsHeard'
  OBVIOUS
<1> USE DEF Inv, StartUp, InitIsHeard
<1>1. CASE UNCHANGED vars
  BY <1>1 DEF vars
<1>2. CASE Start \/ RegisterNative \/ LoadAcls
  BY <1>2 DEF Start, RegisterNative, LoadAcls
<1>3. CASE \E n \in Entities : Load(n)
  BY <1>3 DEF Load, MaySend, TypeOK
<1>4. CASE Stop
  BY <1>4 DEF Stop
<1>5. CASE \E n \in Entities : Upsert(n) \/ Run(n)
  BY <1>5, SchedulesAssumption DEF Upsert, Run, MaySend, TypeOK
<1>6. CASE (\E n \in registry : Delete(n)) \/ SetAcl
  BY <1>6 DEF Delete, SetAcl
<1>7. CASE Drain
  BY <1>7, OutboxSteps DEF Drain, Drains, To, TypeOK
<1>8. ASSUME NEW i \in Ids, Handle(i)
      PROVE  StartUp' /\ InitIsHeard'
  BY <1>8 DEF Handle, Drains, To, TypeOK
<1>9. ASSUME NEW i \in Ids, Register(i)
      PROVE  StartUp' /\ InitIsHeard'
  BY <1>9 DEF Register, To, TypeOK
<1>10. CASE Tick
  BY <1>10 DEF Tick
<1>11. ASSUME NEW s \in Slots, Fire(s) \/ Return(s)
       PROVE  StartUp' /\ InitIsHeard'
  <2>1. jobs[s].phase # "free"
    BY <1>11 DEF Fire, FireRecurring, FireAt, FireRandom, Return, Due
  <2>2. jobs[s].of \in Ids /\ stage[jobs[s].of] = "registered"
    BY <2>1, JobOf
  <2> QED BY <1>11, <2>2 DEF Fire, FireRecurring, FireAt, FireRandom, Return, To, TypeOK
<1> QED BY <1>1, <1>2, <1>3, <1>4, <1>5, <1>6, <1>7, <1>8, <1>9, <1>10, <1>11
        DEF Next, Process, Requests, Messages, Jobs

LEMMA QueueInv == Inv /\ [Next]_vars => Queue'
<1> SUFFICES ASSUME Inv, [Next]_vars PROVE Queue'
  OBVIOUS
<1> USE DEF Inv, TypeOK, Queue
<1>1. CASE Sends
  <2>1. CASE UNCHANGED <<asked, stage, outbox>>
    BY <2>1
  <2>2. ASSUME NEW i \in Ids, stage[i] = "none",
               stage' = [stage EXCEPT ![i] = "outbox"], outbox' = Append(outbox, i)
        PROVE  Queue'
    BY <2>2, OutboxSteps
  <2> QED BY <1>1, <2>1, <2>2 DEF Sends, MaySend
<1>2. CASE Stop
  BY <1>2, EmptySeq DEF Stop
<1>3. CASE Drain
  <2>1. \A k \in 1..(Len(outbox) - 1) : k + 1 \in 1..Len(outbox) /\ k + 1 # 1
    BY OutboxSteps
  <2>2. outbox # <<>> /\ 1 \in 1..Len(outbox) /\ outbox' = Tail(outbox)
    BY <1>3, OutboxSteps DEF Drain
  <2>3. \E s \in {"inbox", "lost"} : stage' = [stage EXCEPT ![outbox[1]] = s]
    BY <1>3, OutboxSteps DEF Drain, To
  <2>4. \A k \in 1..(Len(outbox) - 1) : outbox'[k] = outbox[k + 1]
    BY <2>2, OutboxSteps
  <2>5. Len(outbox') = Len(outbox) - 1
    BY <2>2, OutboxSteps
  <2>6. \A k \in 1..Len(outbox') : stage'[outbox'[k]] = "outbox"
    BY <2>1, <2>2, <2>3, <2>4, <2>5, OutboxSteps
  <2>7. \A k, l \in 1..Len(outbox') : outbox'[k] = outbox'[l] => k = l
    BY <2>1, <2>4, <2>5, OutboxSteps
  <2> QED BY <2>6, <2>7
<1>4. ASSUME NEW i \in Ids, Handle(i) \/ Register(i)
      PROVE  Queue'
  BY <1>4, OutboxSteps DEF Handle, Register, To
<1>5. CASE Tick
  BY <1>5 DEF Tick
<1>6. ASSUME NEW s \in Slots, FireRecurring(s) \/ FireAt(s) \/ FireRandom(s) \/ Return(s)
      PROVE  Queue'
  <2>1. jobs[s].phase # "free"
    BY <1>6 DEF FireRecurring, FireAt, FireRandom, Return, Due
  <2>2. jobs[s].of \in Ids /\ stage[jobs[s].of] = "registered"
    BY <2>1, JobOf
  <2> QED BY <1>6, <2>2, OutboxSteps DEF FireRecurring, FireAt, FireRandom, Return, To
<1> QED BY <1>1, <1>2, <1>3, <1>4, <1>5, <1>6, Steps

LEMMA ForgottenInv == Inv /\ [Next]_vars => NoneForgotten'
<1> SUFFICES ASSUME Inv, [Next]_vars, NEW i \in Ids, stage'[i] = "outbox"
             PROVE  \E k \in 1..Len(outbox') : outbox'[k] = i
  BY DEF NoneForgotten
<1> USE DEF Inv, TypeOK
<1>0. stage[i] = "outbox" => \E k \in 1..Len(outbox) : outbox[k] = i
  BY DEF NoneForgotten
<1>1. CASE Sends
  <2>1. CASE UNCHANGED <<asked, stage, outbox>>
    BY <1>0, <2>1
  <2>2. ASSUME NEW j \in Ids, stage' = [stage EXCEPT ![j] = "outbox"], outbox' = Append(outbox, j)
        PROVE  \E k \in 1..Len(outbox') : outbox'[k] = i
    <3>1. CASE i = j
      <4>1. Len(outbox) + 1 \in 1..Len(outbox') /\ outbox'[Len(outbox) + 1] = i
        BY <2>2, <3>1, OutboxSteps
      <4> QED BY <4>1
    <3>2. CASE i # j
      <4>1. PICK k \in 1..Len(outbox) : outbox[k] = i
        BY <1>0, <2>2, <3>2
      <4>2. k \in 1..Len(outbox') /\ outbox'[k] = i
        BY <2>2, <4>1, OutboxSteps
      <4> QED BY <4>2
    <3> QED BY <3>1, <3>2
  <2> QED BY <1>1, <2>1, <2>2 DEF Sends, MaySend
<1>2. CASE Stop
  BY <1>2 DEF Stop
<1>3. CASE Drain
  <2>1. outbox # <<>> /\ outbox' = Tail(outbox) /\ Head(outbox) = outbox[1]
    BY <1>3, OutboxSteps DEF Drain
  <2>2. stage[i] = "outbox" /\ i # outbox[1]
    BY <1>3, <2>1, OutboxSteps DEF Drain, To
  <2>3. PICK k \in 1..Len(outbox) : outbox[k] = i
    BY <1>0, <2>2
  <2>4. k - 1 \in 1..(Len(outbox) - 1) /\ k = (k - 1) + 1
    BY <2>2, <2>3, OutboxSteps
  <2>5. k - 1 \in 1..Len(outbox') /\ outbox'[k - 1] = i
    BY <2>1, <2>3, <2>4, OutboxSteps
  <2> QED BY <2>5
<1>4. ASSUME NEW j \in Ids, Handle(j) \/ Register(j)
      PROVE  stage[i] = "outbox" /\ outbox' = outbox
  BY <1>4 DEF Handle, Register, To
<1>5. CASE Tick
  BY <1>0, <1>5 DEF Tick
<1>6. ASSUME NEW s \in Slots, FireRecurring(s) \/ FireAt(s) \/ FireRandom(s) \/ Return(s)
      PROVE  stage[i] = "outbox" /\ outbox' = outbox
  BY <1>6 DEF FireRecurring, FireAt, FireRandom, Return, To
<1> QED BY <1>0, <1>1, <1>2, <1>3, <1>4, <1>5, <1>6, Steps

LEMMA AdmittedInv == Inv /\ [Next]_vars => Admitted'
<1> SUFFICES ASSUME Inv, [Next]_vars PROVE Admitted'
  OBVIOUS
<1> USE DEF Inv, TypeOK, Admitted
<1>1. CASE Sends
  BY <1>1 DEF Sends, MaySend
<1>2. CASE Stop
  BY <1>2 DEF Stop, NoAsk
<1>3. CASE Drain
  <2>1. Head(outbox) \in Ids /\ stage[Head(outbox)] = "outbox"
    BY <1>3, OutboxSteps DEF Drain, Queue
  <2> QED BY <1>3, <2>1 DEF Drain, To
<1>4. ASSUME NEW i \in Ids, Handle(i) \/ Register(i)
      PROVE  Admitted'
  BY <1>4 DEF Handle, Register, To
<1>5. CASE Tick
  BY <1>5 DEF Tick
<1>6. ASSUME NEW s \in Slots, FireRecurring(s) \/ FireAt(s) \/ FireRandom(s) \/ Return(s)
      PROVE  Admitted'
  <2> DEFINE i == jobs[s].of
  <2>1. jobs[s].phase # "free"
    BY <1>6 DEF FireRecurring, FireAt, FireRandom, Return, Due
  <2>2. i \in Ids /\ stage[i] = "registered"
    BY <2>1, JobOf
  <2>3. CASE FireRecurring(s) \/ FireRandom(s)
    BY <2>2, <2>3 DEF FireRecurring, FireRandom, OnceMore
  <2>4. CASE FireAt(s)
    BY <2>2, <2>4 DEF FireAt, OnceMore, To
  <2>5. CASE Return(s)
    <3>1. asked[i].kind = "random"
      BY <2>5 DEF Return, JobShape
    <3> QED BY <2>2, <2>5, <3>1 DEF Return, To
  <2> QED BY <1>6, <2>3, <2>4, <2>5
<1> QED BY <1>1, <1>2, <1>3, <1>4, <1>5, <1>6, Steps

\* What a step does to a slot: it keeps its job, lets it wait on, empties it, or puts
\* in a job of its own request or, if it was free, of one just registered.
LEMMA SlotSteps ==
    ASSUME Inv, [Next]_vars, NEW t \in Slots
    PROVE  \/ jobs'[t] = jobs[t]
           \/ jobs'[t] = NoJob
           \/ jobs[t].left > 0 /\ Tick /\ jobs'[t] = [jobs[t] EXCEPT !.left = @ - 1]
           \/ \E i \in Ids, n \in U64 :
                 /\ Register(i) /\ stage[i] = "spawned" /\ stage' = [stage EXCEPT ![i] = "registered"]
                 /\ n \in FirstDelays(asked[i]) /\ jobs[t] = NoJob
                 /\ jobs' = [jobs EXCEPT ![t] = Waiting(i, n)]
           \/ \E n \in U64 :
                 /\ jobs[t].phase # "free" /\ asked[jobs[t].of].kind # "at"
                 /\ FireRecurring(t) \/ Return(t)
                 /\ n > 0 /\ jobs'[t] = Waiting(jobs[t].of, n)
           \/ /\ jobs[t].phase # "free" /\ asked[jobs[t].of].kind = "random"
              /\ FireRandom(t) /\ jobs'[t] = Calling(jobs[t].of)
<1> USE DEF Inv, TypeOK
<1>1. CASE Sends \/ Drain \/ \E i \in Ids : Handle(i)
  BY <1>1 DEF Sends, Drain, Handle
<1>2. CASE Stop
  BY <1>2 DEF Stop
<1>3. ASSUME NEW i \in Ids, Register(i)
      PROVE  \/ jobs'[t] = jobs[t]
             \/ \E n \in U64 :
                   /\ stage[i] = "spawned" /\ stage' = [stage EXCEPT ![i] = "registered"]
                   /\ n \in FirstDelays(asked[i]) /\ jobs[t] = NoJob
                   /\ jobs' = [jobs EXCEPT ![t] = Waiting(i, n)]
  <2>1. asked[i] \in Asks /\ Parses(asked[i]) /\ stage[i] = "spawned"
    BY <1>3 DEF Register, Admitted
  <2>2. \A n \in FirstDelays(asked[i]) : n \in U64
    BY <2>1, FirstDelaysAreNumbers
  <2>3. PICK s \in Slots :
           /\ jobs[s] = NoJob
           /\ \/ \E n \in FirstDelays(asked[i]) : Added(s, i, n) /\ To(i, "registered")
              \/ UNCHANGED jobs
    BY <1>3 DEF Register
  <2> QED BY <2>1, <2>2, <2>3 DEF Added, To
<1>4. CASE Tick
  BY <1>4 DEF Tick
<1>5. ASSUME NEW s \in Slots, FireRecurring(s) \/ FireAt(s) \/ FireRandom(s) \/ Return(s)
      PROVE  \/ jobs'[t] = jobs[t] \/ jobs'[t] = NoJob
             \/ \E n \in U64 :
                   /\ jobs[t].phase # "free" /\ asked[jobs[t].of].kind # "at"
                   /\ FireRecurring(t) \/ Return(t)
                   /\ n > 0 /\ jobs'[t] = Waiting(jobs[t].of, n)
             \/ /\ jobs[t].phase # "free" /\ asked[jobs[t].of].kind = "random"
                /\ FireRandom(t) /\ jobs'[t] = Calling(jobs[t].of)
  <2>1. jobs[s].phase # "free"
    BY <1>5 DEF FireRecurring, FireAt, FireRandom, Return, Due
  <2>2. jobs[s].of \in Ids /\ asked[jobs[s].of] \in Asks /\ Parses(asked[jobs[s].of])
    BY <2>1, JobOf
  <2>3. CASE FireRecurring(s)
    <3>1. \A n \in FirstDelays(asked[jobs[s].of]) : n \in U64 /\ n > 0
      BY <2>2, <2>3, FirstDelaysAreNumbers DEF FireRecurring
    <3>2. PICK n \in FirstDelays(asked[jobs[s].of]) : Added(s, jobs[s].of, n)
      BY <2>3 DEF FireRecurring
    <3>3. n \in U64 /\ n > 0 /\ asked[jobs[s].of].kind # "at"
      BY <2>3, <3>1 DEF FireRecurring
    <3> QED BY <2>1, <2>3, <3>2, <3>3 DEF Added
  <2>4. CASE FireAt(s)
    BY <2>4 DEF FireAt, RemoveOneShot
  <2>5. CASE FireRandom(s)
    BY <2>1, <2>5 DEF FireRandom
  <2>6. CASE Return(s)
    <3>1. \A n \in RandDelays(asked[jobs[s].of].number) : n \in U64 /\ n > 0
      BY <2>2, RandDelaysAreNumbers
    <3>2. asked[jobs[s].of].kind = "random"
      BY <2>6 DEF Return, JobShape
    <3> QED BY <2>1, <2>6, <3>1, <3>2 DEF Return, Added, ReAdded, RemoveOneShot
  <2> QED BY <1>5, <2>3, <2>4, <2>5, <2>6
<1>6. CASE \E i \in Ids : Register(i)
  BY <1>3, <1>6
<1>7. CASE \E s \in Slots : FireRecurring(s) \/ FireAt(s) \/ FireRandom(s) \/ Return(s)
  BY <1>5, <1>7
<1> QED BY <1>1, <1>2, <1>4, <1>6, <1>7, Steps

\* A step that keeps a job keeps what was asked.
LEMMA AskedKept ==
    ASSUME Inv, [Next]_vars, NEW i \in Ids, stage[i] # "none"
    PROVE  asked'[i] = asked[i] \/ (Stop /\ \A t \in Slots : jobs'[t] = NoJob)
<1> USE DEF Inv, TypeOK
<1>1. CASE Sends
  BY <1>1 DEF Sends, MaySend
<1>2. CASE Stop
  BY <1>2 DEF Stop
<1>3. CASE ~Sends /\ ~Stop
  BY <1>3, Steps DEF Drain, Handle, Register, Tick, FireRecurring, FireAt, FireRandom, Return
<1> QED BY <1>1, <1>2, <1>3

LEMMA JobShapeInv == Inv /\ [Next]_vars => JobShape'
<1> SUFFICES ASSUME Inv, [Next]_vars, NEW t \in Slots
             PROVE  /\ jobs'[t].phase = "free" => jobs'[t] = NoJob
                    /\ jobs'[t].phase = "calling"
                          => jobs'[t].left = 0 /\ asked'[jobs'[t].of].kind = "random"
  BY DEF JobShape
<1> USE DEF Inv, TypeOK, JobShape, NoJob, Waiting, Calling
<1>1. jobs[t].phase # "free" => jobs[t].of \in Ids /\ stage[jobs[t].of] # "none"
  BY JobOf
<1>2. CASE jobs'[t] = jobs[t]
  BY <1>1, <1>2, AskedKept
<1>3. CASE jobs'[t] = NoJob
  BY <1>3
<1>6. CASE \E i \in Ids, n \in U64 : jobs' = [jobs EXCEPT ![t] = Waiting(i, n)]
  BY <1>6
<1>7. CASE \E n \in U64 : jobs'[t] = Waiting(jobs[t].of, n)
  BY <1>7
<1>4. CASE jobs[t].left > 0 /\ Tick /\ jobs'[t] = [jobs[t] EXCEPT !.left = @ - 1]
  BY <1>4 DEF Job
<1>5. CASE FireRandom(t) /\ jobs'[t] = Calling(jobs[t].of) /\ asked[jobs[t].of].kind = "random"
  BY <1>5 DEF FireRandom
<1> HIDE DEF Inv, TypeOK, JobShape, NoJob, Waiting, Calling
<1> QED BY <1>2, <1>3, <1>4, <1>5, <1>6, <1>7, SlotSteps

\* A job that fires or returns gives way to one of its own request, or ends it.
LEMMA SlotShapes ==
    ASSUME Inv, NEW s \in Slots, FireRecurring(s) \/ FireAt(s) \/ FireRandom(s) \/ Return(s)
    PROVE  \/ /\ stage' = stage
              /\ \E x \in Job : jobs' = [jobs EXCEPT ![s] = x] /\ x.of = jobs[s].of
           \/ \E x \in {"done", "failed"} : RemoveOneShot(s) /\ To(jobs[s].of, x)
<1>1. /\ jobs[s].of \in Ids /\ asked[jobs[s].of] \in Asks /\ Parses(asked[jobs[s].of])
  BY JobOf DEF FireRecurring, FireAt, FireRandom, Return, Due
<1>2. \A n \in U64 : Waiting(jobs[s].of, n) \in Job /\ Calling(jobs[s].of) \in Job
  BY <1>1, WaitingIsJob
<1>3. CASE FireRecurring(s)
  <2>1. \A n \in FirstDelays(asked[jobs[s].of]) : n \in U64
    BY <1>1, FirstDelaysAreNumbers DEF Inv, TypeOK
  <2> QED BY <1>2, <1>3, <2>1 DEF FireRecurring, Added, Waiting
<1>4. CASE FireAt(s)
  BY <1>4 DEF FireAt
<1>5. CASE FireRandom(s)
  BY <1>2, <1>5, Numbers DEF FireRandom, Calling
<1>6. CASE Return(s)
  <2>1. \A n \in RandDelays(asked[jobs[s].of].number) : n \in U64
    BY <1>1, <1>6, RandDelaysAreNumbers DEF Inv, Admitted
  <2> QED BY <1>2, <1>6, <2>1 DEF Return, Added, ReAdded, Waiting
<1> QED BY <1>3, <1>4, <1>5, <1>6

LEMMA OneChainInv == Inv /\ [Next]_vars => OneChain'
<1> SUFFICES ASSUME Inv, [Next]_vars PROVE OneChain'
  OBVIOUS
<1> DEFINE Busy(t) == jobs'[t] # NoJob
           Same(t) == jobs[t] # NoJob /\ jobs'[t].of = jobs[t].of
           New(t, i) == jobs[t] = NoJob /\ i \in Ids /\ stage[i] = "spawned" /\ jobs'[t].of = i
                           /\ stage' = [stage EXCEPT ![i] = "registered"]
                           /\ \A u \in Slots \ {t} : jobs'[u] = jobs[u]
\* A busy slot keeps its request, or it was empty and its request is newly registered.
<1>1. \A t \in Slots : Busy(t) => Same(t) \/ \E i \in Ids : New(t, i)
  <2> SUFFICES ASSUME NEW t \in Slots, jobs'[t] # NoJob
               PROVE  Same(t) \/ \E i \in Ids : New(t, i)
    OBVIOUS
  <2>1. CASE jobs'[t] = jobs[t]
    BY <2>1
  <2>2. CASE jobs[t].left > 0 /\ jobs'[t] = [jobs[t] EXCEPT !.left = @ - 1]
    <3>1. jobs[t] # NoJob /\ jobs[t] \in Job
      BY <2>2 DEF NoJob, Inv, TypeOK
    <3> QED BY <2>2, <3>1 DEF Job
  <2>3. ASSUME NEW i \in Ids, NEW n \in U64, stage[i] = "spawned",
               stage' = [stage EXCEPT ![i] = "registered"], jobs[t] = NoJob,
               jobs' = [jobs EXCEPT ![t] = Waiting(i, n)]
        PROVE  New(t, i)
    BY <2>3 DEF Inv, TypeOK, Waiting
  <2>4. CASE jobs[t].phase # "free" /\ \E n \in U64 : jobs'[t] = Waiting(jobs[t].of, n)
    BY <2>4 DEF Waiting, NoJob
  <2>5. CASE jobs[t].phase # "free" /\ jobs'[t] = Calling(jobs[t].of)
    BY <2>5 DEF Calling, NoJob
  <2> HIDE DEF Same, New
  <2> QED BY <2>1, <2>2, <2>3, <2>4, <2>5, SlotSteps
<1>2. \A s, t \in Slots : Busy(s) /\ jobs'[s].of = jobs'[t].of => s = t
  <2> SUFFICES ASSUME NEW s \in Slots, NEW t \in Slots, Busy(s), jobs'[s].of = jobs'[t].of, s # t
               PROVE  FALSE
    OBVIOUS
  <2>1. Busy(t)
    <3>1. jobs'[s].of \in Ids
      BY <1>1 DEF Inv, OneChain
    <3> QED BY <3>1, SchedulesAssumption DEF NoJob, Ids
  <2>2. CASE Same(s) /\ Same(t)
    BY <2>2 DEF Inv, OneChain
  <2>3. ASSUME NEW i \in Ids, New(s, i)
        PROVE  FALSE
    <3>1. jobs[t] # NoJob /\ jobs[t].of = i
      BY <2>1, <2>3
    <3> QED BY <2>3, <3>1 DEF Inv, OneChain
  <2>4. ASSUME NEW i \in Ids, New(t, i)
        PROVE  FALSE
    <3>1. jobs[s] # NoJob /\ jobs[s].of = i
      BY <2>4
    <3> QED BY <2>4, <3>1 DEF Inv, OneChain
  <2> QED BY <1>1, <2>1, <2>2, <2>3, <2>4
\* A request whose job stays in its slot stays registered.
<1>3. ASSUME NEW t \in Slots, Busy(t), Same(t)
      PROVE  jobs'[t].of \in Ids /\ stage'[jobs'[t].of] = "registered"
  <2> DEFINE i == jobs[t].of
  <2>1. i \in Ids /\ stage[i] = "registered"
    BY <1>3 DEF Inv, OneChain
  <2>2. CASE Sends
    BY <1>3, <2>1, <2>2 DEF Sends, MaySend, Inv, TypeOK
  <2>3. CASE Stop
    BY <1>3, <2>3 DEF Stop
  <2>4. CASE Drain
    <3>1. Head(outbox) \in Ids /\ stage[Head(outbox)] = "outbox"
      BY <2>4, OutboxSteps DEF Drain, Inv, TypeOK, Queue
    <3> QED BY <1>3, <2>1, <2>4, <3>1 DEF Drain, To, Inv, TypeOK
  <2>5. ASSUME NEW j \in Ids, Handle(j) \/ Register(j)
        PROVE  jobs'[t].of \in Ids /\ stage'[jobs'[t].of] = "registered"
    BY <1>3, <2>1, <2>5 DEF Handle, Register, To, Inv, TypeOK
  <2>6. CASE Tick
    BY <1>3, <2>1, <2>6 DEF Tick
  <2>7. ASSUME NEW s \in Slots, FireRecurring(s) \/ FireAt(s) \/ FireRandom(s) \/ Return(s)
        PROVE  jobs'[t].of \in Ids /\ stage'[jobs'[t].of] = "registered"
    <3>1. CASE stage' = stage
      BY <1>3, <2>1, <3>1
    <3>2. CASE stage' # stage
      <4>1. jobs' = [jobs EXCEPT ![s] = NoJob] /\ \E x \in {"done", "failed"} : To(jobs[s].of, x)
        BY <2>7, <3>2 DEF FireRecurring, FireAt, FireRandom, Return, RemoveOneShot
      <4>2. s # t
        BY <1>3, <4>1 DEF Inv, TypeOK
      <4>3. jobs[s].phase # "free"
        BY <2>7 DEF FireRecurring, FireAt, FireRandom, Return, Due
      <4>4. jobs[s].of # i
        BY <4>2, <4>3, JobOf
      <4> QED BY <1>3, <2>1, <4>1, <4>4 DEF To, Inv, TypeOK
    <3> QED BY <3>1, <3>2
  <2> QED BY <2>2, <2>3, <2>4, <2>5, <2>6, <2>7, Steps
<1>4. ASSUME NEW t \in Slots, NEW i \in Ids, New(t, i)
      PROVE  jobs'[t].of \in Ids /\ stage'[jobs'[t].of] = "registered"
  BY <1>4 DEF Inv, TypeOK
\* A registered request keeps its job, or has just been given one.
<1>5. ASSUME NEW i \in Ids, stage'[i] = "registered"
      PROVE  \E s \in Slots : jobs'[s].of = i
  <2> USE DEF Inv, TypeOK
  <2>1. stage[i] = "registered" => \E s \in Slots : jobs[s].of = i
    BY DEF OneChain
  <2>2. CASE Sends
    BY <1>5, <2>1, <2>2 DEF Sends, MaySend
  <2>3. CASE Stop
    BY <1>5, <2>3 DEF Stop
  <2>4. CASE Drain
    BY <1>5, <2>1, <2>4 DEF Drain, To
  <2>5. ASSUME NEW j \in Ids, Handle(j)
        PROVE  \E s \in Slots : jobs'[s].of = i
    BY <1>5, <2>1, <2>5 DEF Handle, To
  <2>6. ASSUME NEW j \in Ids, Register(j)
        PROVE  \E s \in Slots : jobs'[s].of = i
    <3>1. PICK s \in Slots :
              /\ jobs[s] = NoJob
              /\ \/ \E n \in FirstDelays(asked[j]) : Added(s, j, n) /\ To(j, "registered")
                 \/ To(j, "failed") /\ UNCHANGED jobs
      BY <2>6 DEF Register
    <3>2. CASE To(j, "failed") /\ UNCHANGED jobs
      BY <1>5, <2>1, <3>2 DEF To
    <3>3. ASSUME NEW n, Added(s, j, n), To(j, "registered")
          PROVE  \E t \in Slots : jobs'[t].of = i
      <4>1. CASE i = j
        BY <3>3, <4>1 DEF Added, Waiting
      <4>2. CASE i # j
        <5>1. PICK t \in Slots : jobs[t].of = i
          BY <1>5, <2>1, <3>3, <4>2 DEF To
        <5>2. t # s
          BY <3>1, <5>1, SchedulesAssumption DEF NoJob, Ids
        <5> QED BY <3>3, <5>1, <5>2 DEF Added
      <4> QED BY <4>1, <4>2
    <3> QED BY <3>1, <3>2, <3>3
  <2>7. CASE Tick
    <3>1. PICK s \in Slots : jobs[s].of = i
      BY <1>5, <2>1, <2>7 DEF Tick
    <3>2. jobs'[s].of = i
      BY <2>7, <3>1 DEF Tick, Job
    <3> QED BY <3>2
  <2>8. ASSUME NEW s \in Slots, FireRecurring(s) \/ FireAt(s) \/ FireRandom(s) \/ Return(s)
        PROVE  \E t \in Slots : jobs'[t].of = i
    <3>1. jobs[s].of \in Ids /\ stage[jobs[s].of] = "registered"
      BY <2>8, JobOf DEF FireRecurring, FireAt, FireRandom, Return, Due
    <3>2. \/ /\ stage' = stage
             /\ \E x \in Job : jobs' = [jobs EXCEPT ![s] = x] /\ x.of = jobs[s].of
          \/ \E x \in {"done", "failed"} :
                jobs' = [jobs EXCEPT ![s] = NoJob] /\ To(jobs[s].of, x)
      BY <2>8, <3>1, SlotShapes DEF RemoveOneShot
    <3>3. PICK t \in Slots : jobs[t].of = i
      BY <1>5, <2>1, <3>1, <3>2 DEF To
    <3>4. CASE stage' = stage /\ \E x \in Job : jobs' = [jobs EXCEPT ![s] = x] /\ x.of = jobs[s].of
      <4>1. jobs'[t].of = jobs[t].of
        BY <3>4
      <4> QED BY <3>3, <4>1
    <3>5. ASSUME NEW x \in {"done", "failed"}, jobs' = [jobs EXCEPT ![s] = NoJob], To(jobs[s].of, x)
          PROVE  \E u \in Slots : jobs'[u].of = i
      <4>1. t # s
        BY <1>5, <3>1, <3>3, <3>5 DEF To
      <4>2. jobs'[t] = jobs[t]
        BY <3>5, <4>1
      <4> QED BY <3>3, <4>2
    <3> QED BY <3>2, <3>4, <3>5
  <2> QED BY <2>2, <2>3, <2>4, <2>5, <2>6, <2>7, <2>8, Steps
<1> QED BY <1>1, <1>2, <1>3, <1>4, <1>5 DEF OneChain

LEMMA AtOnTimeInv == Inv /\ [Next]_vars => AtOnTime'
<1> SUFFICES ASSUME Inv, [Next]_vars, NEW i \in Ids, asked'[i].kind = "at"
             PROVE  /\ fired'[i] <= 1
                    /\ fired'[i] = 1 => stage'[i] = "done" /\ (now' >= asked'[i].number \/ now' = MaxNow)
                    /\ \A s \in Slots : jobs'[s].of = i =>
                          /\ fired'[i] = 0
                          /\ now' < MaxNow /\ asked'[i].number >= 0 =>
                                jobs'[s].left = IF asked'[i].number > now'
                                                THEN asked'[i].number - now' ELSE 0
  BY DEF AtOnTime
<1> USE DEF Inv, TypeOK
<1>1. stage[i] = "none" => \A s \in Slots : jobs[s].of # i
  <2>1. \A s \in Slots : jobs[s] # NoJob => stage[jobs[s].of] = "registered"
    BY DEF OneChain
  <2> QED BY <2>1 DEF NoJob, Ids
<1>2. stage[i] = "none" => fired[i] = 0
  BY DEF Admitted
<1>3. stage[i] # "none" => asked[i] \in Asks /\ asked[i].number \in Int
  BY SchedulesAssumption DEF Admitted
<1>4. CASE Sends
  <2>1. CASE stage[i] = "none"
    BY <1>1, <1>2, <1>4, <2>1 DEF Sends, MaySend
  <2>2. CASE stage[i] # "none"
    BY <1>4, <2>2 DEF Sends, MaySend, AtOnTime
  <2> QED BY <2>1, <2>2
<1>5. CASE Stop
  BY <1>5 DEF Stop, NoAsk
<1>6. CASE Drain
  <2>1. Head(outbox) \in Ids /\ stage[Head(outbox)] = "outbox"
    BY <1>6, OutboxSteps DEF Drain, Queue
  <2> QED BY <1>6, <2>1 DEF Drain, To, AtOnTime
<1>7. ASSUME NEW j \in Ids, Handle(j)
      PROVE  /\ stage'[i] = stage[i] \/ stage[i] = "inbox"
             /\ UNCHANGED <<asked, fired, now, jobs>>
  BY <1>7 DEF Handle, To
<1>8. CASE \E j \in Ids : Handle(j)
  BY <1>7, <1>8 DEF AtOnTime
<1>9. ASSUME NEW j \in Ids, Register(j)
      PROVE  AtOnTime'
  <2> SUFFICES ASSUME NEW h \in Ids, asked[h].kind = "at"
               PROVE  /\ fired[h] <= 1
                      /\ fired[h] = 1 => stage'[h] = "done" /\ (now >= asked[h].number \/ now = MaxNow)
                      /\ \A s \in Slots : jobs'[s].of = h =>
                            /\ fired[h] = 0
                            /\ now < MaxNow /\ asked[h].number >= 0 =>
                                  jobs'[s].left = IF asked[h].number > now
                                                  THEN asked[h].number - now ELSE 0
    BY <1>9 DEF Register, AtOnTime
  <2>1. /\ fired[h] <= 1
        /\ fired[h] = 1 => stage[h] = "done" /\ (now >= asked[h].number \/ now = MaxNow)
        /\ stage[h] = "done" => stage'[h] = "done"
    BY <1>9 DEF Register, To, AtOnTime
  <2>2. ASSUME NEW s \in Slots, jobs'[s].of = h
        PROVE  /\ fired[h] = 0
               /\ now < MaxNow /\ asked[h].number >= 0 =>
                     jobs'[s].left = IF asked[h].number > now THEN asked[h].number - now ELSE 0
    <3>1. CASE jobs'[s] = jobs[s]
      BY <2>2, <3>1 DEF AtOnTime
    <3>2. CASE jobs'[s] # jobs[s]
      <4>1. stage[j] = "spawned" /\ \E n \in FirstDelays(asked[j]) : jobs'[s] = Waiting(j, n)
        BY <1>9, <3>2 DEF Register, Added
      <4>2. j = h
        BY <2>2, <4>1 DEF Waiting
      <4>3. fired[h] = 0 /\ asked[h].number \in I64 /\ jobs'[s].left = Delay(asked[h].number)
        BY <4>1, <4>2 DEF Admitted, Parses, FirstDelays, Waiting
      <4> QED BY <4>3, DelayIsExact
    <3> QED BY <3>1, <3>2
  <2> QED BY <2>1, <2>2
<1>10. CASE Tick
  <2>1. MaxNow \in Nat /\ now' = IF now < MaxNow THEN now + 1 ELSE now
    BY <1>10, SchedulesAssumption DEF Tick
  <2>2. asked[i].kind = "at" /\ UNCHANGED <<asked, stage, fired>>
    BY <1>10 DEF Tick
  <2>3. fired[i] = 1 => asked[i].number \in Int
    BY <1>3 DEF Admitted
  <2>4. ASSUME NEW s \in Slots, jobs'[s].of = i
        PROVE  /\ fired'[i] = 0
               /\ now' < MaxNow /\ asked'[i].number >= 0 =>
                     jobs'[s].left = IF asked'[i].number > now' THEN asked'[i].number - now' ELSE 0
    <3>1. jobs[s].of = i /\ jobs[s].left \in Nat
          /\ jobs'[s].left = IF jobs[s].left > 0 THEN jobs[s].left - 1 ELSE jobs[s].left
      BY <1>10, <2>4, Numbers DEF Tick, Job
    <3>2. asked[i].number \in Int
      BY <1>1, <1>3, <3>1
    <3> QED BY <2>1, <2>2, <3>1, <3>2 DEF AtOnTime
  <2> QED BY <2>1, <2>2, <2>3, <2>4, SchedulesAssumption DEF AtOnTime
<1>11. ASSUME NEW s \in Slots, FireRecurring(s) \/ FireRandom(s) \/ Return(s)
       PROVE  AtOnTime'
  <2> DEFINE j == jobs[s].of
  <2>1. jobs[s].phase # "free"
    BY <1>11 DEF FireRecurring, FireRandom, Return, Due
  <2>2. j \in Ids /\ stage[j] = "registered" /\ asked[j].kind # "at"
    BY <1>11, <2>1, JobOf DEF FireRecurring, FireRandom, Return, JobShape
  <2>3. \A h \in Ids \ {j} : fired'[h] = fired[h] /\ stage'[h] = stage[h]
    BY <1>11, <2>2 DEF FireRecurring, FireRandom, Return, OnceMore, To
  <2>4. \A t \in Slots : jobs'[t] = jobs[t] \/ jobs'[t].of \in {0, j}
    BY <1>11 DEF FireRecurring, FireRandom, Return, Added, ReAdded, RemoveOneShot, Waiting, Calling, NoJob
  <2>5. UNCHANGED <<asked, now>>
    BY <1>11 DEF FireRecurring, FireRandom, Return
  <2>6. 0 \notin Ids
    BY DEF Ids
  <2> HIDE DEF j
  <2> QED BY <2>2, <2>3, <2>4, <2>5, <2>6 DEF AtOnTime
<1>12. ASSUME NEW s \in Slots, FireAt(s)
       PROVE  AtOnTime'
  <2> DEFINE j == jobs[s].of
  <2>1. jobs[s].phase # "free" /\ jobs[s].left = 0
    BY <1>12 DEF FireAt, Due
  <2>2. j \in Ids /\ asked[j].kind = "at" /\ fired[j] = 0 /\ asked[j].number \in Int
    BY <1>12, <2>1, JobOf, SchedulesAssumption DEF FireAt, AtOnTime
  <2>3. now < MaxNow => now >= asked[j].number
    <3>1. now < MaxNow /\ asked[j].number >= 0 =>
            jobs[s].left = IF asked[j].number > now THEN asked[j].number - now ELSE 0
      BY <2>2 DEF AtOnTime
    <3> QED BY <2>1, <2>2, <3>1, SchedulesAssumption
  <2>4. fired' = [fired EXCEPT ![j] = 1] /\ stage' = [stage EXCEPT ![j] = "done"]
    BY <1>12, <2>2 DEF FireAt, OnceMore, To
  <2>5. /\ \A t \in Slots \ {s} : jobs'[t] = jobs[t] /\ jobs[t].of # j
        /\ jobs'[s].of = 0 /\ UNCHANGED <<asked, now>>
    BY <1>12, <2>1, JobOf DEF FireAt, RemoveOneShot, NoJob
  <2>6. 0 \notin Ids /\ MaxNow \in Nat
    BY SchedulesAssumption DEF Ids
  <2> HIDE DEF j
  <2>7. ASSUME NEW h \in Ids, asked'[h].kind = "at"
        PROVE  /\ fired'[h] <= 1
               /\ fired'[h] = 1 => stage'[h] = "done" /\ (now' >= asked'[h].number \/ now' = MaxNow)
    BY <2>2, <2>3, <2>4, <2>5, <2>6, <2>7 DEF AtOnTime
  <2>8. ASSUME NEW h \in Ids, asked'[h].kind = "at", NEW t \in Slots, jobs'[t].of = h
        PROVE  /\ fired'[h] = 0
               /\ now' < MaxNow /\ asked'[h].number >= 0 =>
                     jobs'[t].left = IF asked'[h].number > now' THEN asked'[h].number - now' ELSE 0
    <3>1. t # s /\ jobs'[t] = jobs[t] /\ h # j
      BY <2>5, <2>6, <2>8
    <3> QED BY <2>4, <2>5, <2>8, <3>1 DEF AtOnTime
  <2> QED BY <2>7, <2>8 DEF AtOnTime
<1>13. CASE AtOnTime'
  BY <1>13 DEF AtOnTime
<1> QED BY <1>4, <1>5, <1>6, <1>8, <1>9, <1>10, <1>11, <1>12, <1>13, Steps

----
(* Theorems *)

LEMMA Invariance == Spec => []Inv
<1>1. Inv /\ [Next]_vars => Inv'
  BY TypeInv, StartUpInv, QueueInv, ForgottenInv, AdmittedInv, JobShapeInv, OneChainInv, AtOnTimeInv DEF Inv
<1> QED BY InitInv, <1>1, PTL DEF Spec

\* The variables of the schedules keep their types, for all requests, widths and bounds.
THEOREM TypeCorrect == Spec => []TypeOK
BY Invariance, PTL DEF Inv

\* Requests sent by init() while the runtime starts wait in the outbox until #scheduler
\* and the ACLs are there (main.rs's order).
THEOREM InitRequestsAreHeard == Spec => []InitIsHeard
BY Invariance, PTL DEF Inv

\* Whatever fires, fails, stops or is registered meanwhile, a registration has one job
\* (make_random_job).
THEOREM ChainsDoNotFork == Spec => []OneChain
BY Invariance, PTL DEF Inv

\* One-shot jobs fire once, in time, and never early (register_schedule).
THEOREM OneShotsAreOnTime == Spec => []AtOnTime
BY Invariance, PTL DEF Inv

\* No job fires twice without waiting, whatever the numbers of its request are
\* (parse_duration, rand_delay).
THEOREM JobsRest == Spec => Rests
<1>1. Inv /\ [Next]_vars =>
        [\A s \in Slots :
            jobs'[s] # jobs[s] /\ jobs'[s].phase = "waiting" /\ asked'[jobs'[s].of].kind # "at"
                => jobs'[s].left > 0 \/ jobs[s] = Waiting(jobs'[s].of, 1)]_vars
  <2> SUFFICES ASSUME Inv, [Next]_vars, NEW s \in Slots,
                      jobs'[s] # jobs[s], jobs'[s].phase = "waiting", asked'[jobs'[s].of].kind # "at"
               PROVE  jobs'[s].left > 0 \/ jobs[s] = Waiting(jobs'[s].of, 1)
    OBVIOUS
  <2>1. CASE jobs[s].left > 0 /\ jobs'[s] = [jobs[s] EXCEPT !.left = @ - 1]
    BY <2>1, Numbers DEF Inv, TypeOK, Job, Waiting
  <2>2. ASSUME NEW i \in Ids, NEW n \in U64, Register(i), stage[i] = "spawned",
               n \in FirstDelays(asked[i]), jobs' = [jobs EXCEPT ![s] = Waiting(i, n)]
        PROVE  jobs'[s].left > 0
    <3>1. jobs'[s].of = i /\ jobs'[s].left = n /\ asked' = asked
      BY <2>2 DEF Waiting, Register, Inv, TypeOK
    <3>2. asked[i] \in Asks /\ Parses(asked[i]) /\ asked[i].kind # "at"
      BY <2>2, <3>1 DEF Inv, Admitted
    <3> QED BY <2>2, <3>1, <3>2, FirstDelaysAreNumbers DEF Inv, TypeOK
  <2>3. CASE \E n \in U64 : n > 0 /\ jobs'[s] = Waiting(jobs[s].of, n)
    BY <2>3 DEF Waiting
  <2>4. jobs'[s] # NoJob /\ jobs'[s] # Calling(jobs[s].of)
    BY DEF NoJob, Calling
  <2> QED BY <2>1, <2>2, <2>3, <2>4, SlotSteps
<1> QED BY Invariance, <1>1, PTL DEF Spec, Rests

\* There is always a slot for a job that is to be registered, as every job belongs to a
\* request of its own, so the number of slots keeps no one waiting.
LEMMA RoomForAll ==
    ASSUME TypeOK, OneChain, NEW i \in Ids, stage[i] = "spawned"
    PROVE  \E s \in Slots : jobs[s] = NoJob
<1> SUFFICES ASSUME \A s \in Slots : jobs[s] # NoJob
             PROVE  FALSE
  OBVIOUS
<1> DEFINE f == [s \in Slots |-> jobs[s].of]
<1>1. f \in [Slots -> Ids \ {i}]
  BY DEF OneChain
<1>2. IsFiniteSet(Slots) /\ IsFiniteSet(Ids \ {i}) /\ Cardinality(Ids \ {i}) < Cardinality(Slots)
  <2>1. IsFiniteSet(Ids)
    BY FS_Interval, SchedulesAssumption DEF Ids
  <2>2. IsFiniteSet(Ids \ {i}) /\ Cardinality(Ids \ {i}) = Cardinality(Ids) - 1
    BY <2>1, FS_RemoveElement
  <2>3. Cardinality(Ids) \in Nat
    BY <2>1, FS_CardinalityType
  <2> QED BY <2>1, <2>2, <2>3 DEF Slots
<1>3. PICK s \in Slots, t \in Slots : s # t /\ f[s] = f[t]
  <2> HIDE DEF f
  <2> QED BY <1>1, <1>2, FS_PigeonHole
<1> QED BY <1>3 DEF OneChain

\* A request on its way can go on, as soon as the main loop runs: what waits for the outbox
\* to be drained is in it, what waits in the inbox meets an ACL that was read, and what
\* waits for its job finds room for it. Nothing that plugins, clients or other requests
\* do takes it out of line (handle_rpc_message, register_schedule).
THEOREM RequestsCanGoOn ==
    Spec => [](\A i \in Ids :
                  /\ stage[i] = "outbox" => \E k \in 1..Len(outbox) : outbox[k] = i
                  /\ stage[i] = "inbox" => mode = "up" /\ gate # "unread"
                  /\ stage[i] = "spawned" => mode = "up" /\ \E s \in Slots : jobs[s] = NoJob)
<1>1. Inv => \A i \in Ids :
                  /\ stage[i] = "outbox" => \E k \in 1..Len(outbox) : outbox[k] = i
                  /\ stage[i] = "inbox" => mode = "up" /\ gate # "unread"
                  /\ stage[i] = "spawned" => mode = "up" /\ \E s \in Slots : jobs[s] = NoJob
  BY RoomForAll DEF Inv, StartUp, NoneForgotten
<1> QED BY Invariance, <1>1, PTL

====
