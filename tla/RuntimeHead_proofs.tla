---- MODULE RuntimeHead_proofs ----
(***************************************************************************)
(* Proofs about RuntimeHead, for any set of manifests and any bounds.      *)
(*                                                                         *)
(* Control relates the phases of the process, the write in hand and the    *)
(* shutdown's publish; with it TypeOK is inductive. Known says that        *)
(* everything that may still become the runtime's name is a stored         *)
(* manifest; the refinement of PublishedHead follows from it. The          *)
(* remaining invariants strengthen PinFollowsHead, CleanStop and           *)
(* SkipIsSound. A history variable at the end tells the heads there have   *)
(* been from manifests that were only stored.                              *)
(***************************************************************************)
EXTENDS RuntimeHead, TLAPS

\* The control states the phases allow.
Control ==
    /\ proc \in {"saving", "stopping"} => head # NoCid
    /\ write # NoCid => proc \in {"up", "saving"} /\ head # NoCid
    /\ pub.pc # "idle" => pub.cid # NoCid
    /\ stop.pc = "none" => ~stop.landed
    /\ stop.pc = "runtime" => proc = "stopping"
    /\ stop.pc = "acked" => stop.landed
    /\ stop.pc \in {"acked", "failed"} => proc \in {"closing", "stopped"}
    /\ proc \notin Running => ~pinOk /\ lastPub = NoCid /\ pub.pc = "idle"

ControlInv == TypeOK /\ Control

\* Whatever is or may become the runtime's name is stored.
Known ==
    /\ Overrides \subseteq stored
    /\ names.runtime \in stored \union {NoCid}
    /\ head \in stored \union {NoCid}
    /\ write \in stored \union {NoCid}
    /\ pub.cid \in stored \union {NoCid}
    /\ \A r \in late : r[1] = "runtime" => r[2] \in stored

KnownInv == ControlInv /\ Known

\* What a step does to the name: it stores manifests, or it moves the name.
Repointed ==
    \/ /\ \/ stored' = stored
          \/ \E c \in Cids : stored' = stored \union {c}
       /\ names'.runtime = names.runtime
    \/ stored' = stored /\ names'.runtime \in stored

PinInv == ControlInv /\ PinFollowsHead

\* The shutdown's publish is what the name shows, until another one overtakes it.
StopShown == stop.landed /\ ~stop.overtaken => names.runtime = head

StopInv == ControlInv /\ StopShown

\* The runtime's name shows c, or the head if the shutdown's publish came after.
Shows(c) == names.runtime = c \/ (stop.landed /\ names.runtime = head)

\* What an attempt has established so far, if only the task itself and the shutdown
\* changed a name since it began.
Undisturbed ==
    /\ pub.pc = "did" => ~pub.didOk
    /\ pub.pc = "key" => ~pub.landed
    /\ ~foreign =>
         /\ pub.pc = "did" /\ pub.landed => names.did = pub.cid
         /\ pub.pc \in {"key", "runtime"} /\ pub.didOk => names.did = pub.cid
         /\ pub.pc = "runtime" /\ pub.landed => Shows(pub.cid)
         /\ pub.pc = "idle" /\ lastPub # NoCid /\ ~failed =>
              names.did = lastPub /\ Shows(lastPub)

SkipInv == ControlInv /\ Undisturbed

----
\* Each way do_publish_own_document can end leads to the runtime's key, with nothing
\* of the attempt outstanding but what it leaves to Kubo.
LEMMA PubDidEffect ==
    ASSUME ProcTypes, PubDid
    PROVE  /\ pub' \in [pc : {"idle", "did", "key", "runtime"}, cid : Roots,
                        didOk : BOOLEAN, landed : BOOLEAN]
           /\ pub'.pc = "key" /\ pub'.cid = pub.cid /\ ~pub'.landed
           /\ pub'.didOk => pub.didOk \/ pub.landed
           /\ late' \in {late, late \union {<<"did", pub.cid>>}}
<1> DEFINE Attempts == [pc : {"idle", "did", "key", "runtime"}, cid : Roots,
                        didOk : BOOLEAN, landed : BOOLEAN]
<1>1. pub \in Attempts /\ pub.pc = "did"
  BY DEF ProcTypes, PubDid
<1>2. late' \in {late, late \union {<<"did", pub.cid>>}}
  BY <1>1 DEF PubDid, PubOutstanding
<1>3. CASE pub.landed /\ pub' = [pub EXCEPT !.pc = "key", !.didOk = TRUE, !.landed = FALSE]
  BY <1>1, <1>2, <1>3
<1>4. CASE ~pub.landed /\ pub' = [pub EXCEPT !.pc = "key"]
  BY <1>1, <1>2, <1>4
<1>5. CASE pub' = [pub EXCEPT !.pc = "key", !.landed = FALSE]
  BY <1>1, <1>2, <1>5
<1> QED
  BY <1>3, <1>4, <1>5 DEF PubDid

\* Types and control states survive every step.
LEMMA ControlStep ==
    ASSUME ControlInv, [Next]_vars
    PROVE  ControlInv'
<1> USE CidsAssumption, BoundsAssumption DEF ControlInv, TypeOK, KuboTypes,
        ProcTypes, BoundTypes, FlagTypes, Control, Roots, Running
<1>1. CASE Start
  <2> USE <1>1 DEF Start, kuboVars, NoStop
  <2>1. KuboTypes'  OBVIOUS
  <2>2. ProcTypes'  OBVIOUS
  <2>3. BoundTypes'  OBVIOUS
  <2>4. FlagTypes'  OBVIOUS
  <2>5. Control'  OBVIOUS
  <2> QED
    BY <2>1, <2>2, <2>3, <2>4, <2>5
<1>2. CASE BootOverride
  BY <1>2 DEF BootOverride, kuboVars, auxVars
<1>3. CASE BootFromIpns
  BY <1>3 DEF BootFromIpns, kuboVars, auxVars
<1>4. CASE BootMinimal
  <2> USE <1>4 DEF BootMinimal, Fault
  <2>1. KuboTypes'  OBVIOUS
  <2>2. ProcTypes'  OBVIOUS
  <2>3. BoundTypes'  OBVIOUS
  <2>4. FlagTypes'  OBVIOUS
  <2>5. Control'  OBVIOUS
  <2> QED
    BY <2>1, <2>2, <2>3, <2>4, <2>5
<1>5. CASE BootRefused
  <2> USE <1>5 DEF BootRefused, Fault, Exit, BootOutstanding, IdlePub
  <2>1. KuboTypes'  OBVIOUS
  <2>2. ProcTypes'  OBVIOUS
  <2>3. BoundTypes'  OBVIOUS
  <2>4. FlagTypes'  OBVIOUS
  <2>5. Control'  OBVIOUS
  <2> QED
    BY <2>1, <2>2, <2>3, <2>4, <2>5
<1>6. CASE Crash
  <2> USE <1>6 DEF Crash, Exit, PubOutstanding, StopOutstanding, BootOutstanding,
          IdlePub, NoStop, Alive
  <2>1. KuboTypes'  OBVIOUS
  <2>2. ProcTypes'  OBVIOUS
  <2>3. BoundTypes'  OBVIOUS
  <2>4. FlagTypes'  OBVIOUS
  <2>5. Control'  OBVIOUS
  <2> QED
    BY <2>1, <2>2, <2>3, <2>4, <2>5
<1>7. ASSUME NEW c \in Cids, WritePut(c) PROVE ControlInv'
  BY <1>7 DEF WritePut, Put
<1>8. CASE WriteCommit
  <2> USE <1>8 DEF WriteCommit, PinMoved, Fault
  <2>1. KuboTypes'  OBVIOUS
  <2>2. ProcTypes'  OBVIOUS
  <2>3. BoundTypes'  OBVIOUS
  <2>4. FlagTypes'  OBVIOUS
  <2>5. Control'  OBVIOUS
  <2> QED
    BY <2>1, <2>2, <2>3, <2>4, <2>5
<1>9. CASE Shutdown
  BY <1>9 DEF Shutdown, kuboVars, auxVars
<1>10. CASE SaveFails
  BY <1>10 DEF SaveFails, Fault, kuboVars
<1>11. CASE StopKey
  BY <1>11 DEF StopKey, auxVars
<1>12. CASE StopLand
  <2> USE <1>12 DEF StopLand, auxVars
  <2>1. KuboTypes'  OBVIOUS
  <2>2. ProcTypes'  OBVIOUS
  <2>3. BoundTypes'  OBVIOUS
  <2>4. FlagTypes'  OBVIOUS
  <2>5. Control'  OBVIOUS
  <2> QED
    BY <2>1, <2>2, <2>3, <2>4, <2>5
<1>13. CASE StopAck
  BY <1>13 DEF StopAck, StopAnswered, kuboVars, auxVars
<1>14. CASE StopFails
  <2> USE <1>14 DEF StopFails, Fault, StopOutstanding
  <2>1. KuboTypes'  OBVIOUS
  <2>2. ProcTypes'  OBVIOUS
  <2>3. BoundTypes'  OBVIOUS
  <2>4. FlagTypes'  OBVIOUS
  <2>5. Control'  OBVIOUS
  <2> QED
    BY <2>1, <2>2, <2>3, <2>4, <2>5
<1>15. CASE Close
  <2> USE <1>15 DEF Close, Exit, PubOutstanding, BootOutstanding, IdlePub
  <2>1. KuboTypes'  OBVIOUS
  <2>2. ProcTypes'  OBVIOUS
  <2>3. BoundTypes'  OBVIOUS
  <2>4. FlagTypes'  OBVIOUS
  <2>5. Control'  OBVIOUS
  <2> QED
    BY <2>1, <2>2, <2>3, <2>4, <2>5
<1>16. CASE PubTick
  <2> USE <1>16 DEF PubTick, HasHead, kuboVars, IdlePub
  <2>1. KuboTypes'  OBVIOUS
  <2>2. ProcTypes'  OBVIOUS
  <2>3. BoundTypes'  OBVIOUS
  <2>4. FlagTypes'  OBVIOUS
  <2>5. Control'  OBVIOUS
  <2> QED
    BY <2>1, <2>2, <2>3, <2>4, <2>5
<1>17. CASE PubLand
  <2> USE <1>17 DEF PubLand, Overtaken, auxVars
  <2>1. KuboTypes'  OBVIOUS
  <2>2. ProcTypes'  OBVIOUS
  <2>3. BoundTypes'  OBVIOUS
  <2>4. FlagTypes'  OBVIOUS
  <2>5. Control'  OBVIOUS
  <2> QED
    BY <2>1, <2>2, <2>3, <2>4, <2>5
<1>18. CASE PubDid
  <2>1. /\ UNCHANGED <<stored, pins, names, keyKnown, proc, head, write, bootDoc, lastPub,
                       warm, stop, edits, starts, pinOk, failed, foreign>>
        /\ faults' \in {faults, faults + 1} /\ pub.pc = "did"
    BY <1>18 DEF PubDid, Fault
  <2>2. pub.cid \in Cids
    BY <2>1
  <2>3. /\ pub' \in [pc : {"idle", "did", "key", "runtime"}, cid : Roots,
                      didOk : BOOLEAN, landed : BOOLEAN]
        /\ pub'.pc = "key" /\ pub'.cid = pub.cid
        /\ late' \in {late, late \union {<<"did", pub.cid>>}}
    BY <1>18, PubDidEffect
  <2>4. KuboTypes'
    BY <2>1, <2>2, <2>3
  <2>5. ProcTypes'
    BY <2>1, <2>3
  <2>6. BoundTypes' /\ FlagTypes'
    BY <2>1
  <2>7. Control'
    BY <2>1, <2>2, <2>3
  <2> QED
    BY <2>4, <2>5, <2>6, <2>7
<1>19. CASE PubKey
  BY <1>19 DEF PubKey, auxVars
<1>20. CASE PubRuntime
  <2> USE <1>20 DEF PubRuntime, Fault, Record, PubOutstanding, IdlePub
  <2>1. KuboTypes'  OBVIOUS
  <2>2. ProcTypes'  OBVIOUS
  <2>3. BoundTypes'  OBVIOUS
  <2>4. FlagTypes'  OBVIOUS
  <2>5. Control'  OBVIOUS
  <2> QED
    BY <2>1, <2>2, <2>3, <2>4, <2>5
<1>21. CASE WarmElapses
  BY <1>21 DEF WarmElapses, kuboVars, auxVars
<1>22. CASE BootDocSettles
  <2> USE <1>22 DEF BootDocSettles, Fault, BootOutstanding
  <2>1. KuboTypes'  OBVIOUS
  <2>2. ProcTypes'  OBVIOUS
  <2>3. BoundTypes'  OBVIOUS
  <2>4. FlagTypes'  OBVIOUS
  <2>5. Control'  OBVIOUS
  <2> QED
    BY <2>1, <2>2, <2>3, <2>4, <2>5
<1>23. CASE LateSettles
  <2> USE <1>23 DEF LateSettles, Overtaken
  <2>1. KuboTypes'  OBVIOUS
  <2>2. ProcTypes'  OBVIOUS
  <2>3. BoundTypes'  OBVIOUS
  <2>4. FlagTypes'  OBVIOUS
  <2>5. Control'  OBVIOUS
  <2> QED
    BY <2>1, <2>2, <2>3, <2>4, <2>5
<1>24. CASE UNCHANGED vars
  BY <1>24 DEF vars, kuboVars, procVars, auxVars
<1> QED
  BY <1>1, <1>2, <1>3, <1>4, <1>5, <1>6, <1>7, <1>8, <1>9, <1>10, <1>11, <1>12,
     <1>13, <1>14, <1>15, <1>16, <1>17, <1>18, <1>19, <1>20, <1>21, <1>22, <1>23,
     <1>24
     DEF Next, Daemon, Kubo, Boot

\* What may become the runtime's name stays stored: a manifest is put before it is
\* committed, and every publish request carries a committed one.
LEMMA KnownStep ==
    ASSUME KnownInv, [Next]_vars
    PROVE  Known'
<1> USE CidsAssumption DEF KnownInv, Known, TypeOK, KuboTypes, ProcTypes,
        FlagTypes, Control, ControlInv, Roots, Running
<1>1. CASE Start
  BY <1>1 DEF Start, kuboVars, NoStop
<1>2. CASE BootOverride
  BY <1>2 DEF BootOverride, kuboVars, auxVars
<1>3. CASE BootFromIpns
  BY <1>3 DEF BootFromIpns, kuboVars, auxVars
<1>4. CASE BootMinimal
  BY <1>4 DEF BootMinimal, Fault
<1>5. CASE BootRefused
  BY <1>5 DEF BootRefused, Fault, Exit, BootOutstanding, IdlePub
<1>6. CASE Crash
  BY <1>6 DEF Crash, Exit, PubOutstanding, StopOutstanding, BootOutstanding,
        IdlePub, NoStop, Alive
<1>7. ASSUME NEW c \in Cids, WritePut(c) PROVE Known'
  BY <1>7 DEF WritePut, Put
<1>8. CASE WriteCommit
  BY <1>8 DEF WriteCommit, PinMoved, Fault
<1>9. CASE Shutdown
  BY <1>9 DEF Shutdown, kuboVars, auxVars
<1>10. CASE SaveFails
  BY <1>10 DEF SaveFails, Fault, kuboVars
<1>11. CASE StopKey
  BY <1>11 DEF StopKey, auxVars
<1>12. CASE StopLand
  BY <1>12 DEF StopLand, auxVars
<1>13. CASE StopAck
  BY <1>13 DEF StopAck, StopAnswered, kuboVars, auxVars
<1>14. CASE StopFails
  BY <1>14 DEF StopFails, Fault, StopOutstanding
<1>15. CASE Close
  BY <1>15 DEF Close, Exit, PubOutstanding, BootOutstanding, IdlePub
<1>16. CASE PubTick
  BY <1>16 DEF PubTick, HasHead, kuboVars, IdlePub
<1>17. CASE PubLand
  BY <1>17 DEF PubLand, Overtaken, auxVars
<1>18. CASE PubDid
  <2> USE <1>18 DEF PubDid, Fault, PubOutstanding
  <2>1. pub'.cid = pub.cid
    OBVIOUS
  <2>2. \A r \in late' : r \in late \/ r[1] = "did"
    OBVIOUS
  <2> QED
    BY <2>1, <2>2
<1>19. CASE PubKey
  BY <1>19 DEF PubKey, auxVars
<1>20. CASE PubRuntime
  BY <1>20 DEF PubRuntime, Fault, Record, PubOutstanding, IdlePub
<1>21. CASE WarmElapses
  BY <1>21 DEF WarmElapses, kuboVars, auxVars
<1>22. CASE BootDocSettles
  BY <1>22 DEF BootDocSettles, Fault, BootOutstanding
<1>23. CASE LateSettles
  BY <1>23 DEF LateSettles, Overtaken
<1>24. CASE UNCHANGED vars
  BY <1>24 DEF vars, kuboVars, procVars, auxVars
<1> QED
  BY <1>1, <1>2, <1>3, <1>4, <1>5, <1>6, <1>7, <1>8, <1>9, <1>10, <1>11, <1>12,
     <1>13, <1>14, <1>15, <1>16, <1>17, <1>18, <1>19, <1>20, <1>21, <1>22, <1>23,
     <1>24
     DEF Next, Daemon, Kubo, Boot

\* A pin call that succeeds leaves the new head pinned, whatever the old one was.
LEMMA PinStep ==
    ASSUME PinInv, [Next]_vars
    PROVE  PinFollowsHead'
<1> USE CidsAssumption DEF PinInv, PinFollowsHead, Alive, TypeOK, KuboTypes,
        ProcTypes, FlagTypes, Control, ControlInv, Roots, Running
<1>1. CASE Start
  BY <1>1 DEF Start, kuboVars, NoStop
<1>2. CASE BootOverride
  BY <1>2 DEF BootOverride, kuboVars, auxVars
<1>3. CASE BootFromIpns
  BY <1>3 DEF BootFromIpns, kuboVars, auxVars
<1>4. CASE BootMinimal
  BY <1>4 DEF BootMinimal, Fault
<1>5. CASE BootRefused
  BY <1>5 DEF BootRefused, Fault, Exit, BootOutstanding, IdlePub
<1>6. CASE Crash
  BY <1>6 DEF Crash, Exit, PubOutstanding, StopOutstanding, BootOutstanding,
        IdlePub, NoStop, Alive
<1>7. ASSUME NEW c \in Cids, WritePut(c) PROVE PinFollowsHead'
  BY <1>7 DEF WritePut, Put
<1>8. CASE WriteCommit
  BY <1>8 DEF WriteCommit, PinMoved, Fault
<1>9. CASE Shutdown
  BY <1>9 DEF Shutdown, kuboVars, auxVars
<1>10. CASE SaveFails
  BY <1>10 DEF SaveFails, Fault, kuboVars
<1>11. CASE StopKey
  BY <1>11 DEF StopKey, auxVars
<1>12. CASE StopLand
  BY <1>12 DEF StopLand, auxVars
<1>13. CASE StopAck
  BY <1>13 DEF StopAck, StopAnswered, kuboVars, auxVars
<1>14. CASE StopFails
  BY <1>14 DEF StopFails, Fault, StopOutstanding
<1>15. CASE Close
  BY <1>15 DEF Close, Exit, PubOutstanding, BootOutstanding, IdlePub
<1>16. CASE PubTick
  BY <1>16 DEF PubTick, HasHead, kuboVars, IdlePub
<1>17. CASE PubLand
  BY <1>17 DEF PubLand, Overtaken, auxVars
<1>18. CASE PubDid
  BY <1>18 DEF PubDid, Fault, PubOutstanding
<1>19. CASE PubKey
  BY <1>19 DEF PubKey, auxVars
<1>20. CASE PubRuntime
  BY <1>20 DEF PubRuntime, Fault, Record, PubOutstanding, IdlePub
<1>21. CASE WarmElapses
  BY <1>21 DEF WarmElapses, kuboVars, auxVars
<1>22. CASE BootDocSettles
  BY <1>22 DEF BootDocSettles, Fault, BootOutstanding
<1>23. CASE LateSettles
  BY <1>23 DEF LateSettles, Overtaken
<1>24. CASE UNCHANGED vars
  BY <1>24 DEF vars, kuboVars, procVars, auxVars
<1> QED
  BY <1>1, <1>2, <1>3, <1>4, <1>5, <1>6, <1>7, <1>8, <1>9, <1>10, <1>11, <1>12,
     <1>13, <1>14, <1>15, <1>16, <1>17, <1>18, <1>19, <1>20, <1>21, <1>22, <1>23,
     <1>24
     DEF Next, Daemon, Kubo, Boot

\* Nothing but another publish moves the name once the shutdown's own landed.
LEMMA StopStep ==
    ASSUME StopInv, [Next]_vars
    PROVE  StopShown'
<1> USE CidsAssumption DEF StopInv, StopShown, TypeOK, KuboTypes, ProcTypes,
        FlagTypes, Control, ControlInv, Roots, Running
<1>1. CASE Start
  BY <1>1 DEF Start, kuboVars, NoStop
<1>2. CASE BootOverride
  BY <1>2 DEF BootOverride, kuboVars, auxVars
<1>3. CASE BootFromIpns
  BY <1>3 DEF BootFromIpns, kuboVars, auxVars
<1>4. CASE BootMinimal
  BY <1>4 DEF BootMinimal, Fault
<1>5. CASE BootRefused
  BY <1>5 DEF BootRefused, Fault, Exit, BootOutstanding, IdlePub
<1>6. CASE Crash
  BY <1>6 DEF Crash, Exit, PubOutstanding, StopOutstanding, BootOutstanding,
        IdlePub, NoStop, Alive
<1>7. ASSUME NEW c \in Cids, WritePut(c) PROVE StopShown'
  BY <1>7 DEF WritePut, Put
<1>8. CASE WriteCommit
  BY <1>8 DEF WriteCommit, PinMoved, Fault
<1>9. CASE Shutdown
  BY <1>9 DEF Shutdown, kuboVars, auxVars
<1>10. CASE SaveFails
  BY <1>10 DEF SaveFails, Fault, kuboVars
<1>11. CASE StopKey
  BY <1>11 DEF StopKey, auxVars
<1>12. CASE StopLand
  BY <1>12 DEF StopLand, auxVars
<1>13. CASE StopAck
  BY <1>13 DEF StopAck, StopAnswered, kuboVars, auxVars
<1>14. CASE StopFails
  BY <1>14 DEF StopFails, Fault, StopOutstanding
<1>15. CASE Close
  BY <1>15 DEF Close, Exit, PubOutstanding, BootOutstanding, IdlePub
<1>16. CASE PubTick
  BY <1>16 DEF PubTick, HasHead, kuboVars, IdlePub
<1>17. CASE PubLand
  BY <1>17 DEF PubLand, Overtaken, auxVars
<1>18. CASE PubDid
  BY <1>18 DEF PubDid, Fault, PubOutstanding
<1>19. CASE PubKey
  BY <1>19 DEF PubKey, auxVars
<1>20. CASE PubRuntime
  BY <1>20 DEF PubRuntime, Fault, Record, PubOutstanding, IdlePub
<1>21. CASE WarmElapses
  BY <1>21 DEF WarmElapses, kuboVars, auxVars
<1>22. CASE BootDocSettles
  BY <1>22 DEF BootDocSettles, Fault, BootOutstanding
<1>23. CASE LateSettles
  BY <1>23 DEF LateSettles, Overtaken
<1>24. CASE UNCHANGED vars
  BY <1>24 DEF vars, kuboVars, procVars, auxVars
<1> QED
  BY <1>1, <1>2, <1>3, <1>4, <1>5, <1>6, <1>7, <1>8, <1>9, <1>10, <1>11, <1>12,
     <1>13, <1>14, <1>15, <1>16, <1>17, <1>18, <1>19, <1>20, <1>21, <1>22, <1>23,
     <1>24
     DEF Next, Daemon, Kubo, Boot

\* Only a full attempt is recorded, and what it established lasts until a foreign
\* request changes a name.
LEMMA SkipStep ==
    ASSUME SkipInv, [Next]_vars
    PROVE  Undisturbed'
<1> USE CidsAssumption DEF SkipInv, Undisturbed, Shows, TypeOK, KuboTypes,
        ProcTypes, FlagTypes, Control, ControlInv, Roots, Running
<1>1. CASE Start
  BY <1>1 DEF Start, kuboVars, NoStop
<1>2. CASE BootOverride
  BY <1>2 DEF BootOverride, kuboVars, auxVars
<1>3. CASE BootFromIpns
  BY <1>3 DEF BootFromIpns, kuboVars, auxVars
<1>4. CASE BootMinimal
  BY <1>4 DEF BootMinimal, Fault
<1>5. CASE BootRefused
  BY <1>5 DEF BootRefused, Fault, Exit, BootOutstanding, IdlePub
<1>6. CASE Crash
  BY <1>6 DEF Crash, Exit, PubOutstanding, StopOutstanding, BootOutstanding,
        IdlePub, NoStop, Alive
<1>7. ASSUME NEW c \in Cids, WritePut(c) PROVE Undisturbed'
  BY <1>7 DEF WritePut, Put
<1>8. CASE WriteCommit
  BY <1>8 DEF WriteCommit, PinMoved, Fault
<1>9. CASE Shutdown
  BY <1>9 DEF Shutdown, kuboVars, auxVars
<1>10. CASE SaveFails
  BY <1>10 DEF SaveFails, Fault, kuboVars
<1>11. CASE StopKey
  BY <1>11 DEF StopKey, auxVars
<1>12. CASE StopLand
  BY <1>12 DEF StopLand, auxVars
<1>13. CASE StopAck
  BY <1>13 DEF StopAck, StopAnswered, kuboVars, auxVars
<1>14. CASE StopFails
  BY <1>14 DEF StopFails, Fault, StopOutstanding
<1>15. CASE Close
  BY <1>15 DEF Close, Exit, PubOutstanding, BootOutstanding, IdlePub
<1>16. CASE PubTick
  BY <1>16 DEF PubTick, HasHead, kuboVars, IdlePub
<1>17. CASE PubLand
  BY <1>17 DEF PubLand, Overtaken, auxVars
<1>18. CASE PubDid
  <2>1. pub'.cid = pub.cid /\ pub'.pc = "key" /\ ~pub'.landed
        /\ (pub'.didOk => pub.didOk \/ pub.landed)
    BY <1>18, PubDidEffect
  <2>2. /\ UNCHANGED <<names, stop, head, lastPub, failed, foreign>>
        /\ pub.pc = "did"
    BY <1>18 DEF PubDid
  <2> QED
    BY <2>1, <2>2
<1>19. CASE PubKey
  BY <1>19 DEF PubKey, auxVars
<1>20. CASE PubRuntime
  BY <1>20 DEF PubRuntime, Fault, Record, PubOutstanding, IdlePub
<1>21. CASE WarmElapses
  BY <1>21 DEF WarmElapses, kuboVars, auxVars
<1>22. CASE BootDocSettles
  BY <1>22 DEF BootDocSettles, Fault, BootOutstanding
<1>23. CASE LateSettles
  BY <1>23 DEF LateSettles, Overtaken
<1>24. CASE UNCHANGED vars
  BY <1>24 DEF vars, kuboVars, procVars, auxVars
<1> QED
  BY <1>1, <1>2, <1>3, <1>4, <1>5, <1>6, <1>7, <1>8, <1>9, <1>10, <1>11, <1>12,
     <1>13, <1>14, <1>15, <1>16, <1>17, <1>18, <1>19, <1>20, <1>21, <1>22, <1>23,
     <1>24
     DEF Next, Daemon, Kubo, Boot

\* Seen from PublishedHead, every step stores, repoints or stutters.
LEMMA NameStep ==
    ASSUME KnownInv, [Next]_vars
    PROVE  Repointed
<1> USE CidsAssumption DEF KnownInv, Known, Repointed, TypeOK, KuboTypes,
        ProcTypes, FlagTypes, Control, ControlInv, Roots, Running
<1>1. CASE Start
  BY <1>1 DEF Start, kuboVars, NoStop
<1>2. CASE BootOverride
  BY <1>2 DEF BootOverride, kuboVars, auxVars
<1>3. CASE BootFromIpns
  BY <1>3 DEF BootFromIpns, kuboVars, auxVars
<1>4. CASE BootMinimal
  BY <1>4 DEF BootMinimal, Fault
<1>5. CASE BootRefused
  BY <1>5 DEF BootRefused, Fault, Exit, BootOutstanding, IdlePub
<1>6. CASE Crash
  BY <1>6 DEF Crash, Exit, PubOutstanding, StopOutstanding, BootOutstanding,
        IdlePub, NoStop, Alive
<1>7. ASSUME NEW c \in Cids, WritePut(c) PROVE Repointed
  BY <1>7 DEF WritePut, Put
<1>8. CASE WriteCommit
  BY <1>8 DEF WriteCommit, PinMoved, Fault
<1>9. CASE Shutdown
  BY <1>9 DEF Shutdown, kuboVars, auxVars
<1>10. CASE SaveFails
  BY <1>10 DEF SaveFails, Fault, kuboVars
<1>11. CASE StopKey
  BY <1>11 DEF StopKey, auxVars
<1>12. CASE StopLand
  BY <1>12 DEF StopLand, auxVars
<1>13. CASE StopAck
  BY <1>13 DEF StopAck, StopAnswered, kuboVars, auxVars
<1>14. CASE StopFails
  BY <1>14 DEF StopFails, Fault, StopOutstanding
<1>15. CASE Close
  BY <1>15 DEF Close, Exit, PubOutstanding, BootOutstanding, IdlePub
<1>16. CASE PubTick
  BY <1>16 DEF PubTick, HasHead, kuboVars, IdlePub
<1>17. CASE PubLand
  BY <1>17 DEF PubLand, Overtaken, auxVars
<1>18. CASE PubDid
  BY <1>18 DEF PubDid, Fault, PubOutstanding
<1>19. CASE PubKey
  BY <1>19 DEF PubKey, auxVars
<1>20. CASE PubRuntime
  BY <1>20 DEF PubRuntime, Fault, Record, PubOutstanding, IdlePub
<1>21. CASE WarmElapses
  BY <1>21 DEF WarmElapses, kuboVars, auxVars
<1>22. CASE BootDocSettles
  BY <1>22 DEF BootDocSettles, Fault, BootOutstanding
<1>23. CASE LateSettles
  BY <1>23 DEF LateSettles, Overtaken
<1>24. CASE UNCHANGED vars
  BY <1>24 DEF vars, kuboVars, procVars, auxVars
<1> QED
  BY <1>1, <1>2, <1>3, <1>4, <1>5, <1>6, <1>7, <1>8, <1>9, <1>10, <1>11, <1>12,
     <1>13, <1>14, <1>15, <1>16, <1>17, <1>18, <1>19, <1>20, <1>21, <1>22, <1>23,
     <1>24
     DEF Next, Daemon, Kubo, Boot

\* The first start finds all of this established.
LEMMA InitInv == Init => KnownInv /\ PinInv /\ StopInv /\ SkipInv
<1> SUFFICES ASSUME Init PROVE KnownInv /\ PinInv /\ StopInv /\ SkipInv
  OBVIOUS
<1> USE CidsAssumption DEF Init, Roots, Running, Alive, IdlePub, NoStop
<1>1. KuboTypes /\ ProcTypes
  BY DEF KuboTypes, ProcTypes
<1>2. BoundTypes /\ FlagTypes
  BY DEF BoundTypes, FlagTypes
<1>3. Control
  BY DEF Control
<1>4. Known /\ PinFollowsHead
  BY DEF Known, PinFollowsHead
<1>5. StopShown /\ Undisturbed
  BY DEF StopShown, Undisturbed
<1> QED
  BY <1>1, <1>2, <1>3, <1>4, <1>5
  DEF KnownInv, PinInv, StopInv, SkipInv, ControlInv, TypeOK

\* The strengthened invariant holds throughout.
LEMMA AlwaysKnown == Spec => []KnownInv
<1>1. KnownInv /\ [Next]_vars => KnownInv'
  BY ControlStep, KnownStep DEF KnownInv
<1> QED
  BY InitInv, <1>1, PTL DEF Spec

\* Every variable keeps its type; the publishers never ask for an absent CID.
THEOREM TypeCorrect == Spec => []TypeOK
<1>1. KnownInv => TypeOK
  BY DEF KnownInv, ControlInv
<1> QED
  BY AlwaysKnown, <1>1, PTL

\* The runtime's name moves only to stored manifests, whatever crashes, failures
\* and late requests occur: the daemon implements PublishedHead.
THEOREM HeadIsDurable == Spec => DurableName
<1>1. Init => Durable!Init
  BY DEF Init, Durable!Init
<1>2. KnownInv /\ [Next]_vars => [Durable!Next]_(Durable!vars)
  <2> SUFFICES ASSUME KnownInv, [Next]_vars
               PROVE  [Durable!Next]_(Durable!vars)
    OBVIOUS
  <2> QED
    BY NameStep DEF Repointed, Durable!Next, Durable!Store, Durable!Repoint,
          Durable!vars
<1> QED
  BY AlwaysKnown, <1>1, <1>2, PTL DEF Spec, DurableName, Durable!Spec

\* While the last pin call succeeded the head is pinned.
THEOREM HeadIsPinned == Spec => []PinFollowsHead
<1>1. PinInv /\ [Next]_vars => PinInv'
  BY ControlStep, PinStep DEF PinInv
<1>2. PinInv => PinFollowsHead
  BY DEF PinInv
<1> QED
  BY InitInv, <1>1, <1>2, PTL DEF Spec

\* An acknowledged shutdown publish shows the saved head until it is overtaken.
THEOREM StopIsClean == Spec => []CleanStop
<1>1. StopInv /\ [Next]_vars => StopInv'
  BY ControlStep, StopStep DEF StopInv
<1>2. StopInv => CleanStop
  BY DEF StopInv, StopShown, CleanStop, ControlInv, Control
<1> QED
  BY InitInv, <1>1, <1>2, PTL DEF Spec

\* A skipped tick had nothing to do, unless an attempt failed or a request that was
\* not the task's own came between.
THEOREM SkippingIsSound == Spec => []SkipIsSound
<1>1. SkipInv /\ [Next]_vars => SkipInv'
  BY ControlStep, SkipStep DEF SkipInv
<1>2. SkipInv => SkipIsSound
  BY DEF SkipInv, Undisturbed, Shows, SkipIsSound
<1> QED
  BY InitInv, <1>1, <1>2, PTL DEF Spec

----
(* What Converges needs besides fairness *)

\* No request under way leads away from the head.
Harmless ==
    /\ head # NoCid
    /\ bootDoc \in {NoCid, head}
    /\ late \subseteq {<<"did", head>>, <<"runtime", head>>}

\* Nor does the task's attempt, which has moved the names as far as it has come.
Settling ==
    /\ Harmless
    /\ pub.pc # "idle" => pub.cid = head
    /\ pub.pc = "did" => ~pub.didOk
    /\ pub.pc = "key" => ~pub.landed
    /\ pub.pc = "did" /\ pub.landed => names.did = head
    /\ pub.pc \in {"key", "runtime"} /\ pub.didOk => names.did = head
    /\ pub.pc = "runtime" /\ pub.landed => names.runtime = head

Settled == Settling /\ names.did = head /\ names.runtime = head

\* Whatever settles a name that leads elsewhere is not harmless.
LEMMA HarmlessStep ==
    ASSUME ControlInv, Settling, [Next]_vars, head' = head
    PROVE  Settling' /\ (Settled => Settled')
<1> USE CidsAssumption DEF ControlInv, TypeOK, KuboTypes, ProcTypes, Control, Roots, Running,
        Settling, Settled, Harmless
<1>1. CASE Start
  BY <1>1 DEF Start, kuboVars
<1>2. CASE BootOverride \/ BootFromIpns
  BY <1>2 DEF BootOverride, BootFromIpns, kuboVars, auxVars
<1>3. CASE BootMinimal
  BY <1>3 DEF BootMinimal
<1>4. CASE BootRefused
  BY <1>4 DEF BootRefused, Exit, BootOutstanding, IdlePub
<1>5. CASE Crash
  BY <1>5 DEF Crash
<1>6. ASSUME NEW c \in Cids, WritePut(c) PROVE Settling' /\ (Settled => Settled')
  BY <1>6 DEF WritePut
<1>7. CASE WriteCommit
  BY <1>7 DEF WriteCommit
<1>8. CASE Shutdown \/ SaveFails
  BY <1>8 DEF Shutdown, SaveFails, kuboVars, auxVars
<1>9. CASE StopKey \/ StopAck
  BY <1>9 DEF StopKey, StopAck, kuboVars, auxVars
<1>10. CASE StopLand
  BY <1>10 DEF StopLand, auxVars
<1>11. CASE StopFails
  BY <1>11 DEF StopFails, StopOutstanding
<1>12. CASE Close
  BY <1>12 DEF Close, Exit, PubOutstanding, BootOutstanding, IdlePub
<1>13. CASE PubTick
  BY <1>13 DEF PubTick, IdlePub, kuboVars
<1>14. CASE PubLand
  BY <1>14 DEF PubLand, auxVars
<1>15. CASE PubDid
  <2>1. names' = names /\ bootDoc' = bootDoc /\ pub.pc = "did" /\ pub.cid = head
    BY <1>15 DEF PubDid
  <2>2. /\ pub'.pc = "key" /\ pub'.cid = head /\ ~pub'.landed
        /\ pub'.didOk => names.did = head
        /\ late' \in {late, late \union {<<"did", head>>}}
    BY <1>15, <2>1, PubDidEffect
  <2>3. Harmless'
    BY <2>1, <2>2
  <2> QED
    BY <2>1, <2>2, <2>3
<1>16. CASE PubKey
  BY <1>16 DEF PubKey, auxVars
<1>17. CASE PubRuntime
  BY <1>17 DEF PubRuntime, PubOutstanding, IdlePub
<1>18. CASE WarmElapses
  BY <1>18 DEF WarmElapses, kuboVars, auxVars
<1>19. CASE BootDocSettles
  BY <1>19 DEF BootDocSettles, BootOutstanding
<1>20. CASE LateSettles
  BY <1>20 DEF LateSettles
<1>21. CASE UNCHANGED vars
  BY <1>21 DEF vars, kuboVars, procVars
<1> QED
  BY <1>1, <1>2, <1>3, <1>4, <1>5, <1>6, <1>7, <1>8, <1>9, <1>10, <1>11, <1>12, <1>13,
     <1>14, <1>15, <1>16, <1>17, <1>18, <1>19, <1>20, <1>21
  DEF Next, Daemon, Kubo, Boot

\* While the head stays what it is and nothing under way leads elsewhere, an attempt of
\* the periodic task whose two publishes succeed leaves both names on the head, whatever
\* else fails, lands late or starts again meanwhile. Before an attempt (pub.pc = "idle")
\* Settling says no more than that nothing leads elsewhere (main.rs's periodic task).
THEOREM AttemptsSettle ==
    Spec => [][Settling /\ head' = head =>
                  /\ Settling'
                  /\ pub.pc = "runtime" /\ pub.landed /\ pub.didOk => Settled]_vars
<1>1. ASSUME ControlInv, [Next]_vars, Settling, head' = head
      PROVE  /\ Settling'
             /\ pub.pc = "runtime" /\ pub.landed /\ pub.didOk => Settled
  BY <1>1, HarmlessStep DEF Settling, Settled
<1> QED
  BY AlwaysKnown, <1>1, PTL DEF Spec, KnownInv

\* Once they are there, only a new head takes the names off it: no failure, no late
\* request and no shutdown does.
THEOREM SettledStays == Spec => [][Settled /\ head' = head => Settled']_vars
<1>1. ASSUME ControlInv, [Next]_vars, Settled, head' = head
      PROVE  Settled'
  BY <1>1, HarmlessStep DEF Settled
<1> QED
  BY AlwaysKnown, <1>1, PTL DEF Spec, KnownInv

----
(* Only heads are published *)

\* Every head there has been, in this process and in those before it.
VARIABLE heads

HInit == Init /\ heads = {head}
HNext == Next /\ heads' = heads \union {head'}
HSpec == HInit /\ [][HNext]_<<vars, heads>>

\* What a name shows, or may come to show by a request already made, was a head once.
OnlyHeads ==
    /\ names.runtime \in heads \union {NoCid}
    /\ names.did \in heads \union {NoCid, Bare}

OnlyHeadsAsked ==
    /\ head \in heads
    /\ pub.cid \in heads \union {NoCid}
    /\ bootDoc \in heads \union {NoCid, Bare}
    /\ \A r \in late : r[2] \in heads \/ (r[1] = "did" /\ r[2] = Bare)

HeadsInv == ControlInv /\ OnlyHeads /\ OnlyHeadsAsked

\* A step publishes what was asked for, and asks for the head.
LEMMA HeadsStep ==
    ASSUME HeadsInv, HNext
    PROVE  OnlyHeads' /\ OnlyHeadsAsked'
<1> USE CidsAssumption DEF HeadsInv, OnlyHeads, OnlyHeadsAsked, TypeOK, KuboTypes, ProcTypes,
        Control, ControlInv, Roots, Running
<1>0. heads' = heads \union {head'}
  BY DEF HNext
<1>1. CASE Start
  BY <1>0, <1>1 DEF Start, kuboVars
<1>2. CASE BootOverride \/ BootFromIpns
  BY <1>0, <1>2 DEF BootOverride, BootFromIpns, kuboVars
<1>3. CASE BootMinimal
  BY <1>0, <1>3 DEF BootMinimal
<1>4. CASE BootRefused
  BY <1>0, <1>4 DEF BootRefused, Exit, BootOutstanding, IdlePub
<1>5. CASE Crash
  BY <1>0, <1>5 DEF Crash, Exit, PubOutstanding, StopOutstanding, BootOutstanding,
        IdlePub
<1>6. ASSUME NEW c \in Cids, WritePut(c) PROVE OnlyHeads' /\ OnlyHeadsAsked'
  BY <1>0, <1>6 DEF WritePut
<1>7. CASE WriteCommit
  BY <1>0, <1>7 DEF WriteCommit
<1>8. CASE Shutdown \/ SaveFails
  BY <1>0, <1>8 DEF Shutdown, SaveFails, kuboVars
<1>9. CASE StopKey \/ StopAck
  BY <1>0, <1>9 DEF StopKey, StopAck, kuboVars
<1>10. CASE StopLand
  BY <1>0, <1>10 DEF StopLand
<1>11. CASE StopFails
  BY <1>0, <1>11 DEF StopFails, StopOutstanding
<1>12. CASE Close
  BY <1>0, <1>12 DEF Close, Exit, PubOutstanding, BootOutstanding, IdlePub
<1>13. CASE PubTick
  BY <1>0, <1>13 DEF PubTick, IdlePub, kuboVars
<1>14. CASE PubLand
  BY <1>0, <1>14 DEF PubLand
<1>15. CASE PubDid
  <2>1. UNCHANGED <<names, head, bootDoc>> /\ pub.cid # NoCid
    BY <1>15 DEF PubDid
  <2>2. pub'.cid = pub.cid /\ late' \in {late, late \union {<<"did", pub.cid>>}}
    BY <1>15, PubDidEffect
  <2> QED
    BY <1>0, <2>1, <2>2
<1>16. CASE PubKey
  BY <1>0, <1>16 DEF PubKey
<1>17. CASE PubRuntime
  <2>1. UNCHANGED <<names, head, bootDoc>> /\ pub'.cid = NoCid /\ pub.pc # "idle"
    BY <1>17 DEF PubRuntime, IdlePub
  <2>2. late' \in {late, late \union PubOutstanding}
    BY <1>17 DEF PubRuntime
  <2>3. PubOutstanding \subseteq {<<pub.pc, pub.cid>>} /\ pub.cid \in heads
    BY <2>1 DEF PubOutstanding
  <2> QED
    BY <1>0, <2>1, <2>2, <2>3
<1>18. CASE WarmElapses
  BY <1>0, <1>18 DEF WarmElapses, kuboVars
<1>19. CASE BootDocSettles
  BY <1>0, <1>19 DEF BootDocSettles, BootOutstanding
<1>20. CASE LateSettles
  BY <1>0, <1>20 DEF LateSettles
<1> QED
  BY <1>1, <1>2, <1>3, <1>4, <1>5, <1>6, <1>7, <1>8, <1>9, <1>10, <1>11, <1>12, <1>13,
     <1>14, <1>15, <1>16, <1>17, <1>18, <1>19, <1>20
  DEF HNext, Next, Daemon, Kubo, Boot

\* A manifest that was stored but did not become the head is never what a name shows,
\* whatever crashes, fails or lands late between the two; so a restart takes up a
\* manifest that was the head of this or an earlier process (with_manifest_crud,
\* save_all_entity_states, the periodic task and the start of main.rs).
THEOREM OnlyHeadsAreNamed == HSpec => []OnlyHeads
<1>1. HInit => HeadsInv
  BY InitInv DEF HInit, Init, IdlePub, HeadsInv, OnlyHeads, OnlyHeadsAsked, KnownInv
<1>2. ASSUME HeadsInv, [HNext]_<<vars, heads>>
      PROVE  HeadsInv'
  <2>1. CASE HNext
    BY <1>2, <2>1, ControlStep, HeadsStep DEF HNext, HeadsInv
  <2>2. CASE UNCHANGED <<vars, heads>>
    <3>1. ControlInv'
      BY <1>2, <2>2, ControlStep DEF HeadsInv
    <3> QED
      BY <1>2, <2>2, <3>1 DEF HeadsInv, OnlyHeads, OnlyHeadsAsked, vars, kuboVars, procVars
  <2> QED
    BY <1>2, <2>1, <2>2
<1>3. HeadsInv => OnlyHeads
  BY DEF HeadsInv
<1> QED
  BY <1>1, <1>2, <1>3, PTL DEF HSpec

====
