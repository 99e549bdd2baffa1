---- MODULE PluginState_proofs ----
(***************************************************************************)
(* Proofs about PluginState, for any set of states and of scheduled jobs   *)
(* and any bounds.                                                         *)
(*                                                                         *)
(* OnItsWay follows a state from the plugin to IPFS: as long as no call    *)
(* fails it is stored, queued, or in the hands of a dispatch, and what is  *)
(* queued has a dispatch that is still to take it. CatchingUp does so for  *)
(* the shutdown branch, from trigger_save to the link.                     *)
(***************************************************************************)
EXTENDS PluginState, TLAPS

\* Who is at which step: the mutex, and what a dispatch adds.
Backed ==
    /\ PersistedIsStored
    /\ \A t \in Tasks : mode # "down" => (holder = t <=> task[t].pc = "calling")
    /\ \A t \in Tasks : task[t].pc = "adding" => task[t].bytes # NoBytes

OnItsWay ==
    mode # "down" /\ ~slipped =>
        /\ pending # NoBytes => \E t \in Tasks : task[t].pc \in {"calling", "called"}
        /\ writes > 0 /\ ~robbed =>
             \/ live \in stored
             \/ live = pending
             \/ \E t \in Tasks : task[t].pc = "adding" /\ task[t].bytes = live

CatchingUp ==
    /\ mode # "down" => ~clean
    /\ mode = "saving" => task[Loop].pc \notin {"calling", "asked"}
    /\ mode = "saving" /\ quiet => \A j \in Jobs : task[j].pc = "idle"
    /\ mode = "saving" /\ quiet /\ behind =>
         /\ task[Loop].pc = "idle" => live # persisted
         /\ task[Loop].pc = "called" => pending = live
         /\ task[Loop].pc = "adding" => task[Loop].bytes = live
    /\ ShutdownCatchesUp

Inv == TypeOK /\ Backed /\ OnItsWay /\ CatchingUp

----
\* Types survive every step.
LEMMA TypeStep ==
    ASSUME TypeOK, Backed, [Next]_vars
    PROVE  TypeOK'
<1> USE PluginStateAssumption DEF TypeOK, Backed, Tasks, Bytes, Steps
<1>1. CASE Start
  <2>1. task' \in [Tasks -> [pc : Steps, bytes : Bytes]]
    BY <1>1 DEF Start, Resting
  <2>2. live' \in States /\ persisted' \in Bytes /\ faults' \in Nat
    BY <1>1 DEF Start, Restored
  <2>3. /\ mode' = "up" /\ starts' \in Nat /\ writes' = 0
        /\ pending' = NoBytes /\ holder' = Nobody
        /\ slipped' = FALSE /\ robbed' = FALSE /\ quiet' = TRUE /\ behind' = FALSE /\ clean' = FALSE
        /\ stored' = stored /\ link' = link
    BY <1>1 DEF Start
  <2> QED
    BY <2>1, <2>2, <2>3
<1>2. CASE Crash
  BY <1>2 DEF Crash, context, auxVars
<1>3. CASE Shutdown
  BY <1>3 DEF Shutdown, context, Resting
<1>4. ASSUME NEW t \in Tasks, Call(t) PROVE TypeOK'
  BY <1>4 DEF Call, Noticed
<1>5. ASSUME NEW t \in Tasks, NEW v \in States, SetState(t, v)
      PROVE  TypeOK'
  BY <1>5 DEF SetState, Queued
<1>6. ASSUME NEW t \in Tasks, Return(t) PROVE TypeOK'
  BY <1>6 DEF Return, auxVars
<1>7. ASSUME NEW t \in Tasks, Trap(t) PROVE TypeOK'
  BY <1>7 DEF Trap, Slip, Resting
<1>8. ASSUME NEW t \in Tasks, Take(t) PROVE TypeOK'
  BY <1>8 DEF Take, AfterTake, Resting, auxVars
<1>9. ASSUME NEW t \in Tasks, Added(t) PROVE TypeOK'
  BY <1>9 DEF Added, Saved, Resting, auxVars
<1>10. ASSUME NEW t \in Tasks, AddFails(t) PROVE TypeOK'
  BY <1>10 DEF AddFails, Slip, Dropped, Resting
<1>11. CASE Ask
  BY <1>11 DEF Ask, auxVars
<1>12. CASE TakeForQuery
  BY <1>12 DEF TakeForQuery, AfterTake, Resting
<1>13. CASE SaveCall
  BY <1>13 DEF SaveCall, SaveQueued, Queued, auxVars
<1>14. CASE SaveTake
  <2>1. task' \in [Tasks -> [pc : Steps, bytes : Bytes]]
    BY <1>14 DEF SaveTake, Resting
  <2> QED
    BY <1>14, <2>1 DEF SaveTake
<1>15. CASE SaveLink
  BY <1>15 DEF SaveLink, Resting
<1>16. CASE SaveFails
  BY <1>16 DEF SaveFails, Slip, context
<1>17. CASE UNCHANGED vars
  BY <1>17 DEF vars, context, auxVars
<1> QED
  BY <1>1, <1>2, <1>3, <1>4, <1>5, <1>6, <1>7, <1>8, <1>9, <1>10, <1>11, <1>12, <1>13, <1>14, <1>15, <1>16, <1>17 DEF Next, Dispatch

\* So does what connects the mutex, the dispatches and IPFS.
LEMMA BackedStep ==
    ASSUME TypeOK, Backed, CatchingUp, [Next]_vars
    PROVE  Backed'
<1> USE PluginStateAssumption
    DEF TypeOK, Backed, PersistedIsStored, CatchingUp, Tasks, Bytes, Steps
<1>1. CASE Start
  <2>1. \A t \in Tasks : task'[t].pc = "idle"
    BY <1>1 DEF Start, Resting
  <2>2. PersistedIsStored'
    BY <1>1 DEF Start
  <2> QED
    BY <1>1, <2>1, <2>2 DEF Start
<1>2. CASE Crash
  BY <1>2 DEF Crash, context, auxVars
<1>3. CASE Shutdown
  BY <1>3 DEF Shutdown, context, Resting
<1>4. ASSUME NEW t \in Tasks, Call(t) PROVE Backed'
  BY <1>4 DEF Call, Noticed
<1>5. ASSUME NEW t \in Tasks, NEW v \in States, SetState(t, v)
      PROVE  Backed'
  BY <1>5 DEF SetState, Queued
<1>6. ASSUME NEW t \in Tasks, Return(t) PROVE Backed'
  BY <1>6 DEF Return, auxVars
<1>7. ASSUME NEW t \in Tasks, Trap(t) PROVE Backed'
  BY <1>7 DEF Trap, Slip, Resting
<1>8. ASSUME NEW t \in Tasks, Take(t) PROVE Backed'
  BY <1>8 DEF Take, AfterTake, Resting, auxVars
<1>9. ASSUME NEW t \in Tasks, Added(t) PROVE Backed'
  BY <1>9 DEF Added, Saved, Resting, auxVars
<1>10. ASSUME NEW t \in Tasks, AddFails(t) PROVE Backed'
  BY <1>10 DEF AddFails, Slip, Dropped, Resting
<1>11. CASE Ask
  BY <1>11 DEF Ask, auxVars
<1>12. CASE TakeForQuery
  BY <1>12 DEF TakeForQuery, AfterTake, Resting
<1>13. CASE SaveCall
  BY <1>13 DEF SaveCall, SaveQueued, Queued, auxVars
<1>14. CASE SaveTake
  BY <1>14 DEF SaveTake, Resting
<1>15. CASE SaveLink
  BY <1>15 DEF SaveLink, Resting
<1>16. CASE SaveFails
  BY <1>16 DEF SaveFails, Slip, context
<1>17. CASE UNCHANGED vars
  BY <1>17 DEF vars, context, auxVars
<1> QED
  BY <1>1, <1>2, <1>3, <1>4, <1>5, <1>6, <1>7, <1>8, <1>9, <1>10, <1>11, <1>12, <1>13, <1>14, <1>15, <1>16, <1>17 DEF Next, Dispatch

\* A state on its way stays on its way until it is stored.
LEMMA WayStep ==
    ASSUME TypeOK, Backed, OnItsWay, [Next]_vars
    PROVE  OnItsWay'
<1> USE PluginStateAssumption
    DEF TypeOK, Backed, PersistedIsStored, OnItsWay, Tasks, Bytes
<1>1. CASE Start
  BY <1>1 DEF Start, Restored
<1>2. CASE Crash
  BY <1>2 DEF Crash, context, auxVars
<1>3. CASE Shutdown
  BY <1>3 DEF Shutdown, context, Resting
<1>4. ASSUME NEW t \in Tasks, Call(t) PROVE OnItsWay'
  BY <1>4 DEF Call, Noticed
<1>5. ASSUME NEW t \in Tasks, NEW v \in States, SetState(t, v)
      PROVE  OnItsWay'
  BY <1>5 DEF SetState, Queued
<1>6. ASSUME NEW t \in Tasks, Return(t) PROVE OnItsWay'
  BY <1>6 DEF Return, auxVars
<1>7. ASSUME NEW t \in Tasks, Trap(t) PROVE OnItsWay'
  BY <1>7 DEF Trap, Slip, Resting
<1>8. ASSUME NEW t \in Tasks, Take(t) PROVE OnItsWay'
  BY <1>8 DEF Take, AfterTake, Resting, auxVars
<1>9. ASSUME NEW t \in Tasks, Added(t) PROVE OnItsWay'
  BY <1>9 DEF Added, Saved, Resting, auxVars
<1>10. ASSUME NEW t \in Tasks, AddFails(t) PROVE OnItsWay'
  BY <1>10 DEF AddFails, Slip, Dropped, Resting
<1>11. CASE Ask
  BY <1>11 DEF Ask, auxVars
<1>12. CASE TakeForQuery
  BY <1>12 DEF TakeForQuery, AfterTake, Resting
<1>13. CASE SaveCall
  BY <1>13 DEF SaveCall, SaveQueued, Queued, auxVars
<1>14. CASE SaveTake
  BY <1>14 DEF SaveTake, Resting
<1>15. CASE SaveLink
  BY <1>15 DEF SaveLink, Resting
<1>16. CASE SaveFails
  BY <1>16 DEF SaveFails, Slip, context
<1>17. CASE UNCHANGED vars
  BY <1>17 DEF vars, context, auxVars
<1> QED
  BY <1>1, <1>2, <1>3, <1>4, <1>5, <1>6, <1>7, <1>8, <1>9, <1>10, <1>11, <1>12, <1>13, <1>14, <1>15, <1>16, <1>17 DEF Next, Dispatch

\* The shutdown branch carries a state that is behind to the link.
LEMMA CatchStep ==
    ASSUME TypeOK, Backed, CatchingUp, [Next]_vars
    PROVE  CatchingUp'
<1> USE PluginStateAssumption
    DEF TypeOK, Backed, CatchingUp, ShutdownCatchesUp, Tasks, Bytes
<1>1. CASE Start
  BY <1>1 DEF Start, Restored
<1>2. CASE Crash
  BY <1>2 DEF Crash, context, auxVars
<1>3. CASE Shutdown
  BY <1>3 DEF Shutdown, context, Resting
<1>4. ASSUME NEW t \in Tasks, Call(t) PROVE CatchingUp'
  BY <1>4 DEF Call, Noticed
<1>5. ASSUME NEW t \in Tasks, NEW v \in States, SetState(t, v)
      PROVE  CatchingUp'
  BY <1>5 DEF SetState, Queued
<1>6. ASSUME NEW t \in Tasks, Return(t) PROVE CatchingUp'
  BY <1>6 DEF Return, auxVars
<1>7. ASSUME NEW t \in Tasks, Trap(t) PROVE CatchingUp'
  BY <1>7 DEF Trap, Slip, Resting
<1>8. ASSUME NEW t \in Tasks, Take(t) PROVE CatchingUp'
  BY <1>8 DEF Take, AfterTake, Resting, auxVars
<1>9. ASSUME NEW t \in Tasks, Added(t) PROVE CatchingUp'
  BY <1>9 DEF Added, Saved, Resting, auxVars
<1>10. ASSUME NEW t \in Tasks, AddFails(t) PROVE CatchingUp'
  BY <1>10 DEF AddFails, Slip, Dropped, Resting
<1>11. CASE Ask
  BY <1>11 DEF Ask, auxVars
<1>12. CASE TakeForQuery
  BY <1>12 DEF TakeForQuery, AfterTake, Resting
<1>13. CASE SaveCall
  BY <1>13 DEF SaveCall, SaveQueued, Queued, auxVars
<1>14. CASE SaveTake
  BY <1>14 DEF SaveTake, Resting
<1>15. CASE SaveLink
  BY <1>15 DEF SaveLink, Resting
<1>16. CASE SaveFails
  BY <1>16 DEF SaveFails, Slip, context
<1>17. CASE UNCHANGED vars
  BY <1>17 DEF vars, context, auxVars
<1> QED
  BY <1>1, <1>2, <1>3, <1>4, <1>5, <1>6, <1>7, <1>8, <1>9, <1>10, <1>11, <1>12, <1>13, <1>14, <1>15, <1>16, <1>17 DEF Next, Dispatch

LEMMA InitInv == Init => Inv
<1> SUFFICES ASSUME Init PROVE Inv
  OBVIOUS
<1>1. task \in [Tasks -> [pc : Steps, bytes : Bytes]]
  BY DEF Init, Resting, Bytes, Steps
<1>2. TypeOK
  BY <1>1, PluginStateAssumption DEF Init, TypeOK, Bytes
<1>3. \A t \in Tasks : task[t].pc = "idle"
  BY DEF Init, Resting
<1> QED
  BY <1>2, <1>3
  DEF Init, Inv, Backed, PersistedIsStored, OnItsWay, CatchingUp, ShutdownCatchesUp

\* The inductive invariant holds throughout.
LEMMA Always == Spec => []Inv
<1>1. Inv /\ [Next]_vars => Inv'
  BY TypeStep, BackedStep, WayStep, CatchStep DEF Inv
<1> QED
  BY InitInv, <1>1, PTL DEF Spec

----
\* Every variable keeps its type, for any number of jobs: no missing state is ever
\* taken for one (EntityPlugin::load, mark_saved, save_all_entity_states).
THEOREM TypeCorrect == Spec => []TypeOK
  BY Always, PTL DEF Inv

\* The baseline of change detection and the link of the entity node always name
\* bytes that IPFS has (mark_saved only after ipfs_add).
THEOREM BaselineIsStored == Spec => []PersistedIsStored
  BY Always, PTL DEF Inv, Backed

\* When all dispatches have ended, none failed and no query came between, the plugin's state is in IPFS.
THEOREM StateIsStored == Spec => []DispatchesStore
<1>1. Inv => DispatchesStore
  BY PluginStateAssumption
  DEF Inv, TypeOK, OnItsWay, DispatchesStore, AtRest, Resting, Tasks, Bytes
<1> QED
  BY Always, <1>1, PTL

\* Nor is anything left in the queue then.
THEOREM QueueIsEmptied == Spec => []NothingLeftQueued
<1>1. Inv => NothingLeftQueued
  BY DEF Inv, OnItsWay, NothingLeftQueued, AtRest, Resting
<1> QED
  BY Always, <1>1, PTL

\* An undisturbed shutdown links the state it found to be behind.
THEOREM ShutdownLinks == Spec => []ShutdownCatchesUp
  BY Always, PTL DEF Inv, CatchingUp

----
(* What a shutdown links *)

\* A shutdown that found the state persisted has nothing to save: what is not queued
\* when no dispatch is at work (OnItsWay) is not queued by save_state either.
NothingToSave ==
    mode = "saving" /\ quiet /\ ~behind /\ ~slipped =>
        /\ live = persisted
        /\ task[Loop].pc \in {"idle", "called"}
        /\ task[Loop].pc = "called" => pending = NoBytes

LEMMA NothingStep ==
    ASSUME Inv, NothingToSave, [Next]_vars
    PROVE  NothingToSave'
<1> USE PluginStateAssumption
    DEF Inv, TypeOK, Backed, OnItsWay, CatchingUp, NothingToSave, Tasks, Bytes
<1>1. CASE Start
  BY <1>1 DEF Start
<1>2. CASE Crash
  BY <1>2 DEF Crash, context, auxVars
<1>3. CASE Shutdown
  <2>1. behind' \/ live' = persisted'
    BY <1>3 DEF Shutdown, context
  <2>2. task'[Loop].pc = "idle"
    BY <1>3 DEF Shutdown, context, Resting
  <2> QED
    BY <2>1, <2>2
<1>4. ASSUME NEW t \in Tasks, Call(t) PROVE NothingToSave'
  BY <1>4 DEF Call, Noticed
<1>5. ASSUME NEW t \in Tasks, NEW v \in States, SetState(t, v)
      PROVE  NothingToSave'
  BY <1>5 DEF SetState, Queued
<1>6. ASSUME NEW t \in Tasks, Return(t) PROVE NothingToSave'
  BY <1>6 DEF Return, auxVars
<1>7. ASSUME NEW t \in Tasks, Trap(t) PROVE NothingToSave'
  BY <1>7 DEF Trap, Slip
<1>8. ASSUME NEW t \in Tasks, Take(t) PROVE NothingToSave'
  BY <1>8 DEF Take, AfterTake, Resting, auxVars
<1>9. ASSUME NEW t \in Tasks, Added(t) PROVE NothingToSave'
  BY <1>9 DEF Added, Saved, Resting, auxVars
<1>10. ASSUME NEW t \in Tasks, AddFails(t) PROVE NothingToSave'
  BY <1>10 DEF AddFails, Slip
<1>11. CASE Ask \/ TakeForQuery
  BY <1>11 DEF Ask, TakeForQuery, auxVars
<1>12. CASE SaveCall
  <2>1. mode = "saving" /\ quiet /\ ~slipped => pending = NoBytes
    BY <1>12 DEF SaveCall
  <2> QED
    BY <1>12, <2>1 DEF SaveCall, SaveQueued, Queued, auxVars
<1>13. CASE SaveTake \/ SaveLink
  BY <1>13 DEF SaveTake, SaveLink
<1>14. CASE SaveFails
  BY <1>14 DEF SaveFails, Slip
<1>15. CASE UNCHANGED vars
  BY <1>15 DEF vars, context, auxVars
<1> QED
  BY <1>1, <1>2, <1>3, <1>4, <1>5, <1>6, <1>7, <1>8, <1>9, <1>10, <1>11, <1>12, <1>13,
     <1>14, <1>15
  DEF Next, Dispatch

\* When no call failed and no job was at work, the node's link moves only to the plugin's
\* state, and only if that was not persisted when the shutdown began. So a state that a
\* dispatch has stored last stays unlinked in every such process, however many dispatches,
\* and not only in the one the violated StateSurvivesShutdown shows (trigger_save,
\* save_all_entity_states).
THEOREM OnlyBehindIsLinked ==
    Spec => [][quiet /\ ~slipped /\ link' # link => behind /\ link' = live]_vars
<1>1. Init => NothingToSave
  BY DEF Init, NothingToSave
<1>2. ASSUME Inv, NothingToSave, [Next]_vars, quiet, ~slipped, link' # link
      PROVE  behind /\ link' = live
  <2>1. SaveLink
    BY <1>2 DEF Next, Dispatch, Start, Crash, Shutdown, Call, SetState, Return, Trap, Take,
       Added, AddFails, Ask, TakeForQuery, SaveCall, SaveTake, SaveFails, vars
  <2> QED
    BY <1>2, <2>1 DEF SaveLink, NothingToSave, Inv, TypeOK, CatchingUp
<1> QED
  BY Always, NothingStep, <1>1, <1>2, PTL DEF Spec

====
