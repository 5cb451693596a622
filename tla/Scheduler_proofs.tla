-------------------------- MODULE Scheduler_proofs --------------------------
(***************************************************************************)
(* What Scheduler.tla promises, for every number of reference edges and    *)
(* every pool size.                                                        *)
(***************************************************************************)
EXTENDS Scheduler, FiniteSetTheorems, TLAPS

(***************************************************************************)
(* The inductive invariant, in parts.                                      *)
(***************************************************************************)

(* Points at which the callback in service has not counted its spark yet.  *)
BeforeCount == {"fire", "fire_off", "fire_count"}

(* An alarm outstanding or in service belongs to a cycle already begun,    *)
(* and a fire event still to be counted belongs to a cycle without spark.  *)
TagsFresh ==
  /\ \A e \in Events : pool[e] \subseteq 1 .. cycle_id
  /\ sparked \subseteq 1 .. cycle_id
  /\ pool["fire"] \cap sparked = {}
  /\ pc \in BeforeCount =>
        tag \in 1 .. cycle_id /\ tag \notin sparked /\ tag \notin pool["fire"]

CountExact == spark_count = Cardinality(sparked)

(* What the coil may be at the points that matter.                         *)
CoilAtPoints ==
  /\ pc = "fire_count" => ~coil
  /\ pc = "c_mode" => ~coil
  /\ pc = "dwell_charge" => ignition_mode # "INHIBIT"
  /\ cut => ~coil /\ ignition_mode = "INHIBIT"

IInv == TypeOK /\ TagsFresh /\ CountExact /\ CoilAtPoints

-----------------------------------------------------------------------------
(* The variables keep their types: an alarm id is -1 or the cycle of a     *)
(* reference edge that was seen, and no handler leaves its code.           *)
LEMMA TypeInit == Init => TypeOK
<1> SUFFICES ASSUME Init PROVE TypeOK
  OBVIOUS
<1>1. 0 \in 0 .. MaxCycle /\ 0 \in 0 .. MaxArmed
  BY SchedulerAssumption DEF MaxArmed
<1>2. /\ armed \in [Events -> BOOLEAN]
      /\ alarm_id \in [Events -> CycleIds \cup {NoAlarm}]
      /\ pool \in [Events -> SUBSET CycleIds]
  BY DEF Init
<1>3. pc \in Pcs /\ ignition_mode \in Modes
  BY DEF Init, Pcs, Modes
<1> QED
  BY <1>1, <1>2, <1>3 DEF Init, TypeOK

LEMMA KeptType ==
  ASSUME TypeOK, NEW e \in Events
  PROVE  /\ Kept(e) \subseteq pool[e]
         /\ IdAfterCancel(e) \in CycleIds \cup {NoAlarm}
BY DEF TypeOK, Kept, IdAfterCancel

LEMMA TypeReference == TypeOK /\ ReferenceEdge => TypeOK'
<1> SUFFICES ASSUME TypeOK, ReferenceEdge PROVE TypeOK'
  OBVIOUS
<1>0. cycle_id + 1 \in CycleIds /\ cycle_id + 1 \in 0 .. MaxArmed
  BY SchedulerAssumption DEF TypeOK, ReferenceEdge, CycleIds, MaxArmed
<1>1. /\ armed' \in [Events -> BOOLEAN]
      /\ alarm_id' \in [Events -> CycleIds \cup {NoAlarm}]
      /\ pool' \in [Events -> SUBSET CycleIds]
      /\ coil' \in BOOLEAN
  <2>1. CASE ArmNothing
    BY <2>1, KeptType DEF ArmNothing, TypeOK
  <2>2. CASE ArmPair(cycle_id + 1)
    BY <2>2, <1>0, KeptType DEF ArmPair, TypeOK
  <2>3. CASE ArmHalf
    BY <2>3, KeptType DEF ArmHalf, TypeOK
  <2> QED
    BY <2>1, <2>2, <2>3 DEF ReferenceEdge, scheduler_arm_for_reference
<1>2. cycle_id' \in 0 .. MaxCycle
  BY <1>0 DEF ReferenceEdge, CycleIds
<1>3. armed_cycle_id' \in 0 .. MaxArmed
  BY <1>0 DEF ReferenceEdge, scheduler_arm_for_reference
<1> QED
  BY <1>1, <1>2, <1>3 DEF TypeOK, ReferenceEdge, cmd, regs

(* The forms of the alarm level's steps keep the types wherever they go.   *)
LEMMA TypeForms ==
  ASSUME TypeOK, NEW from \in Pcs, NEW to \in Pcs, NEW e \in Events
  PROVE  /\ Branch(from, to) => TypeOK'
         /\ ClearFlag(e, from, to) => TypeOK'
         /\ ClearId(e, from, to) => TypeOK'
         /\ \A c \in pool[e] : Expire(e, c, to) => TypeOK'
         /\ CancelAlarm(e, from, to) => TypeOK'
         /\ \A m \in SUBSET Modes : SetMode(from, to, m) => TypeOK'
<1> USE DEF Goto, decoder, slots, cmd, regs, hist
<1>1. Branch(from, to) => TypeOK'
  BY DEF TypeOK, Branch
<1>3. ClearFlag(e, from, to) => TypeOK'
  BY DEF TypeOK, ClearFlag
<1>4. ClearId(e, from, to) => TypeOK'
  BY DEF TypeOK, ClearId
<1>5. \A c \in pool[e] : Expire(e, c, to) => TypeOK'
  BY DEF TypeOK, Expire, CycleIds
<1>6. CancelAlarm(e, from, to) => TypeOK'
  BY KeptType DEF TypeOK, CancelAlarm
<1>7. \A m \in SUBSET Modes : SetMode(from, to, m) => TypeOK'
  BY DEF TypeOK, SetMode
<1> QED
  BY <1>1, <1>3, <1>4, <1>5, <1>6, <1>7

LEMMA TypeDwell == TypeOK /\ dwell_on_callback => TypeOK'
<1> USE DEF Events, Pcs
<1>1. TypeOK /\ DwellExpire => TypeOK'
  BY TypeForms DEF DwellExpire
<1>2. TypeOK /\ DwellTagCheck => TypeOK'
  BY TypeForms DEF DwellTagCheck
<1>3. TypeOK /\ DwellModeCheck => TypeOK'
  BY TypeForms DEF DwellModeCheck
<1>4. TypeOK /\ DwellCharge => TypeOK'
  BY DEF TypeOK, DwellCharge, SetCoil, Goto, decoder, slots, cmd, regs, hist
<1>5. TypeOK /\ DwellClearFlag => TypeOK'
  BY TypeForms DEF DwellClearFlag
<1>6. TypeOK /\ DwellClearId => TypeOK'
  BY TypeForms DEF DwellClearId
<1> QED
  BY <1>1, <1>2, <1>3, <1>4, <1>5, <1>6 DEF dwell_on_callback

LEMMA TypeFire == TypeOK /\ TagsFresh /\ fire_callback => TypeOK'
<1> USE DEF Events, Pcs
<1>1. TypeOK /\ FireExpire => TypeOK'
  BY TypeForms DEF FireExpire
<1>2. TypeOK /\ FireTagCheck => TypeOK'
  BY TypeForms DEF FireTagCheck
<1>3. TypeOK /\ FireForceOff => TypeOK'
  BY DEF TypeOK, FireForceOff, SetCoil, Goto, decoder, slots, cmd, regs, hist
<1>6. TypeOK /\ FireDrop => TypeOK'
  BY DEF TypeOK, FireDrop, SetCoil, Goto, decoder, slots, cmd, regs, hist
<1>4. TypeOK /\ (FireClearFlag \/ FireClearId) => TypeOK'
  BY TypeForms DEF FireClearFlag, FireClearId
<1>5. TypeOK /\ TagsFresh /\ FireCount => TypeOK'
  <2> SUFFICES ASSUME TypeOK, TagsFresh, FireCount PROVE TypeOK'
    OBVIOUS
  <2>1. tag \in CycleIds
    BY SchedulerAssumption
       DEF TypeOK, TagsFresh, FireCount, Goto, BeforeCount, CycleIds
  <2> QED
    BY <2>1 DEF TypeOK, FireCount, Goto, decoder, slots, cmd, regs
<1> QED
  BY <1>1, <1>2, <1>3, <1>4, <1>5, <1>6 DEF fire_callback

LEMMA TypeCancel == TypeOK /\ scheduler_cancel_all => TypeOK'
<1> USE DEF Events, Pcs
<1>1. TypeOK /\ (CancelFire \/ CancelDwell) => TypeOK'
  BY TypeForms DEF CancelFire, CancelDwell
<1>2. TypeOK /\ (CancelFireFlag \/ CancelDwellFlag) => TypeOK'
  BY TypeForms DEF CancelFireFlag, CancelDwellFlag
<1>3. TypeOK /\ (CancelFireId \/ CancelDwellId) => TypeOK'
  BY TypeForms DEF CancelFireId, CancelDwellId
<1>4. TypeOK /\ (CancelLoad \/ CancelStore) => TypeOK'
  BY SchedulerAssumption
     DEF TypeOK, CancelLoad, CancelStore, Goto, decoder, slots, cmd, regs,
         hist, MaxArmed
<1>5. TypeOK /\ CancelForceOff => TypeOK'
  BY DEF TypeOK, CancelForceOff, SetCoil, Goto, decoder, slots, cmd, regs, hist
<1> QED
  BY <1>1, <1>2, <1>3, <1>4, <1>5 DEF scheduler_cancel_all

LEMMA TypeTick == TypeOK /\ crank_soft_tick => TypeOK'
<1> USE DEF Events, Pcs
<1>1. TypeOK /\ (TickStart \/ TickCancels \/ TickProceeds \/ TickQuiet) => TypeOK'
  BY TypeForms DEF TickStart, TickCancels, TickProceeds, TickQuiet
<1>2. TypeOK /\ (TickInhibits \/ TickSetsMode) => TypeOK'
  BY TypeForms DEF TickInhibits, TickSetsMode, Modes
<1>3. TypeOK /\ (TickForgets \/ TickCommit \/ TickReset) => TypeOK'
  BY DEF TypeOK, TickForgets, TickCommit, TickReset, Goto, decoder, slots,
         cmd, regs, hist
<1> QED
  BY TypeCancel, <1>1, <1>2, <1>3 DEF crank_soft_tick

LEMMA TypeNext == TypeOK /\ TagsFresh /\ [Next]_vars => TypeOK'
<1> USE DEF decoder, slots, cmd, regs, hist
<1>1. TypeOK /\ ToothEdge => TypeOK'
  BY DEF TypeOK, ToothEdge
<1>2. TypeOK /\ Core0 => TypeOK'
  BY DEF TypeOK, Core0
<1>3. TypeOK /\ UNCHANGED vars => TypeOK'
  BY DEF TypeOK, vars
<1> QED
  BY TypeReference, TypeDwell, TypeFire, TypeTick, <1>1, <1>2, <1>3
     DEF Next, AlarmLevel

-----------------------------------------------------------------------------
(* Every spark belongs to a cycle of its own.                              *)

(* What a reference edge does to the pool: it keeps or removes alarms, and *)
(* adds only alarms of its own cycle.                                      *)
LEMMA ReferencePool ==
  ASSUME TypeOK, ReferenceEdge, NEW e \in Events
  PROVE  /\ pool'[e] \subseteq pool[e] \cup {cycle_id + 1}
         /\ coil' => coil
<1>1. CASE ArmNothing
  BY <1>1, KeptType DEF ArmNothing, TypeOK
<1>2. CASE ArmPair(cycle_id + 1)
  BY <1>2, KeptType DEF ArmPair, TypeOK
<1>3. CASE ArmHalf
  BY <1>3, KeptType DEF ArmHalf, TypeOK
<1> QED
  BY <1>1, <1>2, <1>3 DEF ReferenceEdge, scheduler_arm_for_reference

LEMMA TagsReference == TypeOK /\ TagsFresh /\ ReferenceEdge => TagsFresh'
<1> SUFFICES ASSUME TypeOK, TagsFresh, ReferenceEdge PROVE TagsFresh'
  OBVIOUS
<1>1. cycle_id' = cycle_id + 1 /\ cycle_id \in Nat
  BY SchedulerAssumption DEF ReferenceEdge, TypeOK
<1>2. sparked' = sparked /\ pc' = pc /\ tag' = tag
  BY DEF ReferenceEdge, regs
<1>3. \A e \in Events : pool'[e] \subseteq 1 .. cycle_id'
  BY <1>1, ReferencePool DEF TagsFresh
<1>4. cycle_id + 1 \notin 1 .. cycle_id
  BY <1>1
<1>5. pool'["fire"] \cap sparked = {}
  BY <1>4, ReferencePool DEF TagsFresh, Events
<1>6. sparked \subseteq 1 .. cycle_id'
  BY <1>1 DEF TagsFresh
<1>7. pc \in BeforeCount => tag \in 1 .. cycle_id' /\ tag \notin pool'["fire"]
  <2> SUFFICES ASSUME pc \in BeforeCount
               PROVE  tag \in 1 .. cycle_id' /\ tag \notin pool'["fire"]
    OBVIOUS
  <2>1. tag \in 1 .. cycle_id /\ tag \notin pool["fire"]
    BY DEF TagsFresh
  <2> QED
    BY <2>1, <1>1, <1>4, ReferencePool DEF Events
<1> QED
  BY <1>2, <1>3, <1>5, <1>6, <1>7 DEF TagsFresh

LEMMA TagsForms ==
  ASSUME TypeOK, TagsFresh, NEW from \in Pcs, NEW to \in Pcs, NEW e \in Events,
         to \in BeforeCount => from \in BeforeCount
  PROVE  /\ Branch(from, to) => TagsFresh'
         /\ ClearFlag(e, from, to) => TagsFresh'
         /\ ClearId(e, from, to) => TagsFresh'
         /\ CancelAlarm(e, from, to) => TagsFresh'
         /\ \A m \in SUBSET Modes : SetMode(from, to, m) => TagsFresh'
<1> USE DEF Goto, decoder, slots, cmd, regs, hist
<1>1. Branch(from, to) => TagsFresh'
  BY DEF TagsFresh, Branch
<1>2. ClearFlag(e, from, to) => TagsFresh'
  BY DEF TagsFresh, ClearFlag
<1>3. ClearId(e, from, to) => TagsFresh'
  BY DEF TagsFresh, ClearId
<1>4. CancelAlarm(e, from, to) => TagsFresh'
  BY KeptType DEF TypeOK, TagsFresh, CancelAlarm
<1>5. \A m \in SUBSET Modes : SetMode(from, to, m) => TagsFresh'
  BY DEF TagsFresh, SetMode
<1> QED
  BY <1>1, <1>2, <1>3, <1>4, <1>5

LEMMA TagsDwell == TypeOK /\ TagsFresh /\ dwell_on_callback => TagsFresh'
<1> USE DEF Events, Pcs, BeforeCount
<1>1. TypeOK /\ TagsFresh /\ DwellExpire => TagsFresh'
  BY DEF TypeOK, TagsFresh, DwellExpire, Expire, decoder, cmd, hist
<1>2. TypeOK /\ TagsFresh /\ (DwellTagCheck \/ DwellModeCheck) => TagsFresh'
  BY TagsForms DEF DwellTagCheck, DwellModeCheck
<1>3. TypeOK /\ TagsFresh /\ DwellCharge => TagsFresh'
  BY DEF TagsFresh, DwellCharge, SetCoil, Goto, decoder, slots, regs, hist
<1>4. TypeOK /\ TagsFresh /\ (DwellClearFlag \/ DwellClearId) => TagsFresh'
  BY TagsForms DEF DwellClearFlag, DwellClearId
<1> QED
  BY <1>1, <1>2, <1>3, <1>4 DEF dwell_on_callback

LEMMA TagsFire == TypeOK /\ TagsFresh /\ fire_callback => TagsFresh'
<1> USE DEF Events, Pcs, BeforeCount
<1>1. TypeOK /\ TagsFresh /\ FireExpire => TagsFresh'
  BY DEF TypeOK, TagsFresh, FireExpire, Expire, decoder, cmd, hist
<1>2. TypeOK /\ TagsFresh /\ FireTagCheck => TagsFresh'
  BY TagsForms DEF FireTagCheck
<1>3. TypeOK /\ TagsFresh /\ (FireForceOff \/ FireDrop) => TagsFresh'
  BY DEF TagsFresh, FireForceOff, FireDrop, SetCoil, Goto, decoder, slots,
         regs, hist
<1>4. TypeOK /\ TagsFresh /\ FireCount => TagsFresh'
  BY DEF TagsFresh, FireCount, Goto, decoder, slots, regs
<1>5. TypeOK /\ TagsFresh /\ (FireClearFlag \/ FireClearId) => TagsFresh'
  BY TagsForms DEF FireClearFlag, FireClearId
<1> QED
  BY <1>1, <1>2, <1>3, <1>4, <1>5 DEF fire_callback

LEMMA TagsTick == TypeOK /\ TagsFresh /\ crank_soft_tick => TagsFresh'
<1> USE DEF Events, Pcs, BeforeCount
<1>1. TypeOK /\ TagsFresh /\ (CancelFire \/ CancelDwell) => TagsFresh'
  BY TagsForms DEF CancelFire, CancelDwell
<1>2. TypeOK /\ TagsFresh /\ scheduler_cancel_all => TagsFresh'
  <2>1. TypeOK /\ TagsFresh
        /\ (\/ CancelFireFlag \/ CancelFireId
            \/ CancelDwellFlag \/ CancelDwellId)
        => TagsFresh'
    BY TagsForms DEF CancelFireFlag, CancelFireId, CancelDwellFlag,
                     CancelDwellId
  <2>2. TagsFresh /\ (CancelLoad \/ CancelStore) => TagsFresh'
    BY DEF TagsFresh, CancelLoad, CancelStore, Goto, decoder, slots, regs, hist
  <2>3. TagsFresh /\ CancelForceOff => TagsFresh'
    BY DEF TagsFresh, CancelForceOff, SetCoil, Goto, decoder, slots, regs, hist
  <2> QED
    BY <1>1, <2>1, <2>2, <2>3 DEF scheduler_cancel_all
<1>3. TypeOK /\ TagsFresh /\ (TickStart \/ TickCancels \/ TickProceeds \/ TickQuiet)
        => TagsFresh'
  BY TagsForms DEF TickStart, TickCancels, TickProceeds, TickQuiet
<1>4. TypeOK /\ TagsFresh /\ (TickInhibits \/ TickSetsMode) => TagsFresh'
  BY TagsForms DEF TickInhibits, TickSetsMode, Modes
<1>5. TagsFresh /\ (TickForgets \/ TickCommit \/ TickReset) => TagsFresh'
  BY DEF TagsFresh, TickForgets, TickCommit, TickReset, Goto, decoder, slots,
         regs, hist
<1> QED
  BY <1>2, <1>3, <1>4, <1>5 DEF crank_soft_tick

LEMMA TagsNext == TypeOK /\ TagsFresh /\ [Next]_vars => TagsFresh'
<1>1. TagsFresh /\ (ToothEdge \/ Core0 \/ UNCHANGED vars) => TagsFresh'
  BY DEF TagsFresh, ToothEdge, Core0, vars, decoder, slots, regs, hist
<1> QED
  BY <1>1, TagsReference, TagsDwell, TagsFire, TagsTick DEF Next, AlarmLevel

(* The count changes only with the set of cycles counted.                  *)
LEMMA CountNext ==
  TypeOK /\ TagsFresh /\ CountExact /\ [Next]_vars => CountExact'
<1> SUFFICES ASSUME TypeOK, TagsFresh, CountExact, [Next]_vars
             PROVE  CountExact'
  OBVIOUS
<1>1. CASE FireCount
  <2>1. IsFiniteSet(sparked)
    <3>1. IsFiniteSet(1 .. MaxCycle)
      BY SchedulerAssumption, FS_Interval, 1 \in Int, MaxCycle \in Int
    <3>2. sparked \in SUBSET (1 .. MaxCycle)
      BY DEF TypeOK, CycleIds
    <3> QED
      BY <3>1, <3>2, FS_Subset
  <2>2. tag \notin sparked
    BY <1>1 DEF TagsFresh, FireCount, Goto, BeforeCount
  <2>3. Cardinality(sparked \cup {tag}) = Cardinality(sparked) + 1
    BY <2>1, <2>2, FS_AddElement
  <2> QED
    BY <1>1, <2>3 DEF CountExact, FireCount
<1>2. CASE ~FireCount
  <2>1. spark_count' = spark_count /\ sparked' = sparked
    <3> USE DEF hist
    <3>1. CASE ToothEdge \/ ReferenceEdge \/ Core0 \/ UNCHANGED vars
      BY <3>1 DEF ToothEdge, ReferenceEdge, Core0, vars
    <3>2. CASE dwell_on_callback
      BY <3>2 DEF dwell_on_callback, DwellExpire, Expire, DwellTagCheck,
         DwellModeCheck, Branch, DwellCharge, SetCoil, DwellClearFlag,
         ClearFlag, DwellClearId, ClearId
    <3>3. CASE fire_callback
      BY <1>2, <3>3 DEF fire_callback, FireExpire, Expire, FireTagCheck,
         Branch, FireForceOff, FireDrop, SetCoil, FireClearFlag, ClearFlag,
         FireClearId, ClearId
    <3>4. CASE scheduler_cancel_all
      BY <3>4 DEF scheduler_cancel_all, CancelFire, CancelDwell, CancelAlarm,
         CancelFireFlag, CancelFireId, CancelDwellFlag, CancelDwellId,
         ClearFlag, ClearId, CancelLoad, CancelStore, CancelForceOff, SetCoil
    <3>5. CASE crank_soft_tick /\ ~scheduler_cancel_all
      BY <3>5 DEF crank_soft_tick, TickStart, TickCancels, TickProceeds,
         TickQuiet, Branch, TickInhibits, TickSetsMode, SetMode, TickForgets,
         TickCommit, TickReset
    <3> QED
      BY <3>1, <3>2, <3>3, <3>4, <3>5 DEF Next, AlarmLevel
  <2> QED
    BY <2>1 DEF CountExact
<1> QED
  BY <1>1, <1>2

LEMMA CoilNext == TypeOK /\ CoilAtPoints /\ [Next]_vars => CoilAtPoints'
<1> SUFFICES ASSUME TypeOK, CoilAtPoints, [Next]_vars
             PROVE  CoilAtPoints'
  OBVIOUS
<1> USE DEF CoilAtPoints, Goto, decoder, slots, cmd, regs, hist
<1>1. CASE ReferenceEdge
  BY <1>1, ReferencePool DEF ReferenceEdge, Events
<1>2. CASE ToothEdge \/ Core0 \/ UNCHANGED vars
  BY <1>2 DEF ToothEdge, Core0, vars
<1>3. CASE dwell_on_callback
  <2>1. CASE DwellExpire
    BY <2>1 DEF DwellExpire, Expire
  <2>2. CASE DwellTagCheck \/ DwellModeCheck
    BY <2>2 DEF DwellTagCheck, DwellModeCheck, Branch
  <2>3. CASE DwellCharge
    BY <2>3 DEF DwellCharge, SetCoil
  <2>4. CASE DwellClearFlag \/ DwellClearId
    BY <2>4 DEF DwellClearFlag, DwellClearId, ClearFlag, ClearId
  <2> QED
    BY <1>3, <2>1, <2>2, <2>3, <2>4 DEF dwell_on_callback
<1>4. CASE fire_callback
  <2>1. CASE FireExpire
    BY <2>1 DEF FireExpire, Expire
  <2>2. CASE FireTagCheck \/ FireCount
    BY <2>2 DEF FireTagCheck, Branch, FireCount
  <2>3. CASE FireForceOff \/ FireDrop
    BY <2>3 DEF FireForceOff, FireDrop, SetCoil
  <2>4. CASE FireClearFlag \/ FireClearId
    BY <2>4 DEF FireClearFlag, FireClearId, ClearFlag, ClearId
  <2> QED
    BY <1>4, <2>1, <2>2, <2>3, <2>4 DEF fire_callback
<1>5. CASE scheduler_cancel_all
  <2>1. ASSUME CancelForceOff PROVE CoilAtPoints'
    <3>1. coil' = FALSE /\ pc' = "c_mode"
      BY <2>1 DEF CancelForceOff, SetCoil
    <3>2. cut' = cut /\ ignition_mode' = ignition_mode
      BY <2>1 DEF CancelForceOff, SetCoil
    <3> QED
      BY <3>1, <3>2
  <2>2. CASE CancelFire \/ CancelDwell
    BY <2>2 DEF CancelFire, CancelDwell, CancelAlarm
  <2>3. CASE CancelLoad \/ CancelStore
    BY <2>3 DEF CancelLoad, CancelStore
  <2>4. CASE CancelFireFlag \/ CancelFireId \/ CancelDwellFlag \/ CancelDwellId
    BY <2>4 DEF CancelFireFlag, CancelFireId, CancelDwellFlag, CancelDwellId,
                ClearFlag, ClearId
  <2> QED
    BY <1>5, <2>1, <2>2, <2>3, <2>4 DEF scheduler_cancel_all
<1>6. CASE crank_soft_tick /\ ~scheduler_cancel_all
  <2>1. CASE TickInhibits
    <3>1. ~coil /\ coil' = coil /\ pc' = "c_reset" /\ ignition_mode' = "INHIBIT"
      BY <2>1 DEF TickInhibits, SetMode
    <3> QED
      BY <3>1
  <2>4. CASE TickSetsMode
    <3>1. coil' = coil /\ pc' = "t_quiet"
      BY <2>4 DEF TickSetsMode, SetMode
    <3>2. cut' => cut /\ ignition_mode' = "INHIBIT"
      BY <2>4 DEF TickSetsMode, SetMode
    <3> QED
      BY <3>1, <3>2
  <2>2. CASE TickStart \/ TickCancels \/ TickProceeds \/ TickQuiet
    BY <2>2 DEF TickStart, TickCancels, TickProceeds, TickQuiet, Branch
  <2>3. CASE TickForgets \/ TickCommit \/ TickReset
    BY <2>3 DEF TickForgets, TickCommit, TickReset
  <2> QED
    BY <1>6, <2>1, <2>2, <2>3, <2>4 DEF crank_soft_tick
<1> QED
  BY <1>1, <1>2, <1>3, <1>4, <1>5, <1>6 DEF Next, AlarmLevel

-----------------------------------------------------------------------------
LEMMA IInvInit == Init => IInv
<1> SUFFICES ASSUME Init PROVE IInv
  OBVIOUS
<1>1. TagsFresh
  BY DEF Init, TagsFresh, BeforeCount, Events
<1>2. CountExact
  BY FS_EmptySet DEF Init, CountExact
<1>3. CoilAtPoints
  BY DEF Init, CoilAtPoints
<1> QED
  BY <1>1, <1>2, <1>3, TypeInit DEF IInv

LEMMA IInvNext == IInv /\ [Next]_vars => IInv'
BY TypeNext, TagsNext, CountNext, CoilNext DEF IInv

(* The inductive invariant holds throughout.                               *)
THEOREM Inductive == Spec => []IInv
BY IInvInit, IInvNext, PTL DEF Spec

(* Every variable keeps its type, whatever the interleaving.               *)
THEOREM TypeCorrect == Spec => []TypeOK
<1>1. IInv => TypeOK
  BY DEF IInv
<1> QED
  BY <1>1, Inductive, PTL

(* spark_count counts distinct reference edges, so it never exceeds them:  *)
(* no preemption makes one reference edge fire twice.                      *)
THEOREM OneSparkPerReference == Spec => []AtMostOneSparkPerReference
<1>1. IInv => AtMostOneSparkPerReference
  <2> SUFFICES ASSUME IInv PROVE AtMostOneSparkPerReference
    OBVIOUS
  <2>1. cycle_id \in Nat /\ sparked \subseteq 1 .. cycle_id
    BY SchedulerAssumption DEF IInv, TypeOK, TagsFresh
  <2>2. IsFiniteSet(1 .. cycle_id) /\ Cardinality(1 .. cycle_id) = cycle_id
    <3>1. /\ IsFiniteSet(1 .. cycle_id)
          /\ Cardinality(1 .. cycle_id)
               = IF 1 > cycle_id THEN 0 ELSE cycle_id - 1 + 1
      <4>1. 1 \in Int /\ cycle_id \in Int
        BY <2>1
      <4> QED
        BY <4>1, FS_Interval
    <3> QED
      BY <3>1, <2>1
  <2>3. Cardinality(sparked) <= cycle_id
    <3>1. sparked \in SUBSET (1 .. cycle_id)
      BY <2>1
    <3> QED
      BY <3>1, <2>2, FS_Subset
  <2> QED
    BY <2>3 DEF IInv, CountExact, AtMostOneSparkPerReference
<1> QED
  BY <1>1, Inductive, PTL

(* Once ignition is cut the coil is off until a tick promotes the mode:    *)
(* alarms armed during the cut, or left over from a race, do not charge it.*)
THEOREM CutKeepsCoilOff == Spec => []CutHolds
<1>1. IInv => CutHolds
  BY DEF IInv, CoilAtPoints, CutHolds
<1> QED
  BY <1>1, Inductive, PTL

-----------------------------------------------------------------------------
(* The scheduler implements the contract: its steps are steps of           *)
(* IgnitionContract, or leave the contract's variables alone.              *)

ContractView == <<cycle_id, sparked, coil, ignition_mode>>

LEMMA ContractReference ==
  ASSUME IInv, ReferenceEdge
  PROVE  Contract!Reference
<1>1. coil' \in {coil, FALSE}
  <2>1. coil' => coil
    BY ReferencePool DEF IInv, Events
  <2>2. coil \in BOOLEAN /\ coil' \in BOOLEAN
    BY TypeReference DEF IInv, TypeOK
  <2> QED
    BY <2>1, <2>2
<1>2. cycle_id' = cycle_id + 1 /\ sparked' = sparked /\ ignition_mode' = ignition_mode
  BY DEF ReferenceEdge
<1> QED
  BY <1>1, <1>2 DEF Contract!Reference

LEMMA ContractSpark ==
  ASSUME IInv, FireCount
  PROVE  Contract!Spark
<1>1. ~coil /\ tag \in (1 .. cycle_id) \ sparked
  BY DEF IInv, CoilAtPoints, TagsFresh, BeforeCount, FireCount, Goto
<1>2. sparked' = sparked \cup {tag} /\ UNCHANGED <<cycle_id, coil, ignition_mode>>
  BY DEF FireCount, decoder
<1> QED
  BY <1>1, <1>2 DEF Contract!Spark

(* The steps that the contract does not see.                               *)
LEMMA ContractStutter ==
  ASSUME \/ ToothEdge \/ Core0 \/ UNCHANGED vars
         \/ DwellExpire \/ DwellTagCheck \/ DwellModeCheck
         \/ DwellClearFlag \/ DwellClearId
         \/ FireExpire \/ FireTagCheck \/ FireClearFlag \/ FireClearId
         \/ CancelFire \/ CancelFireFlag \/ CancelFireId
         \/ CancelDwell \/ CancelDwellFlag \/ CancelDwellId
         \/ CancelLoad \/ CancelStore
         \/ TickStart \/ TickCancels \/ TickProceeds \/ TickForgets
         \/ TickQuiet \/ TickCommit \/ TickReset
  PROVE  UNCHANGED ContractView
<1> USE DEF decoder, hist, ContractView
<1>1. CASE ToothEdge \/ Core0 \/ UNCHANGED vars
  BY <1>1 DEF ToothEdge, Core0, vars
<1>2. CASE DwellExpire \/ FireExpire
  BY <1>2 DEF DwellExpire, FireExpire, Expire
<1>3. CASE \/ DwellTagCheck \/ DwellModeCheck \/ FireTagCheck
           \/ TickStart \/ TickCancels \/ TickProceeds \/ TickQuiet
  BY <1>3 DEF DwellTagCheck, DwellModeCheck, FireTagCheck, TickStart,
     TickCancels, TickProceeds, TickQuiet, Branch
<1>4. CASE \/ DwellClearFlag \/ DwellClearId \/ FireClearFlag \/ FireClearId
           \/ CancelFireFlag \/ CancelFireId \/ CancelDwellFlag \/ CancelDwellId
  BY <1>4 DEF DwellClearFlag, DwellClearId, FireClearFlag, FireClearId,
     CancelFireFlag, CancelFireId, CancelDwellFlag, CancelDwellId,
     ClearFlag, ClearId
<1>5. CASE CancelFire \/ CancelDwell \/ CancelLoad \/ CancelStore
  BY <1>5 DEF CancelFire, CancelDwell, CancelAlarm, CancelLoad, CancelStore
<1>6. CASE TickForgets \/ TickCommit \/ TickReset
  BY <1>6 DEF TickForgets, TickCommit, TickReset
<1> QED
  BY <1>1, <1>2, <1>3, <1>4, <1>5, <1>6

LEMMA ContractStep ==
  IInv /\ [Next]_vars => [Contract!CNext]_(Contract!contractVars)
<1> SUFFICES ASSUME IInv, [Next]_vars
             PROVE  Contract!CNext \/ UNCHANGED Contract!contractVars
  BY DEF Contract!contractVars
<1>0. ASSUME UNCHANGED ContractView PROVE UNCHANGED Contract!contractVars
  BY <1>0 DEF ContractView, Contract!contractVars
<1>1. CASE ReferenceEdge
  BY <1>1, ContractReference DEF Contract!CNext
<1>2. CASE FireCount
  BY <1>2, ContractSpark DEF Contract!CNext
<1>3. CASE DwellCharge
  <2>1. coil' = TRUE /\ UNCHANGED <<cycle_id, sparked, ignition_mode>>
    BY <1>3 DEF DwellCharge, SetCoil, decoder, hist
  <2>2. ignition_mode # "INHIBIT"
    BY <1>3 DEF IInv, CoilAtPoints, DwellCharge, SetCoil, Goto
  <2>3. Contract!Charge
    BY <2>1, <2>2 DEF Contract!Charge
  <2> QED
    BY <2>3 DEF Contract!CNext
<1>4. CASE FireForceOff \/ FireDrop \/ CancelForceOff
  <2>1. coil' = FALSE /\ UNCHANGED <<cycle_id, sparked, ignition_mode>>
    BY <1>4 DEF FireForceOff, FireDrop, CancelForceOff, SetCoil, decoder, hist
  <2>2. Contract!Collapse
    BY <2>1 DEF Contract!Collapse
  <2> QED
    BY <2>2 DEF Contract!CNext
<1>5. CASE TickInhibits \/ TickSetsMode
  <2>1. UNCHANGED <<cycle_id, sparked, coil>>
    BY <1>5 DEF TickInhibits, TickSetsMode, SetMode
  <2>2. Contract!Enable
    BY <2>1 DEF Contract!Enable
  <2> QED
    BY <2>2 DEF Contract!CNext
<1> QED
  BY <1>0, <1>1, <1>2, <1>3, <1>4, <1>5, ContractStutter
     DEF Next, AlarmLevel, dwell_on_callback, fire_callback,
         crank_soft_tick, scheduler_cancel_all

(* For every number of cycles and pool size, the ignition path gives each  *)
(* reference edge at most one spark, counted with the coil collapsed, and  *)
(* begins no charge in INHIBIT mode.                                       *)
THEOREM ImplementsContract == Spec => KeepsContract
<1>1. Init => Contract!CInit
  BY DEF Init, Contract!CInit
<1>2. IInv /\ [Next]_vars => [Contract!CNext]_(Contract!contractVars)
  BY ContractStep
<1> QED
  BY <1>1, <1>2, Inductive, PTL DEF Spec, KeepsContract, Contract!CSpec

-----------------------------------------------------------------------------
(* As long as no reference edge preempts the alarm level, the flags tell   *)
(* the truth: at the points Expired, event e is in service and out of the  *)
(* pool; at the points Cleared, its flag is known to be down; and an armed *)
(* event belongs to the cycle armed last.                                  *)
Expired(e) ==
  IF e = "fire"
  THEN {"fire", "fire_drop", "fire_off", "fire_count", "fire_flag", "fire_id",
        "c_fire_flag", "c_fire_id"}
  ELSE {"dwell", "dwell_mode", "dwell_charge", "dwell_flag", "dwell_id",
        "c_dwell_flag", "c_dwell_id"}

Cleared(e) ==
  IF e = "fire"
  THEN {"fire_id", "c_fire_id", "c_dwell", "c_dwell_flag", "c_dwell_id", "c_load",
        "c_store", "t_commit"}
  ELSE {"dwell_id", "c_dwell_id", "c_load", "c_store", "t_commit"}

FlagOf(e) ==
  /\ armed[e] => alarm_id[e] = armed_cycle_id /\ pc \notin Cleared(e)
  /\ pool[e] = IF armed[e] /\ pc \notin Expired(e) THEN {armed_cycle_id} ELSE {}

FlagsTrue ==
  ~raced => /\ \A e \in Events : FlagOf(e)
            /\ pc = "dwell" => tag = armed_cycle_id

LEMMA FlagsReference ==
  ASSUME TypeOK, FlagsTrue, ReferenceEdge PROVE FlagsTrue'
<1> SUFFICES ASSUME ~raced' PROVE FlagsTrue'
  BY DEF FlagsTrue
<1>1. ~raced /\ pc = "idle" /\ pc' = "idle" /\ armed_cycle_id' = cycle_id + 1
  BY DEF ReferenceEdge, scheduler_arm_for_reference, TypeOK
<1>2. \A e \in Events : Kept(e) = {}
  BY <1>1 DEF FlagsTrue, FlagOf, Kept, Expired, TypeOK
<1>3. ASSUME NEW e \in Events PROVE FlagOf(e)'
  <2> USE DEF FlagOf, Expired, Cleared
  <2>1. CASE ArmNothing
    BY <1>1, <1>2, <2>1 DEF ArmNothing
  <2>2. CASE ArmPair(cycle_id + 1)
    BY <1>1, <1>2, <2>2 DEF ArmPair
  <2>3. CASE ArmHalf
    BY <1>1, <1>2, <2>3 DEF ArmHalf
  <2> QED BY <2>1, <2>2, <2>3 DEF ReferenceEdge, scheduler_arm_for_reference
<1> QED BY <1>1, <1>3 DEF FlagsTrue

(* A step that only moves on keeps the flags true when it leaves and       *)
(* enters the points of an event with its alarm out of the pool, or with   *)
(* its flag down.                                                          *)
LEMMA FlagsMove ==
  ASSUME FlagsTrue, UNCHANGED <<raced, armed, alarm_id, armed_cycle_id, pool, tag>>,
         pc' # "dwell",
         \A e \in Events :
           /\ pc' \in Cleared(e) => pc \in Cleared(e) \/ ~armed[e]
           /\ (pc' \in Expired(e)) = (pc \in Expired(e)) \/ pc \in Cleared(e) \/ ~armed[e]
  PROVE  FlagsTrue'
BY DEF FlagsTrue, FlagOf

LEMMA FlagsClear ==
  ASSUME TypeOK, FlagsTrue, UNCHANGED <<raced, alarm_id, armed_cycle_id, pool, tag>>,
         pc' # "dwell", NEW d \in Events, armed' = [armed EXCEPT ![d] = FALSE],
         pc \in Expired(d),
         \A e \in Events \ {d} :
           /\ pc' \in Cleared(e) => pc \in Cleared(e)
           /\ (pc' \in Expired(e)) = (pc \in Expired(e)) \/ pc \in Cleared(e)
  PROVE  FlagsTrue'
<1>1. armed'[d] = FALSE /\ \A e \in Events \ {d} : armed'[e] = armed[e]
  BY DEF TypeOK
<1> QED BY <1>1 DEF FlagsTrue, FlagOf

LEMMA FlagsForget ==
  ASSUME TypeOK, FlagsTrue, UNCHANGED <<raced, armed, armed_cycle_id, pool, tag>>,
         pc' # "dwell", NEW d \in Events, alarm_id' = [alarm_id EXCEPT ![d] = NoAlarm],
         pc \in Cleared(d),
         \A e \in Events :
           /\ pc' \in Cleared(e) => pc \in Cleared(e)
           /\ (pc' \in Expired(e)) = (pc \in Expired(e)) \/ pc \in Cleared(e)
  PROVE  FlagsTrue'
<1>1. \A e \in Events \ {d} : alarm_id'[e] = alarm_id[e]
  BY DEF TypeOK
<1> QED BY <1>1 DEF FlagsTrue, FlagOf

LEMMA FlagsDwell ==
  ASSUME TypeOK, FlagsTrue, dwell_on_callback PROVE FlagsTrue'
<1> USE DEF Events, Expired, Cleared, decoder, slots, regs, hist, Goto
<1>1. CASE DwellExpire
  <2> SUFFICES ASSUME ~raced' PROVE FlagsTrue'
    BY DEF FlagsTrue
  <2>1. PICK c \in pool["dwell_on"] : Expire("dwell_on", c, "dwell")
    BY <1>1 DEF DwellExpire
  <2>2. ~raced /\ pool["dwell_on"] = {armed_cycle_id} /\ c = armed_cycle_id
    BY <2>1 DEF Expire, FlagsTrue, FlagOf
  <2>3. pool'["dwell_on"] = {} /\ pool'["fire"] = pool["fire"]
    BY <2>1, <2>2 DEF Expire, TypeOK
  <2> QED BY <2>1, <2>2, <2>3 DEF Expire, FlagsTrue, FlagOf
<1>2. CASE DwellTagCheck \/ DwellModeCheck
  <2> SUFFICES ASSUME ~raced' PROVE FlagsTrue'
    BY DEF FlagsTrue
  <2>1. UNCHANGED <<raced, armed, alarm_id, armed_cycle_id, pool, tag>>
    BY <1>2 DEF DwellTagCheck, DwellModeCheck, Branch
  <2>2. pc \in {"dwell", "dwell_mode"} /\ pc' \in {"dwell_mode", "dwell_flag", "dwell_charge"}
    BY <1>2, <2>1 DEF DwellTagCheck, DwellModeCheck, Branch, FlagsTrue
  <2> QED BY <2>1, <2>2, FlagsMove
<1>3. CASE DwellCharge
  <2>1. UNCHANGED <<raced, armed, alarm_id, armed_cycle_id, pool, tag>>
        /\ pc = "dwell_charge" /\ pc' = "dwell_flag"
    BY <1>3 DEF DwellCharge, SetCoil
  <2> QED BY <2>1, FlagsMove
<1>4. CASE DwellClearFlag
  <2>1. /\ UNCHANGED <<raced, alarm_id, armed_cycle_id, pool, tag>>
        /\ armed' = [armed EXCEPT !["dwell_on"] = FALSE]
        /\ pc = "dwell_flag" /\ pc' = "dwell_id"
    BY <1>4 DEF DwellClearFlag, ClearFlag
  <2> QED BY <2>1, FlagsClear
<1>5. CASE DwellClearId
  <2>1. /\ UNCHANGED <<raced, armed, armed_cycle_id, pool, tag>>
        /\ alarm_id' = [alarm_id EXCEPT !["dwell_on"] = NoAlarm]
        /\ pc = "dwell_id" /\ pc' = "idle"
    BY <1>5 DEF DwellClearId, ClearId
  <2> QED BY <2>1, FlagsForget
<1> QED BY <1>1, <1>2, <1>3, <1>4, <1>5 DEF dwell_on_callback

LEMMA FlagsFire ==
  ASSUME TypeOK, FlagsTrue, fire_callback PROVE FlagsTrue'
<1> USE DEF Events, Expired, Cleared, decoder, slots, regs, hist, Goto
<1>1. CASE FireExpire
  <2> SUFFICES ASSUME ~raced' PROVE FlagsTrue'
    BY DEF FlagsTrue
  <2>1. PICK c \in pool["fire"] : Expire("fire", c, "fire")
    BY <1>1 DEF FireExpire
  <2>2. ~raced /\ pool["fire"] = {armed_cycle_id} /\ c = armed_cycle_id
    BY <2>1 DEF Expire, FlagsTrue, FlagOf
  <2>3. pool'["fire"] = {} /\ pool'["dwell_on"] = pool["dwell_on"]
    BY <2>1, <2>2 DEF Expire, TypeOK
  <2> QED BY <2>1, <2>2, <2>3 DEF Expire, FlagsTrue, FlagOf
<1>2. CASE FireTagCheck
  <2>1. UNCHANGED <<raced, armed, alarm_id, armed_cycle_id, pool, tag>>
        /\ pc = "fire" /\ pc' \in {"fire_off", "fire_drop"}
    BY <1>2 DEF FireTagCheck, Branch
  <2> QED BY <2>1, FlagsMove
<1>3. CASE FireForceOff \/ FireDrop \/ FireCount
  <2>1. UNCHANGED <<raced, armed, alarm_id, armed_cycle_id, pool, tag>>
        /\ pc \in {"fire_off", "fire_drop", "fire_count"}
        /\ pc' \in {"fire_count", "fire_flag"}
    BY <1>3 DEF FireForceOff, FireDrop, FireCount, SetCoil
  <2> QED BY <2>1, FlagsMove
<1>4. CASE FireClearFlag
  <2>1. /\ UNCHANGED <<raced, alarm_id, armed_cycle_id, pool, tag>>
        /\ armed' = [armed EXCEPT !["fire"] = FALSE]
        /\ pc = "fire_flag" /\ pc' = "fire_id"
    BY <1>4 DEF FireClearFlag, ClearFlag
  <2> QED BY <2>1, FlagsClear
<1>5. CASE FireClearId
  <2>1. /\ UNCHANGED <<raced, armed, armed_cycle_id, pool, tag>>
        /\ alarm_id' = [alarm_id EXCEPT !["fire"] = NoAlarm]
        /\ pc = "fire_id" /\ pc' = "idle"
    BY <1>5 DEF FireClearId, ClearId
  <2> QED BY <2>1, FlagsForget
<1> QED BY <1>1, <1>2, <1>3, <1>4, <1>5 DEF fire_callback

(* What is still armed is what the pool holds, so the cancels find it.     *)
LEMMA FlagsCancelAlarm ==
  ASSUME TypeOK, FlagsTrue, CancelFire \/ CancelDwell PROVE FlagsTrue'
<1> USE DEF Events, Expired, Cleared, decoder, slots, regs, hist, Goto
<1> SUFFICES ASSUME ~raced' PROVE FlagsTrue'
  BY DEF FlagsTrue
<1>1. UNCHANGED <<raced, armed, alarm_id, armed_cycle_id, tag>>
  BY DEF CancelFire, CancelDwell, CancelAlarm
<1>2. CASE CancelFire
  <2>1. pc = "c_fire" /\ pool' = [pool EXCEPT !["fire"] = Kept("fire")]
        /\ pc' = IF armed["fire"] THEN "c_fire_flag" ELSE "c_dwell"
    BY <1>2 DEF CancelFire, CancelAlarm
  <2>2. pool'["fire"] = {} /\ pool'["dwell_on"] = pool["dwell_on"]
    BY <1>1, <2>1 DEF TypeOK, Kept, FlagsTrue, FlagOf
  <2> QED BY <1>1, <2>1, <2>2 DEF FlagsTrue, FlagOf
<1>3. CASE CancelDwell
  <2>1. pc = "c_dwell" /\ pool' = [pool EXCEPT !["dwell_on"] = Kept("dwell_on")]
        /\ pc' = IF armed["dwell_on"] THEN "c_dwell_flag" ELSE "c_load"
    BY <1>3 DEF CancelDwell, CancelAlarm
  <2>2. pool'["dwell_on"] = {} /\ pool'["fire"] = pool["fire"]
    BY <1>1, <2>1 DEF TypeOK, Kept, FlagsTrue, FlagOf
  <2> QED BY <1>1, <2>1, <2>2 DEF FlagsTrue, FlagOf
<1> QED BY <1>2, <1>3

LEMMA FlagsCancel ==
  ASSUME TypeOK, FlagsTrue, scheduler_cancel_all PROVE FlagsTrue'
<1> USE DEF Events, Expired, Cleared, decoder, slots, regs, hist, Goto
<1>1. CASE CancelFireFlag
  <2>1. /\ UNCHANGED <<raced, alarm_id, armed_cycle_id, pool, tag>>
        /\ armed' = [armed EXCEPT !["fire"] = FALSE]
        /\ pc = "c_fire_flag" /\ pc' = "c_fire_id"
    BY <1>1 DEF CancelFireFlag, ClearFlag
  <2> QED BY <2>1, FlagsClear
<1>2. CASE CancelFireId
  <2>1. /\ UNCHANGED <<raced, armed, armed_cycle_id, pool, tag>>
        /\ alarm_id' = [alarm_id EXCEPT !["fire"] = NoAlarm]
        /\ pc = "c_fire_id" /\ pc' = "c_dwell"
    BY <1>2 DEF CancelFireId, ClearId
  <2> QED BY <2>1, FlagsForget
<1>3. CASE CancelDwellFlag
  <2>1. /\ UNCHANGED <<raced, alarm_id, armed_cycle_id, pool, tag>>
        /\ armed' = [armed EXCEPT !["dwell_on"] = FALSE]
        /\ pc = "c_dwell_flag" /\ pc' = "c_dwell_id"
    BY <1>3 DEF CancelDwellFlag, ClearFlag
  <2> QED BY <2>1, FlagsClear
<1>4. CASE CancelDwellId
  <2>1. /\ UNCHANGED <<raced, armed, armed_cycle_id, pool, tag>>
        /\ alarm_id' = [alarm_id EXCEPT !["dwell_on"] = NoAlarm]
        /\ pc = "c_dwell_id" /\ pc' = "c_load"
    BY <1>4 DEF CancelDwellId, ClearId
  <2> QED BY <2>1, FlagsForget
<1>5. CASE CancelLoad \/ CancelForceOff
  <2>1. UNCHANGED <<raced, armed, alarm_id, armed_cycle_id, pool, tag>>
        /\ pc \in {"c_load", "c_off"} /\ (pc = "c_load" => pc' = "c_store")
        /\ (pc = "c_off" => pc' = "c_mode")
    BY <1>5 DEF CancelLoad, CancelForceOff, SetCoil
  <2> QED BY <2>1, FlagsMove
<1>6. CASE CancelStore
  <2>1. /\ UNCHANGED <<raced, armed, alarm_id, pool, tag>>
        /\ pc = "c_store" /\ pc' = "c_off"
    BY <1>6 DEF CancelStore
  <2> QED BY <2>1 DEF FlagsTrue, FlagOf
<1> QED BY <1>1, <1>2, <1>3, <1>4, <1>5, <1>6, FlagsCancelAlarm DEF scheduler_cancel_all

LEMMA FlagsTick ==
  ASSUME TypeOK, FlagsTrue, crank_soft_tick PROVE FlagsTrue'
<1> USE DEF Events, Expired, Cleared, decoder, slots, regs, hist, Goto
<1>1. CASE TickStart \/ TickCancels \/ TickProceeds
  <2>1. UNCHANGED <<raced, armed, alarm_id, armed_cycle_id, pool, tag>>
        /\ pc \in {"idle", "tick"} /\ pc' \in {"tick", "c_fire", "t_mode"}
    BY <1>1 DEF TickStart, TickCancels, TickProceeds, Branch
  <2> QED BY <2>1, FlagsMove
<1>2. CASE TickQuiet
  <2>1. UNCHANGED <<raced, armed, alarm_id, armed_cycle_id, pool, tag>> /\ pc = "t_quiet"
        /\ pc' = IF scheduler_is_quiescent THEN "t_commit" ELSE "t_reset"
    BY <1>2 DEF TickQuiet, Branch
  <2> QED BY <2>1, FlagsMove DEF scheduler_is_quiescent
<1>3. CASE TickInhibits \/ TickSetsMode
  <2>1. UNCHANGED <<raced, armed, alarm_id, armed_cycle_id, pool, tag>>
        /\ pc \in {"c_mode", "t_mode"} /\ pc' \in {"c_reset", "t_quiet"}
    BY <1>3 DEF TickInhibits, TickSetsMode, SetMode
  <2> QED BY <2>1, FlagsMove
<1>4. CASE TickForgets \/ TickCommit \/ TickReset
  <2>1. UNCHANGED <<raced, armed, alarm_id, armed_cycle_id, pool, tag>>
        /\ pc \in {"c_reset", "t_commit", "t_reset"} /\ pc' \in {"t_reset", "idle"}
    BY <1>4 DEF TickForgets, TickCommit, TickReset
  <2> QED BY <2>1, FlagsMove
<1> QED BY <1>1, <1>2, <1>3, <1>4, FlagsCancel DEF crank_soft_tick

LEMMA FlagsNext == TypeOK /\ FlagsTrue /\ [Next]_vars => FlagsTrue'
<1>1. FlagsTrue /\ (ToothEdge \/ Core0 \/ UNCHANGED vars) => FlagsTrue'
  BY DEF FlagsTrue, FlagOf, ToothEdge, Core0, vars, slots, regs, hist
<1> QED BY <1>1, FlagsReference, FlagsDwell, FlagsFire, FlagsTick DEF Next, AlarmLevel

LEMMA FlagsInit == Init => FlagsTrue
BY DEF Init, FlagsTrue, FlagOf, Expired, Cleared

(* The invariant for each point of the alarm level.                        *)
THEOREM FlagsAlwaysTrue == Spec => []FlagsTrue
<1>1. IInv => TypeOK
  BY DEF IInv
<1> QED BY <1>1, FlagsInit, FlagsNext, Inductive, PTL DEF Spec

(* Until a reference edge preempts the alarm level, the armed flags and    *)
(* ids tell the truth about the alarm pool whenever no handler runs.       *)
THEOREM FlagsAreTruth == Spec => []FlagsMatchPool
<1>1. FlagsTrue => FlagsMatchPool
  BY DEF FlagsTrue, FlagOf, FlagsMatchPool, Expired
<1> QED BY <1>1, FlagsAlwaysTrue, PTL

(* ... and the tick then swaps the profile only with no alarm outstanding, *)
(* whatever Core 0 stores while it looks.                                  *)
THEOREM CommitsWhenQuiet == Spec => QuietCommit
<1>1. FlagsTrue => [pc = "t_commit" /\ pc' = "t_reset" /\ ~raced
                       => \A e \in Events : pool[e] = {}]_vars
  BY DEF FlagsTrue, FlagOf, Cleared, Events
<1> QED BY <1>1, FlagsAlwaysTrue, PTL DEF QuietCommit
=============================================================================
