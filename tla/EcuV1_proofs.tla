---------------------------- MODULE EcuV1_proofs ----------------------------
(***************************************************************************)
(* What EcuV1.tla promises, for any number of reference edges.             *)
(***************************************************************************)
EXTENDS EcuV1, FiniteSetTheorems, TLAPS

(* Points between the taking of a fire event and the counting of its spark *)
(* and those at which its pair's dwell-on event may be the only one armed. *)
BeforeCount == {"f_judge", "f_off", "f_count"}
AfterFire   == {"f_judge", "f_drop", "f_off", "f_count", "on_fired"}

(* A fire event that is armed or taken belongs to a cycle without spark.   *)
TagsFresh ==
  /\ armed["fire"] =>
       event_cycle["fire"] \in 1 .. cycle_id /\ event_cycle["fire"] \notin sparked
  /\ pc \in BeforeCount =>
       /\ taken \in 1 .. cycle_id /\ taken \notin sparked
       /\ armed["fire"] => event_cycle["fire"] # taken

(* A dwell-on event comes with its fire event, which is due no sooner.     *)
Paired ==
  /\ armed["fire"] /\ due["fire"] /\ armed["on"] => due["on"]
  /\ armed["on"] => \/ armed["fire"]
                    \/ pc \in AfterFire /\ due["on"]
                    \/ pc \in {"c_on", "h_on"}
  /\ pc \in {"o_judge", "o_charge"} => armed["fire"]

(* The coil and the events at the points of a cut, and of a charge.        *)
AtPoints ==
  /\ pc \in {"f_count", "c_mode"} => ~coil_active
  /\ pc = "o_charge" => ignition_mode # "INHIBIT"
  /\ cut => ignition_mode = "INHIBIT"
  /\ pc = "c_on" => slipped \/ ~armed["fire"]
  /\ pc \in {"c_off", "c_mode"} => slipped \/ \A e \in Events : ~armed[e]

IInv == TypeOK /\ TagsFresh /\ Paired /\ AtPoints /\ ChargeHasAnEnd /\ CutHolds

-----------------------------------------------------------------------------
(* Initially nothing is armed, and the coil is off.                        *)
LEMMA InitInv == Init => IInv
<1> SUFFICES ASSUME Init PROVE IInv
  OBVIOUS
<1>1. TypeOK
  <2>1. 0 \in 0 .. 0 /\ 0 \in 0 .. MaxCycle
    BY CycleAssumption
  <2> QED
    BY <2>1 DEF Init, TypeOK, Modes, Pcs
<1>2. TagsFresh /\ Paired /\ AtPoints
  BY DEF Init, TagsFresh, Paired, AtPoints, Events, BeforeCount, AfterFire
<1>3. ChargeHasAnEnd /\ CutHolds
  BY DEF Init, ChargeHasAnEnd, CutHolds
<1> QED
  BY <1>1, <1>2, <1>3 DEF IInv

(* A step that moves the soft level on and changes nothing else.           *)
LEMMA BranchInv ==
  ASSUME IInv, NEW from, NEW to, Branch(from, to), to \in Pcs,
         \/ from = "idle" /\ to \in {"fire", "t_known", "t_lost", "h_fire"}
         \/ from = "f_judge" /\ to = "f_drop"
         \/ from = "f_judge" /\ to = "f_off"
         \/ from = "o_judge" /\ to = "o_drop"
         \/ from = "o_judge" /\ to = "o_charge" /\ ignition_mode # "INHIBIT"
         \/ from = "fire" /\ to = "on"
         \/ from = "on" /\ to = "idle"
         \/ from = "on_fired" /\ to = "idle" /\ ~(armed["on"] /\ due["on"])
         \/ from \in {"t_known", "t_lost"} /\ to \in {"c_cache", "t_promote", "t_demote"}
  PROVE  IInv'
<1> USE DEF IInv, Branch, decoder, mode, events, hist
<1>1. TypeOK'
  BY DEF TypeOK
<1>2. TagsFresh'
  BY DEF TagsFresh, BeforeCount
<1>3. Paired'
  BY DEF Paired, AfterFire
<1>4. AtPoints'
  BY DEF AtPoints
<1>5. ChargeHasAnEnd' /\ CutHolds'
  BY DEF ChargeHasAnEnd, CutHolds
<1> QED
  BY <1>1, <1>2, <1>3, <1>4, <1>5

LEMMA CoilInv ==
  ASSUME IInv, NEW from, NEW to, NEW on \in BOOLEAN, SetCoil(from, to, on), to \in Pcs,
         \/ from = "o_charge" /\ to = "idle" /\ on
         \/ ~on /\ \/ from = "f_drop" /\ to = "on_fired"
                   \/ from = "f_off" /\ to = "f_count"
                   \/ from = "o_drop" /\ to = "idle"
                   \/ from = "c_off" /\ to = "c_mode"
                   \/ from = "h_off" /\ to = "halted"
  PROVE  IInv'
<1> USE DEF IInv, SetCoil, decoder, mode, events, hist
<1>1. TypeOK'
  BY DEF TypeOK
<1>2. TagsFresh'
  BY DEF TagsFresh, BeforeCount
<1>3. Paired'
  BY DEF Paired, AfterFire
<1>4. AtPoints'
  BY DEF AtPoints
<1>5. ChargeHasAnEnd' /\ CutHolds'
  BY DEF ChargeHasAnEnd, CutHolds, Paired, AtPoints
<1> QED
  BY <1>1, <1>2, <1>3, <1>4, <1>5

(* Taking an event, or cancelling one.                                     *)
LEMMA TakeInv ==
  ASSUME IInv,
         \/ Take("fire", "fire", "f_judge")
         \/ Take("on", "on", "o_judge") \/ Take("on", "on_fired", "o_drop")
  PROVE  IInv'
<1> USE DEF IInv, Take, decoder, mode, events, hist, Events
<1>1. TypeOK'
  BY DEF TypeOK, Pcs
<1>2. TagsFresh'
  BY DEF TagsFresh, BeforeCount, TypeOK
<1>3. Paired'
  BY DEF Paired, AfterFire, TypeOK
<1>4. AtPoints'
  BY DEF AtPoints, TypeOK, CutHolds
<1>5. ChargeHasAnEnd' /\ CutHolds'
  BY DEF ChargeHasAnEnd, CutHolds, Paired, AtPoints, TypeOK
<1> QED
  BY <1>1, <1>2, <1>3, <1>4, <1>5

LEMMA CancelInv ==
  ASSUME IInv, CutCancels \/ Cancel("h_fire", "h_on", "h_off")
  PROVE  IInv'
<1> USE DEF IInv, CutCancels, Cancel, Disarm, decoder, mode, hist, Events
<1>1. TypeOK'
  BY DEF TypeOK, Pcs
<1>2. TagsFresh'
  BY DEF TagsFresh, BeforeCount, TypeOK
<1>3. Paired'
  BY DEF Paired, AfterFire, TypeOK
<1>4. AtPoints'
  BY DEF AtPoints, TypeOK, CutHolds
<1>5. ChargeHasAnEnd' /\ CutHolds'
  BY DEF ChargeHasAnEnd, CutHolds, Paired, AtPoints, TypeOK
<1> QED
  BY <1>1, <1>2, <1>3, <1>4, <1>5

(* The crank interrupt.                                                    *)
LEMMA EdgeInv ==
  ASSUME IInv, crank_isr PROVE IInv'
<1>1. CASE ToothEdge
  BY <1>1 DEF ToothEdge, IInv, TypeOK, TagsFresh, Paired, AtPoints,
     ChargeHasAnEnd, CutHolds, mode, events, hist
<1>2. CASE ReferenceEdge
  <2> USE <1>2 DEF IInv, ReferenceEdge, Events
  <2>0. /\ cycle_id \in Nat /\ cycle_id' = cycle_id + 1 /\ cycle_id' \in 0 .. MaxCycle
        /\ UNCHANGED <<pc, taken, spark_counter, sparked, coil_active,
                       ignition_mode, cut, inhibit, cached>>
    BY CycleAssumption DEF TypeOK, mode
  <2>1. CASE ~Schedules
    <3>1. UNCHANGED <<armed, event_cycle, due, slipped>>
      BY <2>1 DEF events
    <3>2. TypeOK'
      BY <2>0, <3>1 DEF TypeOK
    <3>3. TagsFresh' /\ Paired' /\ AtPoints' /\ ChargeHasAnEnd' /\ CutHolds'
      BY <2>0, <3>1 DEF TagsFresh, Paired, AtPoints, ChargeHasAnEnd, CutHolds, BeforeCount
    <3> QED
      BY <3>2, <3>3
  <2>2. CASE Schedules
    <3>1. /\ armed' = [e \in Events |-> TRUE]
          /\ event_cycle' = [e \in Events |-> cycle_id + 1]
          /\ due' \in [Events -> BOOLEAN] /\ ~due'["fire"]
          /\ slipped' = (slipped \/ pc \in PastCancel)
          /\ ignition_mode # "INHIBIT"
      BY <2>2 DEF Arm, Schedules
    <3>2. TypeOK'
      <4>1. armed' \in [Events -> BOOLEAN] /\ slipped' \in BOOLEAN
        BY <3>1 DEF TypeOK
      <4>2. /\ event_cycle' \in [Events -> 0 .. cycle_id']
            /\ taken' \in 0 .. cycle_id' /\ sparked' \subseteq 1 .. cycle_id'
        BY <2>0, <3>1 DEF TypeOK
      <4>3. /\ period_known' \in BOOLEAN /\ ignition_mode' \in Modes
            /\ cached' \in BOOLEAN /\ coil_active' \in BOOLEAN
            /\ inhibit' \in BOOLEAN /\ pc' \in Pcs /\ cut' \in BOOLEAN
        BY <2>0 DEF TypeOK
      <4> QED
        BY <2>0, <3>1, <4>1, <4>2, <4>3 DEF TypeOK
    <3>3. TagsFresh'
      BY <2>0, <3>1 DEF TypeOK, TagsFresh
    <3>4. Paired'
      BY <2>0, <3>1 DEF Paired
    <3>5. AtPoints'
      <4>1. pc \in {"c_on", "c_off", "c_mode"} => slipped'
        BY <3>1 DEF PastCancel
      <4>2. ~cut
        BY <3>1 DEF AtPoints
      <4> QED
        BY <2>0, <3>1, <4>1, <4>2 DEF AtPoints
    <3>6. ChargeHasAnEnd' /\ CutHolds'
      BY <2>0, <3>1 DEF ChargeHasAnEnd, CutHolds, AtPoints
    <3> QED
      BY <3>2, <3>3, <3>4, <3>5, <3>6
  <2> QED
    BY <2>1, <2>2
<1> QED
  BY <1>1, <1>2 DEF crank_isr

(* The other steps of the callbacks.                                       *)
LEMMA ModeInv ==
  ASSUME IInv,
         \/ TickSetsMode \/ SetMode("c_mode", "c_reset", {"INHIBIT"})
  PROVE  IInv'
<1> USE DEF IInv, TickSetsMode, SetMode, decoder, events
<1>1. TypeOK'
  <2>1. ignition_mode' \in Modes /\ pc' \in Pcs
    BY DEF Modes, Pcs
  <2>2. cut' \in BOOLEAN
    OBVIOUS
  <2> QED
    BY <2>1, <2>2 DEF TypeOK
<1>2. TagsFresh' /\ Paired'
  BY DEF TagsFresh, Paired, BeforeCount, AfterFire
<1>3. AtPoints'
  BY DEF AtPoints
<1>4. ChargeHasAnEnd'
  BY DEF ChargeHasAnEnd
<1>5. CutHolds'
  <2>1. cut' => cut \/ pc = "c_mode"
    OBVIOUS
  <2>2. UNCHANGED <<coil_active, armed, slipped>>
    OBVIOUS
  <2>3. cut \/ pc = "c_mode" =>
          ~coil_active /\ (slipped \/ \A e \in Events : ~armed[e])
    BY DEF CutHolds, AtPoints
  <2> QED
    BY <2>1, <2>2, <2>3 DEF CutHolds
<1> QED
  BY <1>1, <1>2, <1>3, <1>4, <1>5

LEMMA CountInv == ASSUME IInv, FireCount PROVE IInv'
<1> USE DEF IInv, FireCount, decoder, mode, events
<1>1. TypeOK'
  <2>1. taken \in 1 .. cycle_id
    BY DEF TagsFresh, BeforeCount
  <2> QED
    <3>1. spark_counter' \in Nat
      BY DEF TypeOK
    <3> QED
      BY <2>1, <3>1 DEF TypeOK, Pcs
<1>2. TagsFresh'
  BY DEF TagsFresh, BeforeCount
<1>3. Paired' /\ AtPoints' /\ ChargeHasAnEnd' /\ CutHolds'
  BY DEF Paired, AtPoints, AfterFire, ChargeHasAnEnd, CutHolds
<1> QED
  BY <1>1, <1>2, <1>3

LEMMA OtherInv ==
  ASSUME IInv, TickCachesDelay \/ CutCache \/ reset_gear_state \/ Pin
  PROVE  IInv'
<1> USE DEF IInv, TickCachesDelay, CutCache, reset_gear_state, Pin, decoder,
            mode, events, hist
<1>1. TypeOK'
  <2>1. /\ cached' \in BOOLEAN /\ period_known' \in BOOLEAN /\ cut' \in BOOLEAN
        /\ slipped' \in BOOLEAN /\ inhibit' \in BOOLEAN
    BY DEF TypeOK
  <2>2. pc' \in Pcs
    BY DEF TypeOK, Pcs
  <2> QED
    BY <2>1, <2>2 DEF TypeOK
<1>2. /\ UNCHANGED <<armed, event_cycle, due, coil_active, ignition_mode>>
      /\ UNCHANGED <<cycle_id, taken, spark_counter, sparked>>
      /\ (~cut' \/ UNCHANGED <<cut, slipped>>)
      /\ \/ pc' = pc
         \/ pc \in {"t_delay", "c_reset"} /\ pc' = "idle"
         \/ pc = "c_cache" /\ pc' = "c_fire" /\ ~cut'
  OBVIOUS
<1>3. pc' = pc => UNCHANGED slipped
  OBVIOUS
<1>4. TagsFresh' /\ Paired'
  BY <1>2 DEF TagsFresh, Paired, BeforeCount, AfterFire
<1>5. AtPoints'
  BY <1>2, <1>3 DEF AtPoints
<1>6. ChargeHasAnEnd' /\ CutHolds'
  BY <1>2 DEF ChargeHasAnEnd, CutHolds
<1> QED
  BY <1>1, <1>4, <1>5, <1>6

LEMMA ElapseInv == ASSUME IInv, Elapse PROVE IInv'
<1> USE DEF IInv, Elapse, decoder, mode, hist, Events
<1>1. TypeOK' /\ TagsFresh'
  BY DEF TypeOK, TagsFresh
<1>2. Paired'
  BY DEF Paired, TypeOK, AfterFire
<1>3. AtPoints' /\ ChargeHasAnEnd' /\ CutHolds'
  BY DEF AtPoints, ChargeHasAnEnd, CutHolds
<1> QED
  BY <1>1, <1>2, <1>3

-----------------------------------------------------------------------------
LEMMA FireHalfInv == ASSUME IInv, FireHalf PROVE IInv'
<1>1. CASE Take("fire", "fire", "f_judge")
  BY <1>1, TakeInv
<1>2. CASE Pass("fire", "fire", "on")
  <2>1. Branch("fire", "on")
    BY <1>2 DEF Pass
  <2> QED
    BY <2>1, BranchInv DEF Pcs
<1>3. CASE Timely("f_judge", "f_off")
  <2>1. Branch("f_judge", "f_off")
    BY <1>3 DEF Timely
  <2> QED
    BY <2>1, BranchInv DEF Pcs
<1>4. CASE Branch("f_judge", "f_drop")
  BY <1>4, BranchInv DEF Pcs
<1>5. CASE FireDrop
  <2>1. SetCoil("f_drop", "on_fired", FALSE)
    BY <1>5 DEF FireDrop, force_coil_off
  <2> QED
    BY <2>1, CoilInv DEF Pcs
<1>6. CASE force_coil_off("f_off", "f_count")
  <2>1. SetCoil("f_off", "f_count", FALSE)
    BY <1>6 DEF force_coil_off
  <2> QED
    BY <2>1, CoilInv DEF Pcs
<1> QED
  BY <1>1, <1>2, <1>3, <1>4, <1>5, <1>6, CountInv DEF FireHalf

LEMMA OnHalfInv == ASSUME IInv, OnHalf PROVE IInv'
<1>1. CASE Take("on", "on", "o_judge") \/ Take("on", "on_fired", "o_drop")
  BY <1>1, TakeInv
<1>2. CASE Pass("on", "on", "idle")
  <2>1. Branch("on", "idle")
    BY <1>2 DEF Pass
  <2> QED
    BY <2>1, BranchInv DEF Pcs
<1>3. CASE Pass("on", "on_fired", "idle")
  <2>1. Branch("on_fired", "idle") /\ ~(armed["on"] /\ due["on"])
    BY <1>3 DEF Pass
  <2> QED
    BY <2>1, BranchInv DEF Pcs
<1>4. CASE Timely("o_judge", "o_charge")
  <2>1. Branch("o_judge", "o_charge") /\ ignition_mode # "INHIBIT"
    BY <1>4 DEF Timely
  <2> QED
    BY <2>1, BranchInv DEF Pcs
<1>5. CASE Branch("o_judge", "o_drop")
  BY <1>5, BranchInv DEF Pcs
<1>6. CASE force_coil_off("o_drop", "idle")
  <2>1. SetCoil("o_drop", "idle", FALSE)
    BY <1>6 DEF force_coil_off
  <2> QED
    BY <2>1, CoilInv DEF Pcs
<1>7. CASE SetCoil("o_charge", "idle", TRUE)
  BY <1>7, CoilInv DEF Pcs
<1> QED
  BY <1>1, <1>2, <1>3, <1>4, <1>5, <1>6, <1>7 DEF OnHalf

LEMMA TickInv == ASSUME IInv, soft_process_tick PROVE IInv'
<1>1. CASE TickStart
  <2>1. Branch("idle", "t_known") \/ Branch("idle", "t_lost")
    BY <1>1 DEF TickStart
  <2> QED
    BY <2>1, BranchInv DEF Pcs
<1>2. CASE TickCuts \/ TickProceeds
  <2>1. \/ Branch("t_known", "c_cache") \/ Branch("t_lost", "c_cache")
        \/ Branch("t_known", "t_promote") \/ Branch("t_lost", "t_demote")
    BY <1>2 DEF TickCuts, TickProceeds
  <2> QED
    BY <2>1, BranchInv DEF Pcs
<1>3. CASE CutIgnition
  <2>1. CASE force_coil_off("c_off", "c_mode")
    <3>1. SetCoil("c_off", "c_mode", FALSE)
      BY <2>1 DEF force_coil_off
    <3> QED
      BY <3>1, CoilInv DEF Pcs
  <2> QED
    BY <1>3, <2>1, OtherInv, CancelInv, ModeInv DEF CutIgnition
<1> QED
  BY <1>1, <1>2, <1>3, ModeInv, OtherInv DEF soft_process_tick

LEMMA StopInv == ASSUME IInv, stop_ecu PROVE IInv'
<1>1. CASE StopTimers
  BY <1>1, BranchInv DEF StopTimers, Pcs
<1>2. CASE StopForcesOff
  <2>1. SetCoil("h_off", "halted", FALSE)
    BY <1>2 DEF StopForcesOff, force_coil_off
  <2> QED
    BY <2>1, CoilInv DEF Pcs
<1> QED
  BY <1>1, <1>2, CancelInv DEF stop_ecu, StopSteps

LEMMA NextInv == IInv /\ [Next]_vars => IInv'
<1> SUFFICES ASSUME IInv, [Next]_vars PROVE IInv'
  OBVIOUS
<1>1. CASE SchedulerStart
  BY <1>1, BranchInv DEF SchedulerStart, Pcs
<1>2. CASE UNCHANGED vars
  BY <1>2 DEF vars, decoder, mode, events, hist, IInv, TypeOK, TagsFresh,
     Paired, AtPoints, ChargeHasAnEnd, CutHolds
<1> QED
  BY <1>1, <1>2, EdgeInv, FireHalfInv, OnHalfInv, TickInv, StopInv, OtherInv,
     ElapseInv DEF Next, scheduler_tick

(* The inductive invariant holds throughout.                               *)
THEOREM Inductive == Spec => []IInv
BY InitInv, NextInv, PTL DEF Spec

(* Every variable keeps its type: no cycle beyond the last is ever taken,  *)
(* or counted as a spark.                                                  *)
THEOREM TypeCorrect == Spec => []TypeOK
<1>1. IInv => TypeOK
  BY DEF IInv
<1> QED
  BY <1>1, Inductive, PTL

(* The count changes only with the set of the cycles counted.              *)
CountExact == spark_counter = Cardinality(sparked)

LEMMA Finite == TypeOK => /\ IsFiniteSet(sparked)
                          /\ Cardinality(sparked) <= cycle_id
<1> SUFFICES ASSUME TypeOK PROVE /\ IsFiniteSet(sparked)
                                 /\ Cardinality(sparked) <= cycle_id
  OBVIOUS
<1>1. cycle_id \in Nat /\ sparked \in SUBSET (1 .. cycle_id)
  BY CycleAssumption DEF TypeOK
<1>2. IsFiniteSet(1 .. cycle_id) /\ Cardinality(1 .. cycle_id) = cycle_id
  <2>1. /\ IsFiniteSet(1 .. cycle_id)
        /\ Cardinality(1 .. cycle_id)
             = IF 1 > cycle_id THEN 0 ELSE cycle_id - 1 + 1
    <3>1. 1 \in Int /\ cycle_id \in Int
      BY <1>1
    <3> QED
      BY <3>1, FS_Interval
  <2> QED
    BY <1>1, <2>1
<1> QED
  BY <1>1, <1>2, FS_Subset

LEMMA CountNext == IInv /\ CountExact /\ [Next]_vars => CountExact'
<1> SUFFICES ASSUME IInv, CountExact, [Next]_vars PROVE CountExact'
  OBVIOUS
<1>1. CASE FireCount
  <2>1. taken \notin sparked
    BY <1>1 DEF FireCount, IInv, TagsFresh, BeforeCount
  <2>2. Cardinality(sparked \cup {taken}) = Cardinality(sparked) + 1
    BY <2>1, Finite, FS_AddElement DEF IInv
  <2> QED
    BY <1>1, <2>2 DEF FireCount, CountExact
<1>2. CASE UNCHANGED <<spark_counter, sparked>>
  BY <1>2 DEF CountExact
<1>3. FireCount \/ UNCHANGED <<spark_counter, sparked>>
  <2>1. CASE crank_isr \/ Pin \/ Elapse \/ UNCHANGED vars
    BY <2>1 DEF crank_isr, ToothEdge, ReferenceEdge, Arm, Pin, Elapse, vars, hist
  <2>2. CASE scheduler_tick
    BY <2>2 DEF scheduler_tick, SchedulerStart, FireHalf, OnHalf, FireDrop,
       force_coil_off, SetCoil, Take, Pass, Timely, Branch, hist
  <2>3. CASE soft_process_tick
    BY <2>3 DEF soft_process_tick, TickStart, TickCuts, TickProceeds,
       TickSetsMode, SetMode, TickCachesDelay, CutIgnition, CutCache,
       CutCancels, Cancel, Disarm, reset_gear_state, force_coil_off, SetCoil,
       Branch, hist
  <2>4. CASE stop_ecu
    BY <2>4 DEF stop_ecu, StopTimers, StopSteps, StopForcesOff, Cancel, Disarm,
       force_coil_off, SetCoil, Branch, hist
  <2> QED
    BY <2>1, <2>2, <2>3, <2>4 DEF Next
<1> QED
  BY <1>1, <1>2, <1>3

(* Every spark belongs to a reference edge of its own.                     *)
THEOREM OneSparkPerReference == Spec => []AtMostOneSparkPerReference
<1>1. Init => CountExact
  BY FS_EmptySet DEF Init, CountExact
<1>2. IInv /\ CountExact => AtMostOneSparkPerReference
  BY Finite DEF IInv, CountExact, AtMostOneSparkPerReference
<1> QED
  BY <1>1, <1>2, CountNext, Inductive, PTL DEF Spec

(* However reference edges overwrite the events and whatever is cancelled, *)
(* a charging coil has its fire event armed or is about to be forced off.  *)
THEOREM ChargeEnds == Spec => []ChargeHasAnEnd
<1>1. IInv => ChargeHasAnEnd
  BY DEF IInv
<1> QED
  BY <1>1, Inductive, PTL

(* A cut keeps the coil off, and leaves nothing armed unless an edge       *)
(* slipped in.                                                             *)
THEOREM CutIsKept == Spec => []CutHolds
<1>1. IInv => CutHolds
  BY DEF IInv
<1> QED
  BY <1>1, Inductive, PTL

-----------------------------------------------------------------------------
(* v1 implements the ignition contract.                                    *)

ContractView == <<cycle_id, sparked, coil_active, ignition_mode>>

LEMMA ContractCoil ==
  ASSUME IInv, NEW from, NEW to, NEW on, SetCoil(from, to, on),
         ~on \/ from = "o_charge", on \in BOOLEAN
  PROVE  Contract!Charge \/ Contract!Collapse
<1>1. UNCHANGED <<cycle_id, sparked, ignition_mode>> /\ coil_active' = on /\ pc = from
  BY DEF SetCoil, decoder, mode, hist
<1>2. from = "o_charge" => ignition_mode # "INHIBIT"
  BY <1>1 DEF IInv, AtPoints
<1> QED
  BY <1>1, <1>2 DEF Contract!Charge, Contract!Collapse

LEMMA ContractSpark == ASSUME IInv, FireCount PROVE Contract!Spark
<1>1. ~coil_active /\ taken \in (1 .. cycle_id) \ sparked
  BY DEF IInv, AtPoints, TagsFresh, BeforeCount, FireCount
<1>2. /\ sparked' = sparked \cup {taken}
      /\ UNCHANGED <<cycle_id, coil_active, ignition_mode>>
  BY DEF FireCount, decoder, mode
<1> QED
  BY <1>1, <1>2 DEF Contract!Spark

(* The steps that the contract does not see.                               *)
LEMMA ContractStutter ==
  ASSUME \/ ToothEdge \/ Pin \/ Elapse \/ UNCHANGED vars
         \/ TickCachesDelay \/ CutCache \/ reset_gear_state
         \/ \E e, from, to : \/ Branch(from, to) \/ Disarm(e, from, to)
                             \/ Take(e, from, to)
  PROVE  UNCHANGED ContractView
BY DEF ContractView, ToothEdge, Pin, Elapse, TickCachesDelay, CutCache,
   reset_gear_state, Branch, Disarm, Take, vars, decoder, mode, hist

LEMMA ContractStep ==
  IInv /\ [Next]_vars => [Contract!CNext]_(Contract!contractVars)
<1> SUFFICES ASSUME IInv, [Next]_vars
             PROVE  Contract!CNext \/ UNCHANGED Contract!contractVars
  BY DEF Contract!contractVars
<1>0. ASSUME UNCHANGED ContractView PROVE UNCHANGED Contract!contractVars
  BY <1>0 DEF ContractView, Contract!contractVars
<1>1. CASE ReferenceEdge
  <2>1. /\ cycle_id' = cycle_id + 1
        /\ UNCHANGED <<sparked, coil_active, ignition_mode>>
    BY <1>1 DEF ReferenceEdge, mode
  <2>2. Contract!Reference
    BY <2>1 DEF Contract!Reference
  <2> QED
    BY <2>2 DEF Contract!CNext
<1>2. CASE FireCount
  BY <1>2, ContractSpark DEF Contract!CNext
<1>3. CASE \/ FireDrop \/ force_coil_off("f_off", "f_count")
           \/ force_coil_off("o_drop", "idle") \/ SetCoil("o_charge", "idle", TRUE)
           \/ force_coil_off("c_off", "c_mode") \/ StopForcesOff
  <2>1. Contract!Charge \/ Contract!Collapse
    BY <1>3, ContractCoil DEF FireDrop, StopForcesOff, force_coil_off
  <2> QED
    BY <2>1 DEF Contract!CNext
<1>4. CASE TickSetsMode \/ SetMode("c_mode", "c_reset", {"INHIBIT"})
  <2>1. UNCHANGED <<cycle_id, sparked, coil_active>>
    BY <1>4 DEF TickSetsMode, SetMode, decoder
  <2>2. Contract!Enable
    BY <2>1 DEF Contract!Enable
  <2> QED
    BY <2>2 DEF Contract!CNext
<1>5. CASE \/ SchedulerStart \/ TickStart \/ TickCuts \/ TickProceeds
           \/ StopTimers \/ CutCancels \/ Cancel("h_fire", "h_on", "h_off")
  <2>1. \E e, from, to : Branch(from, to) \/ Disarm(e, from, to)
    BY <1>5 DEF SchedulerStart, TickStart, TickCuts, TickProceeds, StopTimers,
       CutCancels, Cancel
  <2> QED
    BY <2>1, <1>0, ContractStutter
<1>6. CASE FireHalf \/ OnHalf
  <2>1. \/ FireCount \/ FireDrop \/ force_coil_off("f_off", "f_count")
        \/ force_coil_off("o_drop", "idle") \/ SetCoil("o_charge", "idle", TRUE)
        \/ \E e, from, to : Branch(from, to) \/ Take(e, from, to)
    BY <1>6 DEF FireHalf, OnHalf, Pass, Timely
  <2> QED
    BY <2>1, <1>0, <1>2, <1>3, ContractStutter
<1> QED
  BY <1>0, <1>1, <1>3, <1>4, <1>5, <1>6, ContractStutter
     DEF Next, crank_isr, scheduler_tick, soft_process_tick, CutIgnition,
         stop_ecu, StopSteps

(* For any number of reference edges, v1 keeps the contract that v2 keeps: *)
(* one spark at most for each, counted with the coil collapsed, and no     *)
(* charge in INHIBIT mode.                                                 *)
THEOREM ImplementsContract == Spec => KeepsContract
<1>1. Init => Contract!CInit
  BY DEF Init, Contract!CInit
<1> QED
  BY <1>1, ContractStep, Inductive, PTL DEF Spec, KeepsContract, Contract!CSpec
=============================================================================
