-------------------------------- MODULE EcuV1 --------------------------------
(***************************************************************************)
(* The ignition path of the v1 ECU, ecu/main.py, on one core.              *)
(*                                                                         *)
(* Three levels share the module's globals.  The crank interrupt is hard:  *)
(* one edge is one action, and it may fall between any two accesses of the *)
(* others.  The timer callbacks, scheduler_tick and soft_process_tick, are *)
(* soft: MicroPython runs them one at a time, and `pc' is the point the    *)
(* running one has reached.  The main loop runs between them, and is kept  *)
(* to stop_ecu.                                                            *)
(*                                                                         *)
(* Time is abstract: `due' says which event times are past, and is set     *)
(* between callbacks only, since a callback reads the clock once.  The     *)
(* decoder is kept to whether a tooth period is known; its counting is     *)
(* that of Crank.  Outside soft_process_tick sync_state is LOST exactly    *)
(* when the mode is INHIBIT.  Faults are a sink.                           *)
(***************************************************************************)
EXTENDS Naturals, FiniteSets

CONSTANT MaxCycle   (* reference edges in a behaviour (bounds cycle_id)      *)

ASSUME CycleAssumption == MaxCycle \in Nat

VARIABLES
  cycle_id,
  period_known,      (* g_tooth_period_us > 0                                *)
  ignition_mode,
  cached,            (* cached_fire_delay_us > 0                             *)
  armed,             (* fire_armed, on_armed                                 *)
  event_cycle,       (* fire_cycle_id, on_cycle_id                           *)
  due,               (* fire_time_us, on_time_us are past                    *)
  coil_active,       (* and the coil pin                                     *)
  inhibit,           (* the inhibit pin is low                               *)
  pc, taken,         (* the soft level: point reached, fire_due_cycle or     *)
                     (* on_due_cycle                                         *)
  spark_counter,
  sparked,           (* history: the cycles it has counted                   *)
  cut,               (* history: ignition was cut, and neither promoted nor  *)
                     (* being cut again since                                *)
  slipped            (* history: a reference edge armed its events while the *)
                     (* last cut was past cancelling                         *)

decoder == <<cycle_id, period_known>>
mode    == <<ignition_mode, cached>>
events  == <<armed, event_cycle, due>>
hist    == <<spark_counter, sparked, cut, slipped>>
vars    == <<decoder, mode, events, coil_active, inhibit, pc, taken, hist>>

Events == {"fire", "on"}
Modes  == {"INHIBIT", "SAFE", "PRECISION"}
Pcs    == {"idle", "fire", "f_judge", "f_drop", "f_off", "f_count",
           "on", "on_fired", "o_judge", "o_drop", "o_charge",
           "t_known", "t_lost", "t_promote", "t_demote", "t_delay",
           "c_cache", "c_fire", "c_on", "c_off", "c_mode", "c_reset",
           "h_fire", "h_on", "h_off", "halted"}

Init ==
  /\ cycle_id = 0 /\ period_known = FALSE
  /\ ignition_mode = "INHIBIT" /\ cached = FALSE
  /\ armed = [e \in Events |-> FALSE]
  /\ event_cycle = [e \in Events |-> 0]
  /\ due = [e \in Events |-> FALSE]
  /\ coil_active = FALSE /\ inhibit \in BOOLEAN
  /\ pc = "idle" /\ taken = 0
  /\ spark_counter = 0 /\ sparked = {} /\ cut = FALSE /\ slipped = FALSE

-----------------------------------------------------------------------------
(* crank_isr.  Bounces and implausible edges only count; a tooth that is   *)
(* no reference makes the period known.                                    *)
ToothEdge ==
  /\ period_known' = TRUE
  /\ UNCHANGED <<cycle_id, mode, events, coil_active, inhibit, pc, taken, hist>>

(* Cancelling is over for an event armed now.                              *)
PastCancel == {"c_on", "c_off", "c_mode"}

(* Both events are armed, over what is left of the previous pair.  The     *)
(* coil is due at once if the dwell is longer than the fire delay: so may  *)
(* be the profile's safe pair, and a dwell that a tick has just refreshed  *)
(* together with the fire delay that it is about to.                       *)
Arm(c) ==
  /\ armed' = [e \in Events |-> TRUE]
  /\ event_cycle' = [e \in Events |-> c]
  /\ \E now \in IF ignition_mode = "SAFE" \/ pc = "t_delay" THEN BOOLEAN
                                                           ELSE {FALSE} :
       due' = [e \in Events |-> e = "on" /\ now]
  /\ slipped' = (slipped \/ pc \in PastCancel)

Schedules == ignition_mode = "SAFE" \/ (ignition_mode = "PRECISION" /\ cached)

(* Mutant: the pair is tagged with the next cycle.                         *)
TagsNext ==
  /\ cycle_id < MaxCycle
  /\ cycle_id' = cycle_id + 1 /\ period_known' = TRUE
  /\ IF Schedules THEN Arm(cycle_id + 2) ELSE UNCHANGED <<events, slipped>>
  /\ UNCHANGED <<mode, coil_active, inhibit, pc, taken, spark_counter, sparked,
                 cut>>

ReferenceEdge ==
  /\ cycle_id < MaxCycle
  /\ cycle_id' = cycle_id + 1 /\ period_known' = TRUE
  /\ IF Schedules THEN Arm(cycle_id + 1) ELSE UNCHANGED <<events, slipped>>
  /\ UNCHANGED <<mode, coil_active, inhibit, pc, taken, spark_counter, sparked,
                 cut>>

crank_isr == ToothEdge \/ ReferenceEdge

-----------------------------------------------------------------------------
(* Steps of the soft level and of stop_ecu.                                *)

Branch(from, to) ==
  /\ pc = from /\ pc' = to
  /\ UNCHANGED <<decoder, mode, events, coil_active, inhibit, taken, hist>>

SetCoil(from, to, on) ==
  /\ pc = from /\ pc' = to /\ coil_active' = on
  /\ UNCHANGED <<decoder, mode, events, inhibit, taken, hist>>

force_coil_off(from, to) == SetCoil(from, to, FALSE)

Disarm(e, from, to) ==
  /\ pc = from /\ pc' = to
  /\ armed' = [armed EXCEPT ![e] = FALSE]
  /\ UNCHANGED <<decoder, mode, event_cycle, due, coil_active, inhibit, taken,
                 hist>>

(* cancel_events                                                           *)
Cancel(first, second, to) == Disarm("fire", first, second)
                             \/ Disarm("on", second, to)

-----------------------------------------------------------------------------
(* scheduler_tick.                                                         *)

SchedulerStart == Branch("idle", "fire")

(* Mutant: the event stays armed.                                          *)
TakeKeeps(e, from, to) ==
  /\ pc = from /\ armed[e] /\ due[e] /\ pc' = to
  /\ taken' = event_cycle[e]
  /\ UNCHANGED <<decoder, mode, events, coil_active, inhibit, hist>>

(* With interrupts off: an armed event that is due is taken.               *)
Take(e, from, to) ==
  /\ pc = from /\ armed[e] /\ due[e] /\ pc' = to
  /\ armed' = [armed EXCEPT ![e] = FALSE]
  /\ taken' = event_cycle[e]
  /\ UNCHANGED <<decoder, mode, event_cycle, due, coil_active, inhibit, hist>>

Pass(e, from, to) == ~(armed[e] /\ due[e]) /\ Branch(from, to)

(* Mutant: the mode is not looked at.                                      *)
TimelyInAnyMode(from, to) == taken = cycle_id /\ Branch(from, to)

(* An event may always turn out late; one of another cycle is stale.       *)
Timely(from, to) ==
  taken = cycle_id /\ ignition_mode # "INHIBIT" /\ Branch(from, to)

FireCount ==
  /\ pc = "f_count" /\ pc' = "on_fired"
  /\ spark_counter' = spark_counter + 1
  /\ sparked' = sparked \cup {taken}
  /\ UNCHANGED <<decoder, mode, events, coil_active, inhibit, taken, cut,
                 slipped>>

(* Mutant: a stale fire event leaves the coil alone.                       *)
DropKeepsCoil == Branch("f_drop", "on_fired")

FireDrop == force_coil_off("f_drop", "on_fired")

FireHalf == \/ Take("fire", "fire", "f_judge") \/ Pass("fire", "fire", "on")
            \/ Timely("f_judge", "f_off") \/ Branch("f_judge", "f_drop")
            \/ FireDrop \/ force_coil_off("f_off", "f_count") \/ FireCount

(* After a fire event in the same tick, a dwell-on event is dropped.       *)
OnHalf == \/ Take("on", "on", "o_judge")      \/ Pass("on", "on", "idle")
          \/ Take("on", "on_fired", "o_drop") \/ Pass("on", "on_fired", "idle")
          \/ Timely("o_judge", "o_charge") \/ Branch("o_judge", "o_drop")
          \/ force_coil_off("o_drop", "idle")
          \/ SetCoil("o_charge", "idle", TRUE)

scheduler_tick == SchedulerStart \/ FireHalf \/ OnHalf

-----------------------------------------------------------------------------
(* soft_process_tick.                                                      *)

(* With interrupts off: the decoder's globals are read.                    *)
TickStart == Branch("idle", IF period_known THEN "t_known" ELSE "t_lost")

(* The inhibit, a timeout, or a count at its limit.                        *)
TickCuts == \/ Branch("t_known", "c_cache") \/ Branch("t_lost", "c_cache")

TickProceeds ==
  /\ ~inhibit
  /\ Branch("t_known", "t_promote") \/ Branch("t_lost", "t_demote")

SetMode(from, to, modes) ==
  /\ pc = from /\ pc' = to
  /\ ignition_mode' \in modes
  /\ cut' = (ignition_mode' = "INHIBIT" /\ (cut \/ from = "c_mode"))
  /\ UNCHANGED <<decoder, cached, events, coil_active, inhibit, taken,
                 spark_counter, sparked, slipped>>

(* The period sampled, the edge count and the lockout decide.              *)
TickSetsMode == \/ SetMode("t_promote", "t_delay", {"SAFE", "PRECISION"})
                \/ SetMode("t_demote", "t_delay", {"INHIBIT"})

(* The fire delay, if it leaves room for the dwell and the lead guards.    *)
TickCachesDelay ==
  /\ pc = "t_delay" /\ pc' = "idle"
  /\ cached' \in IF ignition_mode = "PRECISION" THEN BOOLEAN ELSE {FALSE}
  /\ UNCHANGED <<decoder, ignition_mode, events, coil_active, inhibit, taken,
                 hist>>

CutCache ==
  /\ pc = "c_cache" /\ pc' = "c_fire"
  /\ cached' = FALSE /\ cut' = FALSE /\ slipped' = FALSE
  /\ UNCHANGED <<decoder, ignition_mode, events, coil_active, inhibit, taken,
                 spark_counter, sparked>>

(* Mutant: only the fire event is cancelled.                               *)
CancelsFireOnly == Disarm("fire", "c_fire", "c_off")

CutCancels == Cancel("c_fire", "c_on", "c_off")

reset_gear_state ==
  /\ pc = "c_reset" /\ pc' = "idle"
  /\ period_known' = FALSE
  /\ UNCHANGED <<cycle_id, mode, events, coil_active, inhibit, taken, hist>>

CutIgnition == \/ CutCache \/ CutCancels \/ force_coil_off("c_off", "c_mode")
               \/ SetMode("c_mode", "c_reset", {"INHIBIT"}) \/ reset_gear_state

soft_process_tick == \/ TickStart \/ TickCuts \/ TickProceeds \/ TickSetsMode
                     \/ TickCachesDelay \/ CutIgnition

-----------------------------------------------------------------------------
(* stop_ecu: no callback starts any more once the timers are stopped (one  *)
(* that was queued runs first); the crank interrupt stays on.              *)

StopTimers == Branch("idle", "h_fire")

(* Mutant: the coil is left as it is.                                      *)
StopKeepsCoil == Branch("h_off", "halted")

StopForcesOff == force_coil_off("h_off", "halted")

StopSteps == Cancel("h_fire", "h_on", "h_off") \/ StopForcesOff

stop_ecu == StopTimers \/ StopSteps

-----------------------------------------------------------------------------
(* The world: the pin, and time.  A coil is due before it fires.           *)
Pin ==
  /\ inhibit' \in BOOLEAN
  /\ UNCHANGED <<decoder, mode, events, coil_active, pc, taken, hist>>

Elapse ==
  /\ pc = "idle"
  /\ \E e \in Events :
       /\ armed[e] /\ ~due[e]
       /\ e = "fire" /\ armed["on"] => due["on"]
       /\ due' = [due EXCEPT ![e] = TRUE]
  /\ UNCHANGED <<decoder, mode, armed, event_cycle, coil_active, inhibit, pc,
                 taken, hist>>

Next == crank_isr \/ scheduler_tick \/ soft_process_tick \/ stop_ecu \/ Pin
        \/ Elapse

(* The timers are periodic, a callback that runs ends, stop_ecu ends, and  *)
(* the time of an event comes.                                             *)
Running  == FireHalf \/ OnHalf \/ TickCuts \/ TickProceeds \/ TickSetsMode
            \/ TickCachesDelay \/ CutIgnition \/ StopSteps
Fairness == WF_vars(Running) /\ SF_vars(SchedulerStart) /\ SF_vars(Elapse)

Spec     == Init /\ [][Next]_vars
FairSpec == Spec /\ Fairness

-----------------------------------------------------------------------------
TypeOK ==
  /\ cycle_id \in 0 .. MaxCycle /\ period_known \in BOOLEAN
  /\ ignition_mode \in Modes /\ cached \in BOOLEAN
  /\ armed \in [Events -> BOOLEAN] /\ due \in [Events -> BOOLEAN]
  /\ event_cycle \in [Events -> 0 .. cycle_id]
  /\ coil_active \in BOOLEAN /\ inhibit \in BOOLEAN
  /\ pc \in Pcs /\ taken \in 0 .. cycle_id
  /\ spark_counter \in Nat /\ sparked \subseteq 1 .. cycle_id
  /\ cut \in BOOLEAN /\ slipped \in BOOLEAN

(* No reference edge is counted as more than one spark, although edges     *)
(* overwrite the events between the taking of one and its judgement.       *)
AtMostOneSparkPerReference ==
  /\ spark_counter = Cardinality(sparked)
  /\ spark_counter <= cycle_id

(* A charging coil always has its end on the way: a fire event armed that  *)
(* a callback will come for, or the code that forces it off.  Reference    *)
(* edges that overwrite the pair, stale events, a cut and stop_ecu keep it *)
(* so (the v2 scheduler does not: Scheduler, ChargeHasAnEnd).              *)
ChargeHasAnEnd ==
  coil_active =>
    \/ armed["fire"] /\ pc # "halted"
    \/ pc \in {"f_judge", "f_drop", "f_off", "c_on", "c_off", "h_on", "h_off"}

(* After a cut the coil stays off until a tick promotes the mode, and no   *)
(* event is left armed that could charge it then, unless a reference edge  *)
(* slipped in between the cancelling and the change of mode.               *)
CutHolds ==
  cut => /\ ~coil_active
         /\ slipped \/ \A e \in Events : ~armed[e]

(* v1 keeps the contract with the engine that v2 keeps: one spark at most  *)
(* for a reference edge, with the coil collapsed, no charge in INHIBIT.    *)
Contract == INSTANCE IgnitionContract
              WITH references <- cycle_id, sparked <- sparked,
                   coil <- coil_active, enabled <- (ignition_mode # "INHIBIT")
KeepsContract == Contract!CSpec

(* Once reference edges stop, the coil is not left charged.                *)
ChargesEnd == <>[][~ReferenceEdge]_vars => []<>(~coil_active)
=============================================================================
