------------------------------ MODULE Scheduler ------------------------------
(***************************************************************************)
(* The ignition path of the ECU's Core 1: scheduler.c and ignition.c, with *)
(* the part of crank.c that drives them.                                   *)
(*                                                                         *)
(* Two interrupt levels share this state.  The PIO interrupt runs at       *)
(* priority 0 and is never interrupted: one reference edge is one action.  *)
(* The alarm-pool interrupt runs the dwell callback, the fire callback and *)
(* the 1 kHz soft tick one at a time, and the PIO interrupt may preempt it *)
(* between any two of its writes: `pc' is the point it has reached, and    *)
(* each of its writes is an action.  Core 0 stores to the command block at *)
(* any time.                                                               *)
(*                                                                         *)
(* Time is abstract: an outstanding alarm may expire at any moment, a pair *)
(* in its own order (dwell-on is always before fire).  The decoder is kept *)
(* to what decides the ignition mode: whether a tooth period is known.     *)
(* Faults raised here are a sink that nothing on this path reads back;     *)
(* FaultRing models them.                                                  *)
(***************************************************************************)
EXTENDS Integers, FiniteSets

CONSTANTS MaxCycle,  (* reference edges in a behaviour (bounds cycle_id)      *)
          PoolSize   (* alarm slots left beside the soft tick's (7 in source) *)

ASSUME SchedulerAssumption == MaxCycle \in Nat /\ PoolSize \in Nat

VARIABLES
  cycle_id,          (* crank.c s.cycle_id: reference edges so far            *)
  period_known,      (* crank.c s.tooth_period_us > 0                         *)
  ignition_mode,     (* crank.c s.ignition_mode                               *)
  armed_cycle_id,    (* scheduler.c sch.armed_cycle_id                        *)
  armed,             (* sch.dwell_on_armed, sch.fire_armed                    *)
  alarm_id,          (* sch.dwell_on_alarm_id, sch.fire_alarm_id              *)
  spark_count,       (* sch.spark_count                                       *)
  coil,              (* ignition.c s_active and the coil pin                  *)
  pool,              (* the alarm pool: cycle ids of the alarms outstanding   *)
  inhibit,           (* inhibit pin low, or cmd.soft_inhibit                  *)
  reset_request, pending_commit,     (* ipc.h command block                   *)
  pc, tag, reg,      (* the alarm-level interrupt: point reached, user_data,  *)
                     (* value loaded for armed_cycle_id++                     *)
  raced,             (* history: a reference edge preempted that level        *)
  cut,               (* history: cancelled, and not promoted since            *)
  sparked            (* history: cycles counted as a spark                    *)

decoder == <<cycle_id, period_known, ignition_mode>>
slots   == <<armed, alarm_id, pool>>
cmd     == <<inhibit, reset_request, pending_commit>>
regs    == <<tag, reg>>
hist    == <<raced, cut, sparked>>
vars == <<decoder, armed_cycle_id, slots, spark_count, coil, cmd, pc, regs,
          hist>>

Events   == {"dwell_on", "fire"}
Modes    == {"INHIBIT", "SAFE", "PRECISION"}
CycleIds == 1 .. MaxCycle
NoAlarm  == -1

(* armed_cycle_id is only compared with tags, and arming overwrites it.    *)
(* A value above MaxCycle is no tag, so the increments stop there.         *)
MaxArmed == MaxCycle + 1

Pcs == {"idle",
        "dwell", "dwell_mode", "dwell_charge", "dwell_flag", "dwell_id",
        "fire", "fire_drop", "fire_off", "fire_count", "fire_flag", "fire_id",
        "tick", "t_mode", "t_quiet", "t_commit", "t_reset",
        "c_fire", "c_fire_flag", "c_fire_id", "c_dwell", "c_dwell_flag",
        "c_dwell_id", "c_load", "c_store", "c_off", "c_mode", "c_reset"}

Init ==
  /\ cycle_id = 0 /\ period_known = FALSE /\ ignition_mode = "INHIBIT"
  /\ armed_cycle_id = 0 /\ spark_count = 0 /\ coil = FALSE
  /\ armed = [e \in Events |-> FALSE]
  /\ alarm_id = [e \in Events |-> NoAlarm]
  /\ pool = [e \in Events |-> {}]
  /\ inhibit \in BOOLEAN /\ reset_request = FALSE /\ pending_commit = FALSE
  /\ pc = "idle" /\ tag = 0 /\ reg = 0
  /\ raced = FALSE /\ cut = FALSE /\ sparked = {}

-----------------------------------------------------------------------------
(* The PIO interrupt.                                                      *)

(* An accepted tooth edge that is no reference: the period becomes known.  *)
ToothEdge ==
  /\ period_known' = TRUE
  /\ UNCHANGED <<cycle_id, ignition_mode, armed_cycle_id, slots, spark_count,
                 coil, cmd, pc, regs, hist>>

(* What cancelling event e leaves: it goes by the flag and the id stored.  *)
Kept(e)          == IF armed[e] THEN pool[e] \ {alarm_id[e]} ELSE pool[e]
IdAfterCancel(e) == IF armed[e] THEN NoAlarm ELSE alarm_id[e]

FreeSlots == PoolSize - Cardinality(Kept("dwell_on"))
                      - Cardinality(Kept("fire"))

(* Return without arming: INHIBIT, the advance or dwell is unschedulable,  *)
(* the dwell-on time is too close, or the pool has no slot for dwell-on.   *)
ArmNothing ==
  /\ armed' = [e \in Events |-> FALSE]
  /\ alarm_id' = [e \in Events |-> IdAfterCancel(e)]
  /\ pool' = [e \in Events |-> Kept(e)]
  /\ UNCHANGED coil

ArmPair(c) ==
  /\ ignition_mode # "INHIBIT" /\ FreeSlots >= 2
  /\ armed' = [e \in Events |-> TRUE]
  /\ alarm_id' = [e \in Events |-> c]
  /\ pool' = [e \in Events |-> Kept(e) \cup {c}]
  /\ UNCHANGED coil

(* Only dwell-on got a slot: it is cancelled again and the coil forced off.*)
ArmHalf ==
  /\ ignition_mode # "INHIBIT" /\ FreeSlots = 1
  /\ armed' = [e \in Events |-> FALSE]
  /\ alarm_id' = [e \in Events |-> IF e = "fire" THEN IdAfterCancel(e)
                                                 ELSE NoAlarm]
  /\ pool' = [e \in Events |-> Kept(e)]
  /\ coil' = FALSE

scheduler_arm_for_reference(c) ==
  /\ armed_cycle_id' = c
  /\ ArmNothing \/ ArmPair(c) \/ ArmHalf

(* Mutant: the pair is tagged before cycle_id is incremented.              *)
TaggedTooEarly ==
  /\ cycle_id < MaxCycle
  /\ cycle_id' = cycle_id + 1
  /\ period_known' = TRUE
  /\ scheduler_arm_for_reference(cycle_id)
  /\ raced' = (raced \/ pc # "idle")
  /\ UNCHANGED <<ignition_mode, spark_count, cmd, pc, regs, cut, sparked>>

ReferenceEdge ==
  /\ cycle_id < MaxCycle
  /\ cycle_id' = cycle_id + 1
  /\ period_known' = TRUE
  /\ scheduler_arm_for_reference(cycle_id + 1)
  /\ raced' = (raced \/ pc # "idle")
  /\ UNCHANGED <<ignition_mode, spark_count, cmd, pc, regs, cut, sparked>>

-----------------------------------------------------------------------------
(* Steps of the alarm level.                                               *)

Goto(from, to) == pc = from /\ pc' = to /\ UNCHANGED regs

(* A step that only decides where to go next.                              *)
Branch(from, to) ==
  /\ Goto(from, to)
  /\ UNCHANGED <<decoder, armed_cycle_id, slots, spark_count, coil, cmd, hist>>

SetCoil(from, to, on) ==
  /\ Goto(from, to)
  /\ coil' = on
  /\ UNCHANGED <<decoder, armed_cycle_id, slots, spark_count, cmd, hist>>

(* <e>_armed = false                                                       *)
ClearFlag(e, from, to) ==
  /\ Goto(from, to)
  /\ armed' = [armed EXCEPT ![e] = FALSE]
  /\ UNCHANGED <<decoder, armed_cycle_id, alarm_id, pool, spark_count, coil,
                 cmd, hist>>

(* <e>_alarm_id = -1                                                       *)
ClearId(e, from, to) ==
  /\ Goto(from, to)
  /\ alarm_id' = [alarm_id EXCEPT ![e] = NoAlarm]
  /\ UNCHANGED <<decoder, armed_cycle_id, armed, pool, spark_count, coil, cmd,
                 hist>>

(* The pool takes an expired alarm out and enters its callback.            *)
Expire(e, c, to) ==
  /\ pc = "idle" /\ c \in pool[e]
  /\ pool' = [pool EXCEPT ![e] = @ \ {c}]
  /\ pc' = to /\ tag' = c
  /\ UNCHANGED <<decoder, armed_cycle_id, armed, alarm_id, spark_count, coil,
                 cmd, reg, hist>>

-----------------------------------------------------------------------------
(* The dwell-on callback.                                                  *)

DwellExpire    == \E c \in pool["dwell_on"] : Expire("dwell_on", c, "dwell")
DwellTagCheck  == Branch("dwell", IF tag = armed_cycle_id THEN "dwell_mode"
                                                          ELSE "idle")
(* Mutant: the callback charges whatever the mode.                         *)
DwellUnguarded == Branch("dwell_mode", "dwell_charge")

DwellModeCheck == Branch("dwell_mode", IF ignition_mode = "INHIBIT"
                                       THEN "dwell_flag" ELSE "dwell_charge")
DwellCharge    == SetCoil("dwell_charge", "dwell_flag", TRUE)
DwellClearFlag == ClearFlag("dwell_on", "dwell_flag", "dwell_id")
DwellClearId   == ClearId("dwell_on", "dwell_id", "idle")

dwell_on_callback == \/ DwellExpire \/ DwellTagCheck \/ DwellModeCheck
                     \/ DwellCharge \/ DwellClearFlag \/ DwellClearId

-----------------------------------------------------------------------------
(* The fire callback.  A stale event forces the coil off too, and counts   *)
(* no spark.                                                               *)

(* Mutant: the callback returns a period, and its alarm is rearmed.        *)
FireRepeats ==
  \E c \in pool["fire"] \ pool["dwell_on"] :
    /\ pc = "idle" /\ pc' = "fire" /\ tag' = c
    /\ UNCHANGED <<decoder, armed_cycle_id, slots, spark_count, coil, cmd, reg,
                   hist>>

(* Mutant: the spark is counted before the coil is forced off.             *)
FireCountsFirst == Branch("fire_off", "fire_count")

(* Mutant: the callback leaves its armed flag set.                         *)
FireStaysArmed == Branch("fire_flag", "fire_id")

FireExpire   == \E c \in pool["fire"] \ pool["dwell_on"] :
                   Expire("fire", c, "fire")
FireTagCheck == Branch("fire", IF tag = armed_cycle_id THEN "fire_off"
                                                       ELSE "fire_drop")
FireForceOff == SetCoil("fire_off", "fire_count", FALSE)
FireDrop     == SetCoil("fire_drop", "fire_flag", FALSE)

FireCount ==
  /\ Goto("fire_count", "fire_flag")
  /\ spark_count' = spark_count + 1
  /\ sparked' = sparked \cup {tag}
  /\ UNCHANGED <<decoder, armed_cycle_id, slots, coil, cmd, raced, cut>>

FireClearFlag == ClearFlag("fire", "fire_flag", "fire_id")
FireClearId   == ClearId("fire", "fire_id", "idle")

fire_callback == \/ FireExpire \/ FireTagCheck \/ FireForceOff \/ FireDrop
                 \/ FireCount \/ FireClearFlag \/ FireClearId

-----------------------------------------------------------------------------
(* scheduler_cancel_all, as the soft tick runs it.                         *)

CancelAlarm(e, from, to) ==
  /\ Goto(from, to)
  /\ pool' = [pool EXCEPT ![e] = Kept(e)]
  /\ UNCHANGED <<decoder, armed_cycle_id, armed, alarm_id, spark_count, coil,
                 cmd, hist>>

CancelFire  == CancelAlarm("fire", "c_fire",
                           IF armed["fire"] THEN "c_fire_flag" ELSE "c_dwell")
CancelDwell == CancelAlarm("dwell_on", "c_dwell", IF armed["dwell_on"]
                                            THEN "c_dwell_flag" ELSE "c_load")

(* armed_cycle_id++ is a load and a store.                                 *)
CancelLoad ==
  /\ pc = "c_load" /\ pc' = "c_store"
  /\ reg' = armed_cycle_id
  /\ UNCHANGED <<decoder, armed_cycle_id, slots, spark_count, coil, cmd, tag,
                 hist>>

CancelStore ==
  /\ Goto("c_store", "c_off")
  /\ armed_cycle_id' = IF reg < MaxArmed THEN reg + 1 ELSE MaxArmed
  /\ UNCHANGED <<decoder, slots, spark_count, coil, cmd, hist>>

CancelFireFlag  == ClearFlag("fire", "c_fire_flag", "c_fire_id")
CancelFireId    == ClearId("fire", "c_fire_id", "c_dwell")
CancelDwellFlag == ClearFlag("dwell_on", "c_dwell_flag", "c_dwell_id")
CancelDwellId   == ClearId("dwell_on", "c_dwell_id", "c_load")

(* Mutant: cancelling leaves the coil as it is.                            *)
CancelKeepsCoil == Branch("c_off", "c_mode")

CancelForceOff  == SetCoil("c_off", "c_mode", FALSE)

scheduler_cancel_all ==
  \/ CancelFire  \/ CancelFireFlag  \/ CancelFireId
  \/ CancelDwell \/ CancelDwellFlag \/ CancelDwellId
  \/ CancelLoad \/ CancelStore \/ CancelForceOff

-----------------------------------------------------------------------------
(* The soft tick.                                                          *)

TickStart == Branch("idle", "tick")

(* The inhibit is sampled once; a timeout or a streak at its limit takes   *)
(* the same path.                                                          *)
TickCancels  == Branch("tick", "c_fire")
TickProceeds == ~inhibit /\ Branch("tick", "t_mode")

(* The mode follows the sync state: LOST without a period, otherwise       *)
(* SYNCING or SYNCED by the edge count and the lockout (Crank has the      *)
(* details).  The period is read before the mode is written, and the first *)
(* tooth edge may come between.                                            *)
SetMode(from, to, modes) ==
  /\ Goto(from, to)
  /\ ignition_mode' \in modes
  /\ cut' = (ignition_mode' = "INHIBIT" /\ (cut \/ from = "c_mode"))
  /\ UNCHANGED <<cycle_id, period_known, armed_cycle_id, slots, spark_count,
                 coil, cmd, raced, sparked>>

TickInhibits == SetMode("c_mode", "c_reset", {"INHIBIT"})
TickSetsMode == SetMode("t_mode", "t_quiet",
                        IF period_known THEN Modes ELSE {"INHIBIT"})

TickForgets ==
  /\ Goto("c_reset", "t_reset")
  /\ period_known' = FALSE
  /\ UNCHANGED <<cycle_id, ignition_mode, armed_cycle_id, slots, spark_count,
                 coil, cmd, hist>>

(* Mutant: only the dwell-on flag is looked at.                            *)
QuietByDwell == ~armed["dwell_on"]

scheduler_is_quiescent == \A e \in Events : ~armed[e]

TickQuiet == Branch("t_quiet", IF scheduler_is_quiescent THEN "t_commit"
                                                         ELSE "t_reset")

(* The pending profile becomes the active one.                             *)
TickCommit ==
  /\ Goto("t_commit", "t_reset")
  /\ pending_commit' = FALSE
  /\ UNCHANGED <<decoder, armed_cycle_id, slots, spark_count, coil, inhibit,
                 reset_request, hist>>

(* After publishing: a reset asked for by Core 0 forgets the decoder state.*)
TickReset ==
  /\ Goto("t_reset", "idle")
  /\ reset_request' = FALSE
  /\ period_known' = (period_known /\ ~reset_request)
  /\ UNCHANGED <<cycle_id, ignition_mode, armed_cycle_id, slots, spark_count,
                 coil, inhibit, pending_commit, hist>>

crank_soft_tick == \/ TickStart \/ TickCancels \/ TickProceeds
                   \/ scheduler_cancel_all \/ TickInhibits \/ TickForgets
                   \/ TickSetsMode \/ TickQuiet \/ TickCommit \/ TickReset

-----------------------------------------------------------------------------
(* Core 0 and the rider's switch: a store to the command block each.       *)

Core0 ==
  /\ \/ inhibit' \in BOOLEAN /\ UNCHANGED <<reset_request, pending_commit>>
     \/ reset_request' = TRUE /\ UNCHANGED <<inhibit, pending_commit>>
     \/ pending_commit' = TRUE /\ UNCHANGED <<inhibit, reset_request>>
  /\ UNCHANGED <<decoder, armed_cycle_id, slots, spark_count, coil, pc, regs,
                 hist>>

-----------------------------------------------------------------------------
AlarmLevel == dwell_on_callback \/ fire_callback \/ crank_soft_tick

Next == ToothEdge \/ ReferenceEdge \/ AlarmLevel \/ Core0

(* The hardware timer keeps serving the alarm interrupt: what is due runs, *)
(* a handler that runs finishes, and the tick comes round again.           *)
Fairness == WF_vars(AlarmLevel) /\ SF_vars(TickStart)

Spec     == Init /\ [][Next]_vars
FairSpec == Spec /\ Fairness

-----------------------------------------------------------------------------
TypeOK ==
  /\ cycle_id \in 0 .. MaxCycle
  /\ period_known \in BOOLEAN
  /\ ignition_mode \in Modes
  /\ armed_cycle_id \in 0 .. MaxArmed
  /\ armed \in [Events -> BOOLEAN]
  /\ alarm_id \in [Events -> CycleIds \cup {NoAlarm}]
  /\ pool \in [Events -> SUBSET CycleIds]
  /\ spark_count \in Nat
  /\ coil \in BOOLEAN
  /\ inhibit \in BOOLEAN /\ reset_request \in BOOLEAN
  /\ pending_commit \in BOOLEAN
  /\ pc \in Pcs /\ tag \in 0 .. MaxCycle /\ reg \in 0 .. MaxArmed
  /\ raced \in BOOLEAN /\ cut \in BOOLEAN
  /\ sparked \subseteq CycleIds

(* No reference edge is counted as more than one spark, whatever preempts  *)
(* what: spark_count (scheduler.c:103) never exceeds the reference edges.  *)
AtMostOneSparkPerReference ==
  /\ spark_count = Cardinality(sparked)
  /\ spark_count <= cycle_id

(* Once a tick has cut ignition (inhibit, timeout or streak), the coil     *)
(* stays off until a later tick promotes the mode again, although alarms   *)
(* armed while it was cutting may still expire.                            *)
CutHolds == cut => ~coil

(* The scheduler keeps the contract with the engine: at most one spark for *)
(* a reference edge, counted with the coil collapsed, and no charge begun  *)
(* in INHIBIT mode, even when the mode changes or a reference edge comes   *)
(* between arming and the dwell-on alarm.                                  *)
Contract == INSTANCE IgnitionContract
              WITH references <- cycle_id, sparked <- sparked, coil <- coil,
                   enabled <- (ignition_mode # "INHIBIT")
KeepsContract == Contract!CSpec

(* As long as no reference edge has preempted the alarm level, the armed   *)
(* flags and ids are the truth about the pool between handlers: what       *)
(* scheduler_is_quiescent and the cancels rely on.                         *)
FlagsMatchPool ==
  pc = "idle" /\ ~raced =>
    \A e \in Events :
      pool[e] = IF armed[e] THEN {alarm_id[e]} ELSE {}

(* ... and the profile is then swapped only when no alarm is outstanding.  *)
QuietCommit ==
  [][pc = "t_commit" /\ pc' = "t_reset" /\ ~raced
        => \A e \in Events : pool[e] = {}]_vars

(* An inhibit that stays on takes the coil down for good.                  *)
InhibitKillsCoil == <>[]inhibit => <>[](~coil)

-----------------------------------------------------------------------------
(* What comments in the source say, and the code does not keep.            *)

(* ipc.c:83: the profile is swapped "at a known-quiet boundary (no alarm   *)
(* armed, ...)".  A reference edge that preempts a callback has its armed  *)
(* flags cleared by that callback, and the tick then takes the scheduler   *)
(* for quiescent.                                                          *)
CommitOnlyWhenQuiet ==
  [][pc = "t_commit" /\ pc' = "t_reset"
        => \A e \in Events : pool[e] = {}]_vars

(* ecu_types.h:68: "Hard limits the ignition path must obey", the longest  *)
(* dwell among them.  A charging coil then needs an event on its way that  *)
(* ends the charge; a reference edge that cancels the fire alarm and       *)
(* returns without arming leaves none.                                     *)
ChargeHasAnEnd ==
  coil => \/ pool["fire"] # {}
          \/ pc \in {"fire", "fire_off", "fire_drop"}
          \/ pc \in {"c_fire", "c_fire_flag", "c_fire_id", "c_dwell",
                     "c_dwell_flag", "c_dwell_id", "c_load", "c_store",
                     "c_off"}

(* scheduler.c:73: "never charge coil if inhibit went active between arm   *)
(* time and fire time".  The callback reads the mode of the last tick, not *)
(* the inhibit.                                                            *)
NoChargeUnderInhibit == [][~coil /\ coil' => ~inhibit]_vars

(* scheduler.h:43: the spark count "increments each time the fire alarm    *)
(* successfully collapses the coil".  A pair whose dwell-on event was      *)
(* dropped still counts its fire event.                                    *)
SparkHadCharge == [][pc = "fire_off" /\ pc' = "fire_count" => coil]_vars
=============================================================================
