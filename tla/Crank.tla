-------------------------------- MODULE Crank --------------------------------
(***************************************************************************)
(* The crank decoder of the ECU's Core 1, crank.c: process_one_edge, run   *)
(* by the PIO interrupt, and the sync state machine of crank_soft_tick,    *)
(* which the PIO interrupt may preempt between any two of its reads.       *)
(*                                                                         *)
(* Time is discrete.  No clock value is kept: last_edge_us is the time     *)
(* `since' the edge, precision_lockout_until_us the time `lockout' left,   *)
(* and the now_us the tick took at its start the time `age' since then.    *)
(* The tick is strictly periodic and ends within TickLag of its start; an  *)
(* edge may come at any moment, so an interval is a tooth, a gap, a bounce *)
(* or anything else.                                                       *)
(***************************************************************************)
EXTENDS Integers

CONSTANTS Teeth, SyncTooth, ToothMin, ToothMax, Debounce, EdgesToLock,
                           (* the profile's geometry                        *)
          Mtr10,           (* missing-tooth ratio, times ten                *)
          RangeLimit, NoiseLimit, SyncTimeout, Lockout,   (* fixed limits   *)
          TickPeriod, TickLag     (* the tick's period and longest run      *)

(* What sanitize_profile leaves of a profile, and the limits of the code.  *)
ASSUME CrankAssumption ==
  /\ Teeth \in Nat /\ SyncTooth \in 0 .. Teeth - 1
  /\ ToothMin \in Nat \ {0} /\ ToothMax \in Nat /\ ToothMin < ToothMax
  /\ Debounce \in Nat \ {0} /\ EdgesToLock \in Nat \ {0}
  /\ Mtr10 \in 12 .. 30
  /\ RangeLimit \in Nat \ {0} /\ NoiseLimit \in Nat \ {0}
  /\ SyncTimeout \in Nat /\ Lockout \in Nat
  /\ TickPeriod \in Nat \ {0} /\ TickLag \in Nat /\ TickLag < TickPeriod

VARIABLES
  since,            (* now - s.last_edge_us, or NoEdge when that is 0       *)
  tooth_period,     (* s.tooth_period_us                                    *)
  tooth_index, sync_edge_count, noise_streak, range_streak,
  cycle_id,         (* s.cycle_id, its lowest bit                           *)
  sync_state, ignition_mode,
  lockout,          (* s.precision_lockout_until_us - now                   *)
  next_tick,        (* time until the tick is due                           *)
  pc, age           (* the point the tick has reached; now - its now_us     *)

edges  == <<since, tooth_period, tooth_index, sync_edge_count, noise_streak,
            range_streak, cycle_id>>
sync   == <<sync_state, ignition_mode, lockout>>
timing == <<next_tick, age>>
vars   == <<edges, sync, timing, pc>>

NoEdge     == -1
SyncStates == {"LOST", "SYNCING", "SYNCED"}
Modes      == {"INHIBIT", "SAFE", "PRECISION"}
Pcs        == {"idle", "t_inhibit", "t_timeout", "t_range", "t_noise",
               "t_sync", "t_mode", "t_publish", "cut_inhibit", "cut_fault",
               "cut_reset"}

(* A counter that is compared with its limit and never beyond.             *)
UpTo(limit, n) == IF n < limit THEN n ELSE limit

Init ==
  /\ since = NoEdge /\ tooth_period = 0 /\ tooth_index = 0
  /\ sync_edge_count = 0 /\ noise_streak = 0 /\ range_streak = 0
  /\ cycle_id = 0 /\ sync_state = "LOST" /\ ignition_mode = "INHIBIT"
  /\ lockout = 0 /\ next_tick = TickPeriod /\ pc = "idle" /\ age = 0

-----------------------------------------------------------------------------
(* process_one_edge.                                                       *)

FirstEdge ==
  /\ since = NoEdge
  /\ since' = 0
  /\ UNCHANGED <<tooth_period, tooth_index, sync_edge_count, noise_streak,
                 range_streak, cycle_id, sync, timing, pc>>

NoiseEdge ==
  /\ since # NoEdge /\ since < Debounce
  /\ noise_streak' = UpTo(NoiseLimit, noise_streak + 1)
  /\ UNCHANGED <<since, tooth_period, tooth_index, sync_edge_count,
                 range_streak, cycle_id, sync, timing, pc>>

(* Mutant: no period needs to be known for a gap.                          *)
GapUnguarded == since >= Debounce /\ since * 10 > tooth_period * Mtr10

(* The gap check precedes the range check.                                 *)
IsGap == /\ since >= Debounce
         /\ tooth_period > 0 /\ since * 10 > tooth_period * Mtr10

InRange == ToothMin <= since /\ since <= ToothMax

(* The EMA of the period, the edge count, and the arming of a reference.   *)
Learn(reference) ==
  /\ since' = 0 /\ range_streak' = 0
  /\ tooth_period' = IF tooth_period = 0 THEN since
                     ELSE (tooth_period * 3 + since) \div 4
  /\ sync_edge_count' = UpTo(EdgesToLock, sync_edge_count + 1)
  /\ cycle_id' = IF reference THEN 1 - cycle_id ELSE cycle_id
  /\ UNCHANGED <<noise_streak, sync, timing, pc>>

GapEdge == IsGap /\ tooth_index' = SyncTooth /\ Learn(TRUE)

RejectedEdge ==
  /\ since >= Debounce /\ ~IsGap /\ ~InRange
  /\ since' = 0
  /\ range_streak' = UpTo(RangeLimit, range_streak + 1)
  /\ UNCHANGED <<tooth_period, tooth_index, sync_edge_count, noise_streak,
                 cycle_id, sync, timing, pc>>

(* Mutant: the index wraps one tooth too late.                             *)
WrapsLate ==
  /\ since >= Debounce /\ ~IsGap /\ InRange
  /\ tooth_index' = IF tooth_index + 1 > Teeth THEN 0 ELSE tooth_index + 1
  /\ Learn(tooth_index' = SyncTooth)

ToothEdge ==
  /\ since >= Debounce /\ ~IsGap /\ InRange
  /\ tooth_index' = IF tooth_index + 1 >= Teeth THEN 0 ELSE tooth_index + 1
  /\ Learn(tooth_index' = SyncTooth)

process_one_edge == \/ FirstEdge \/ NoiseEdge \/ GapEdge
                    \/ RejectedEdge \/ ToothEdge

-----------------------------------------------------------------------------
(* crank_soft_tick.                                                        *)

TickStart ==
  /\ pc = "idle" /\ next_tick = 0
  /\ pc' = "t_inhibit" /\ age' = 0 /\ next_tick' = TickPeriod
  /\ UNCHANGED <<edges, sync>>

Branch(from, to) == pc = from /\ pc' = to /\ UNCHANGED <<edges, sync, timing>>

(* The rider's switch and Core 0's flag are inputs.                        *)
TickInhibited == Branch("t_inhibit", "cut_inhibit")
TickAllowed   == Branch("t_inhibit", "t_timeout")

(* Mutant: the timeout is never noticed.                                   *)
TimeoutMissed == Branch("t_timeout", "t_range")

(* now_us - last_edge_us is unsigned: an edge that came after now_us was   *)
(* taken makes it huge.                                                    *)
TickTimeout ==
  LET elapsed == since - age
  IN Branch("t_timeout",
            IF since # NoEdge /\ (elapsed > SyncTimeout \/ elapsed < 0)
            THEN "cut_fault" ELSE "t_range")

TickRange == Branch("t_range", IF range_streak >= RangeLimit
                               THEN "cut_fault" ELSE "t_noise")
TickNoise == Branch("t_noise", IF noise_streak >= NoiseLimit
                               THEN "cut_fault" ELSE "t_sync")

(* Mutant: an edge count that is enough is enough.                         *)
SyncUnlocked ==
  /\ pc = "t_sync" /\ pc' = "t_mode"
  /\ sync_state' = IF tooth_period = 0 THEN "LOST"
                   ELSE IF sync_edge_count >= EdgesToLock THEN "SYNCED"
                   ELSE "SYNCING"
  /\ UNCHANGED <<edges, ignition_mode, lockout, timing>>

TickSync ==
  /\ pc = "t_sync" /\ pc' = "t_mode"
  /\ sync_state' = IF tooth_period = 0 THEN "LOST"
                   ELSE IF sync_edge_count >= EdgesToLock /\ lockout + age <= 0
                        THEN "SYNCED" ELSE "SYNCING"
  /\ UNCHANGED <<edges, ignition_mode, lockout, timing>>

(* Mutant: the case of a lost sync falls through to the next.              *)
LostFallsThrough ==
  /\ pc = "t_mode" /\ pc' = "t_publish"
  /\ ignition_mode' = IF sync_state = "SYNCED" THEN "PRECISION" ELSE "SAFE"
  /\ UNCHANGED <<edges, sync_state, lockout, timing>>

TickMode ==
  /\ pc = "t_mode" /\ pc' = "t_publish"
  /\ ignition_mode' = CASE sync_state = "LOST"    -> "INHIBIT"
                        [] sync_state = "SYNCING" -> "SAFE"
                        [] sync_state = "SYNCED"  -> "PRECISION"
  /\ UNCHANGED <<edges, sync_state, lockout, timing>>

(* Mutant: a fault leaves the sync state for the next tick to find.        *)
CutKeepsSync(from, remaining) ==
  /\ pc = from /\ pc' = "cut_reset"
  /\ ignition_mode' = "INHIBIT" /\ sync_state' = sync_state
  /\ lockout' = remaining
  /\ UNCHANGED <<edges, timing>>

(* Ignition is cut; after a fault PRECISION is locked out from now_us on.  *)
Cut(from, remaining) ==
  /\ pc = from /\ pc' = "cut_reset"
  /\ ignition_mode' = "INHIBIT" /\ sync_state' = "LOST"
  /\ lockout' = remaining
  /\ UNCHANGED <<edges, timing>>

CutForInhibit == Cut("cut_inhibit", lockout)
CutForFault   == Cut("cut_fault", Lockout - age)

(* Mutant: the period survives a reset.                                    *)
ResetKeepsPeriod ==
  /\ since' = NoEdge /\ tooth_period' = tooth_period /\ tooth_index' = 0
  /\ sync_edge_count' = 0 /\ noise_streak' = 0 /\ range_streak' = 0
  /\ UNCHANGED cycle_id

crank_reset_state ==
  /\ since' = NoEdge /\ tooth_period' = 0 /\ tooth_index' = 0
  /\ sync_edge_count' = 0 /\ noise_streak' = 0 /\ range_streak' = 0
  /\ UNCHANGED cycle_id

CutReset == /\ pc = "cut_reset" /\ pc' = "t_publish"
            /\ crank_reset_state
            /\ UNCHANGED <<sync, timing>>

TickEnds == Branch("t_publish", "idle")

(* Core 0 asked for a reset: honoured after publishing.                    *)
TickResets == /\ pc = "t_publish" /\ pc' = "idle"
              /\ crank_reset_state
              /\ UNCHANGED <<sync, timing>>

crank_soft_tick ==
  \/ TickStart \/ TickInhibited \/ TickAllowed \/ TickTimeout \/ TickRange
  \/ TickNoise \/ TickSync \/ TickMode \/ CutForInhibit \/ CutForFault
  \/ CutReset \/ TickEnds \/ TickResets

-----------------------------------------------------------------------------
(* A unit of time: not past the tick's due time, nor its longest run.      *)
Pass ==
  /\ IF pc = "idle" THEN next_tick > 0 ELSE age < TickLag
  /\ since' = IF since = NoEdge THEN NoEdge ELSE since + 1
  /\ lockout' = IF lockout > - TickLag THEN lockout - 1 ELSE lockout
  /\ next_tick' = next_tick - 1
  /\ age' = IF pc = "idle" THEN 0 ELSE age + 1
  /\ UNCHANGED <<tooth_period, tooth_index, sync_edge_count, noise_streak,
                 range_streak, cycle_id, sync_state, ignition_mode, pc>>

Next == process_one_edge \/ crank_soft_tick \/ Pass

(* The hardware timer runs, and serves the tick.                           *)
Fairness == WF_vars(Pass) /\ WF_vars(crank_soft_tick)

Spec     == Init /\ [][Next]_vars
FairSpec == Spec /\ Fairness

-----------------------------------------------------------------------------
(* The longest time an edge is remembered.                                 *)
Memory == SyncTimeout + TickPeriod + TickLag

TypeOK ==
  /\ since \in NoEdge .. Memory
  /\ tooth_period \in Nat /\ tooth_index \in 0 .. Teeth - 1
  /\ sync_edge_count \in 0 .. EdgesToLock
  /\ noise_streak \in 0 .. NoiseLimit /\ range_streak \in 0 .. RangeLimit
  /\ cycle_id \in {0, 1}
  /\ sync_state \in SyncStates /\ ignition_mode \in Modes
  /\ lockout \in -TickLag .. Lockout
  /\ next_tick \in 0 .. TickPeriod /\ pc \in Pcs /\ age \in 0 .. TickLag

(* Before the timeout test of a tick, or on the way to a reset.            *)
Unjudged == {"t_inhibit", "t_timeout", "cut_inhibit", "cut_fault",
             "cut_reset"}

(* Silence is noticed in time, whatever the phase of the tick: once the    *)
(* last edge is the sync timeout and a tick period old, a tick is about to *)
(* test it or to forget it, and none has let it pass (crank.c:190).        *)
SilenceNoticed == since > SyncTimeout + TickPeriod => pc \in Unjudged

(* The timing of the ignition is never computed from a period below the    *)
(* plausible minimum: rpm is bounded whatever bounces and gaps arrive.     *)
PeriodFloor == tooth_period # 0 => tooth_period >= ToothMin

(* PRECISION is not re-entered during the lockout that follows a fault,    *)
(* across resets, inhibits and further faults (crank.c:247).               *)
LockoutHolds == ignition_mode = "PRECISION" => lockout <= 0

(* What a tick publishes is one story: ignition is inhibited exactly when  *)
(* sync is lost, on each of the tick's six paths to publication.           *)
PublishedModeAgrees ==
  pc = "t_publish" => (ignition_mode = "INHIBIT") = (sync_state = "LOST")

(* The decoder gives the scheduler what it takes for granted.              *)
Decoder == INSTANCE DecoderContract
             WITH known <- (tooth_period > 0), reference <- cycle_id,
                  mode <- ignition_mode
KeepsDecoderContract == Decoder!DSpec

(* When the crank stops turning, ignition is inhibited and stays so.       *)
SilenceInhibits ==
  <>[][~process_one_edge]_vars => <>[](ignition_mode = "INHIBIT")
=============================================================================
