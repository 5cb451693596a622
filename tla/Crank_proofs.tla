---------------------------- MODULE Crank_proofs ----------------------------
(***************************************************************************)
(* Proofs about Crank, for every geometry, limit and tick length.          *)
(*                                                                         *)
(* The inductive invariant adds three facts to the properties: how old the *)
(* last edge may be at each point of the tick (Ages), that the sync state  *)
(* a tick is about to turn into a mode was justified (ModeJustified), and  *)
(* that a cut leaves mode and sync state together (CutTogether).           *)
(***************************************************************************)
EXTENDS Crank, TLAPS

(* The tick's own clock, and the age of the last edge: before the test of  *)
(* the timeout it has had a tick period more to grow than after.           *)
Ages ==
  /\ pc # "idle" => next_tick = TickPeriod - age
  /\ IF pc \in Unjudged THEN since <= SyncTimeout + TickPeriod + age
                        ELSE since + next_tick <= SyncTimeout + TickPeriod

ModeJustified ==
  pc = "t_mode" => /\ sync_state = "SYNCED" => lockout <= 0
                   /\ sync_state # "LOST" => tooth_period > 0

CutTogether ==
  pc = "cut_reset" => ignition_mode = "INHIBIT" /\ sync_state = "LOST"

IInv == /\ TypeOK /\ Ages /\ ModeJustified /\ CutTogether
        /\ PeriodFloor /\ LockoutHolds /\ PublishedModeAgrees

-----------------------------------------------------------------------------
(* A gap is longer than the period it is measured against.                 *)
LEMMA GapIsLonger ==
  ASSUME NEW s \in Nat, NEW p \in Nat, NEW m \in 12 .. 30, s * 10 > p * m
  PROVE  s >= p
<1> SUFFICES ASSUME s < p PROVE FALSE
  OBVIOUS
<1>1. \A k \in Nat : p * (10 + k) >= p * 10
  OBVIOUS
<1>2. p * m >= p * 10
  <2>1. m - 10 \in Nat /\ m = 10 + (m - 10)
    OBVIOUS
  <2> QED BY <1>1, <2>1
<1> QED BY <1>2

(* The filtered period stays above a floor that both of its inputs keep.   *)
LEMMA AverageFloor ==
  ASSUME NEW p \in Nat, NEW s \in Nat, NEW floor \in Nat, p >= floor, s >= floor
  PROVE  /\ (p * 3 + s) \div 4 \in Nat
         /\ (p * 3 + s) \div 4 >= floor
  OBVIOUS

(* A tooth edge or gap keeps the invariant.                                *)
LEMMA LearnKeeps ==
  ASSUME IInv, CrankAssumption, NEW reference \in BOOLEAN, Learn(reference),
         tooth_index' \in 0 .. Teeth - 1, since >= ToothMin
  PROVE  IInv' /\ tooth_period' > 0
<1> USE DEF IInv, TypeOK, CrankAssumption, NoEdge, Memory
<1>1. since \in Nat /\ ToothMin \in Nat /\ ToothMin >= 1
  OBVIOUS
<1>2. tooth_period' \in Nat /\ tooth_period' >= ToothMin
  <2>1. CASE tooth_period = 0
    BY <1>1, <2>1 DEF Learn
  <2>2. CASE tooth_period # 0
    <3>1. tooth_period \in Nat /\ tooth_period >= ToothMin
      BY <2>2 DEF PeriodFloor
    <3>2. tooth_period' = (tooth_period * 3 + since) \div 4
      BY <2>2 DEF Learn
    <3> QED BY <1>1, <3>1, <3>2, AverageFloor
  <2> QED BY <2>1, <2>2
<1>3. TypeOK'
  BY <1>1, <1>2 DEF Learn, UpTo, sync, timing
<1>4. Ages'
  BY <1>1 DEF Ages, Learn, sync, timing
<1>5. ModeJustified' /\ CutTogether' /\ LockoutHolds' /\ PublishedModeAgrees'
  BY <1>1, <1>2 DEF ModeJustified, CutTogether, LockoutHolds,
     PublishedModeAgrees, Learn, sync, timing
<1>6. PeriodFloor'
  BY <1>2 DEF PeriodFloor
<1> QED BY <1>1, <1>2, <1>3, <1>4, <1>5, <1>6

-----------------------------------------------------------------------------
LEMMA InitKeeps == ASSUME CrankAssumption, Init PROVE IInv
BY DEF CrankAssumption, Init, IInv, TypeOK, Ages, ModeJustified, CutTogether,
   PeriodFloor, LockoutHolds, PublishedModeAgrees, NoEdge, Memory, Pcs, Unjudged,
   SyncStates, Modes

(* An accepted edge comes at least the plausible minimum after the last.   *)
LEMMA AcceptedEdgeKeeps ==
  ASSUME IInv, CrankAssumption, GapEdge \/ ToothEdge
  PROVE  IInv' /\ tooth_period' > 0
<1>1. CASE GapEdge
  <2>1. since \in Nat /\ tooth_period \in Nat /\ Mtr10 \in 12 .. 30
    BY <1>1 DEF GapEdge, IsGap, IInv, TypeOK, CrankAssumption, NoEdge, Memory
  <2>2. tooth_period > 0 /\ since >= tooth_period
    BY <1>1, <2>1, GapIsLonger DEF GapEdge, IsGap
  <2>3. since >= ToothMin
    BY <2>1, <2>2 DEF IInv, PeriodFloor, CrankAssumption
  <2>4. Learn(TRUE) /\ tooth_index' \in 0 .. Teeth - 1
    BY <1>1 DEF GapEdge, CrankAssumption
  <2> QED BY <2>3, <2>4, LearnKeeps
<1>2. CASE ToothEdge
  <2>1. since >= ToothMin
    BY <1>2 DEF ToothEdge, InRange
  <2>2. tooth_index' \in 0 .. Teeth - 1
    BY <1>2 DEF ToothEdge, IInv, TypeOK, CrankAssumption
  <2>3. Learn(tooth_index' = SyncTooth)
    BY <1>2 DEF ToothEdge
  <2> QED BY <2>1, <2>2, <2>3, LearnKeeps
<1> QED BY <1>1, <1>2

LEMMA OtherEdgeKeeps ==
  ASSUME IInv, CrankAssumption, FirstEdge \/ NoiseEdge \/ RejectedEdge
  PROVE  IInv'
BY DEF FirstEdge, NoiseEdge, RejectedEdge, CrankAssumption, IInv, TypeOK, Ages,
   ModeJustified, CutTogether, PeriodFloor, LockoutHolds, PublishedModeAgrees,
   NoEdge, Memory, UpTo, sync, timing

(* The steps of the tick that write nothing but its point, or only sample  *)
(* the clock.                                                              *)
LEMMA BranchKeeps ==
  ASSUME IInv, CrankAssumption,
         \/ TickStart \/ TickInhibited \/ TickAllowed \/ TickTimeout
         \/ TickRange \/ TickNoise \/ TickEnds
  PROVE  IInv'
<1> USE DEF IInv, TypeOK, CrankAssumption, edges, sync, timing
<1>1. TypeOK'
  BY DEF TickStart, TickInhibited, TickAllowed, TickTimeout, TickRange,
     TickNoise, TickEnds, Branch, Pcs
<1>2. Ages'
  <2>1. CASE TickTimeout
    BY <2>1 DEF TickTimeout, Branch, Ages, Unjudged, NoEdge, Memory
  <2>2. CASE ~TickTimeout
    BY <2>2 DEF TickStart, TickInhibited, TickAllowed, TickRange, TickNoise,
       TickEnds, Branch, Ages, Unjudged, NoEdge, Memory
  <2> QED BY <2>1, <2>2
<1>3. ModeJustified' /\ CutTogether' /\ PeriodFloor' /\ LockoutHolds'
  BY DEF TickStart, TickInhibited, TickAllowed, TickTimeout, TickRange,
     TickNoise, TickEnds, Branch, ModeJustified, CutTogether, PeriodFloor,
     LockoutHolds
<1>4. PublishedModeAgrees'
  BY DEF TickStart, TickInhibited, TickAllowed, TickTimeout, TickRange,
     TickNoise, TickEnds, Branch, PublishedModeAgrees
<1> QED BY <1>1, <1>2, <1>3, <1>4

LEMMA SyncKeeps ==
  ASSUME IInv, CrankAssumption, TickSync \/ TickMode
  PROVE  IInv'
<1> USE DEF IInv, TypeOK, CrankAssumption, edges, timing
<1>1. CASE TickSync
  BY <1>1 DEF TickSync, Ages, ModeJustified, CutTogether, PeriodFloor,
     LockoutHolds, PublishedModeAgrees, Pcs, Unjudged, SyncStates
<1>2. CASE TickMode
  BY <1>2 DEF TickMode, Ages, ModeJustified, CutTogether, PeriodFloor,
     LockoutHolds, PublishedModeAgrees, Pcs, Unjudged, SyncStates, Modes
<1> QED BY <1>1, <1>2

LEMMA CutKeeps ==
  ASSUME IInv, CrankAssumption,
         CutForInhibit \/ CutForFault \/ CutReset \/ TickResets
  PROVE  IInv'
BY DEF CutForInhibit, CutForFault, CutReset, TickResets, Cut,
   crank_reset_state, CrankAssumption, IInv, TypeOK, Ages, ModeJustified,
   CutTogether, PeriodFloor, LockoutHolds, PublishedModeAgrees, NoEdge, Memory,
   Pcs, Unjudged, Modes, SyncStates, edges, sync, timing

LEMMA PassKeeps == ASSUME IInv, CrankAssumption, Pass PROVE IInv'
<1> USE DEF IInv, TypeOK, CrankAssumption, Pass, NoEdge, Memory
<1>1. Ages'
  BY DEF Ages, Unjudged
<1>2. TypeOK'
  BY <1>1 DEF Ages, Unjudged
<1>3. ModeJustified' /\ CutTogether' /\ PeriodFloor' /\ LockoutHolds'
      /\ PublishedModeAgrees'
  BY DEF ModeJustified, CutTogether, PeriodFloor, LockoutHolds,
     PublishedModeAgrees
<1> QED BY <1>1, <1>2, <1>3

(* The inductive invariant of the decoder.                                 *)
THEOREM Inductive == Spec => []IInv
<1>1. Init => IInv
  BY CrankAssumption, InitKeeps
<1>2. IInv /\ [Next]_vars => IInv'
  <2> SUFFICES ASSUME IInv, [Next]_vars PROVE IInv'
    OBVIOUS
  <2>1. CASE process_one_edge
    BY <2>1, CrankAssumption, AcceptedEdgeKeeps, OtherEdgeKeeps
       DEF process_one_edge
  <2>2. CASE crank_soft_tick
    BY <2>2, CrankAssumption, BranchKeeps, SyncKeeps, CutKeeps
       DEF crank_soft_tick
  <2>3. CASE Pass
    BY <2>3, CrankAssumption, PassKeeps
  <2>4. CASE UNCHANGED vars
    BY <2>4 DEF vars, edges, sync, timing, IInv, TypeOK, Ages, ModeJustified,
       CutTogether, PeriodFloor, LockoutHolds, PublishedModeAgrees
  <2> QED BY <2>1, <2>2, <2>3, <2>4 DEF Next
<1> QED BY <1>1, <1>2, PTL DEF Spec

-----------------------------------------------------------------------------
(* Type correctness; in particular an edge is never remembered longer than *)
(* Memory, so that the interval of a gap fits its uint32_t.                *)
THEOREM TypeCorrect == Spec => []TypeOK
BY Inductive, PTL DEF IInv

(* The age of the last edge is bounded: silence never goes unnoticed by    *)
(* more than a tick period.                                                *)
THEOREM SilenceIsNoticed == Spec => []SilenceNoticed
<1>1. IInv => SilenceNoticed
  BY CrankAssumption DEF IInv, TypeOK, Ages, SilenceNoticed, CrankAssumption,
     NoEdge, Memory
<1> QED BY <1>1, Inductive, PTL

(* The period, and with it the rpm the maps are read at, keeps its floor.  *)
THEOREM PeriodKeepsFloor == Spec => []PeriodFloor
BY Inductive, PTL DEF IInv

(* No path back to PRECISION is shorter than the lockout after a fault.    *)
THEOREM LockoutIsKept == Spec => []LockoutHolds
BY Inductive, PTL DEF IInv

(* Mode and sync state agree whenever they are published.                  *)
THEOREM PublishedTogether == Spec => []PublishedModeAgrees
BY Inductive, PTL DEF IInv

(* Every step is a step of DecoderContract, or leaves its variables alone. *)
THEOREM ImplementsDecoder == Spec => KeepsDecoderContract
<1>1. Init => Decoder!DInit
  BY DEF Init, Decoder!DInit
<1>2. IInv /\ [Next]_vars =>
        [\/ Decoder!Edge \/ Decoder!Promote \/ Decoder!Inhibit
         \/ Decoder!Forget]_Decoder!decoderVars
  <2> SUFFICES ASSUME IInv, [Next]_vars
               PROVE  \/ Decoder!Edge \/ Decoder!Promote \/ Decoder!Inhibit
                      \/ Decoder!Forget
                      \/ UNCHANGED Decoder!decoderVars
    OBVIOUS
  <2> USE DEF Decoder!Edge, Decoder!Promote, Decoder!Inhibit, Decoder!Forget,
              Decoder!decoderVars, edges, sync, timing
  <2>1. CASE GapEdge \/ ToothEdge
    <3>1. tooth_period' > 0
      BY <2>1, CrankAssumption, AcceptedEdgeKeeps
    <3>2. cycle_id' \in {0, 1} /\ UNCHANGED ignition_mode
      BY <2>1 DEF GapEdge, ToothEdge, Learn, IInv, TypeOK
    <3> QED BY <3>1, <3>2
  <2>2. CASE FirstEdge \/ NoiseEdge \/ RejectedEdge
    BY <2>2 DEF FirstEdge, NoiseEdge, RejectedEdge
  <2>3. CASE \/ TickStart \/ TickInhibited \/ TickAllowed \/ TickTimeout
             \/ TickRange \/ TickNoise \/ TickSync \/ TickEnds
    BY <2>3 DEF TickStart, TickInhibited, TickAllowed, TickTimeout, TickRange,
       TickNoise, TickSync, TickEnds, Branch
  <2>4. CASE TickMode
    BY <2>4 DEF TickMode, IInv, TypeOK, ModeJustified, SyncStates
  <2>5. CASE CutForInhibit \/ CutForFault
    BY <2>5 DEF CutForInhibit, CutForFault, Cut
  <2>6. CASE CutReset \/ TickResets
    BY <2>6 DEF CutReset, TickResets, crank_reset_state
  <2>7. CASE Pass
    BY <2>7 DEF Pass
  <2>8. CASE UNCHANGED vars
    BY <2>8 DEF vars
  <2> QED BY <2>1, <2>2, <2>3, <2>4, <2>5, <2>6, <2>7, <2>8
          DEF Next, process_one_edge, crank_soft_tick
<1> QED BY <1>1, <1>2, Inductive, PTL
        DEF Spec, KeepsDecoderContract, Decoder!DSpec
=============================================================================
