------------------------------ MODULE FaultRing ------------------------------
(***************************************************************************)
(* Faults on their way from Core 1 to Core 0: faults.c, the ring of ipc.c  *)
(* and ecu.drain_faults().                                                 *)
(*                                                                         *)
(* faults_set is called at two interrupt levels: by the soft tick, and by  *)
(* the PIO interrupt, which arms the scheduler and may preempt the tick's  *)
(* call between any two of its accesses.  Core 0 drains at the same time.  *)
(* A fault is a kind (its bit), a ring entry the serial number of a push.  *)
(***************************************************************************)
EXTENDS Integers

CONSTANTS TickFaults,  (* kinds the soft tick raises                         *)
          IsrFaults,   (* kinds raised while arming (FAULT_UNSCHEDULABLE)    *)
          RingLen,     (* ECU_FAULT_RING_LEN                                 *)
          MaxPushes    (* calls stop after so many pushes (bounds head, tail)*)

ASSUME FaultRingAssumption ==
  /\ RingLen \in Nat \ {0} /\ MaxPushes \in Nat
  /\ TickFaults \cap IsrFaults = {}
  /\ \A a, b \in IsrFaults : a = b

VARIABLES
  fault_bits,        (* s_fault_bits                                         *)
  recent,            (* kinds pushed within the coalescing window            *)
  head, tail, ring,  (* the ring in g_ipc                                    *)
  point, bit, bits, slot, entry,  (* faults_set at each level: point reached, *)
                     (* argument, s_fault_bits and head it loaded, its entry *)
  rpc, copy,         (* ipc_fault_pop: point reached, entry copied           *)
  pushes,            (* history: serial number of the last push              *)
  delivered,         (* history: the entry last delivered                    *)
  raced              (* history: a call of the PIO interrupt preempted the   *)
                     (* tick's                                               *)

call     == <<point, bit, bits, slot, entry>>
pop      == <<rpc, copy, delivered>>
ringVars == <<fault_bits, recent, head, tail, ring, call, pop, pushes, raced>>

Levels    == {"tick", "isr"}
Faults    == TickFaults \cup IsrFaults
Raises(l) == IF l = "tick" THEN TickFaults ELSE IsrFaults
Indices   == 0 .. RingLen - 1

(* The PIO interrupt runs to its end before the tick goes on.              *)
Runs(l) == l = "isr" \/ point["isr"] = "idle"

RingInit ==
  /\ fault_bits = {} /\ recent = {}
  /\ head = 0 /\ tail = 0 /\ ring = [i \in Indices |-> 0]
  /\ point = [l \in Levels |-> "idle"] /\ bit = [l \in Levels |-> "none"]
  /\ bits = [l \in Levels |-> {}] /\ slot = [l \in Levels |-> 0]
  /\ entry = [l \in Levels |-> 0]
  /\ rpc = "idle" /\ copy = 0 /\ pushes = 0 /\ delivered = 0
  /\ raced = FALSE

-----------------------------------------------------------------------------
(* faults_set.                                                             *)

Reaches(l, from, to) ==
  Runs(l) /\ point[l] = from /\ point' = [point EXCEPT ![l] = to]

(* s_fault_bits |= bit is a load and a store.                              *)
LoadBits(l) ==
  /\ Reaches(l, "idle", "store") /\ pushes < MaxPushes
  /\ \E b \in Raises(l) : bit' = [bit EXCEPT ![l] = b]
  /\ bits' = [bits EXCEPT ![l] = fault_bits]
  /\ raced' = (raced \/ (l = "isr" /\ point["tick"] # "idle"))
  /\ UNCHANGED <<fault_bits, recent, head, tail, ring, slot, entry, pop,
                 pushes>>

(* Mutant: the mask is assigned.                                           *)
AssignBits(l) ==
  /\ Reaches(l, "store", "window")
  /\ fault_bits' = {bit[l]}
  /\ UNCHANGED <<recent, head, tail, ring, bit, bits, slot, entry, pop,
                 pushes, raced>>

StoreBits(l) ==
  /\ Reaches(l, "store", "window")
  /\ fault_bits' = bits[l] \cup {bit[l]}
  /\ UNCHANGED <<recent, head, tail, ring, bit, bits, slot, entry, pop,
                 pushes, raced>>

(* Within the window a repeated fault is not pushed.                       *)
Coalesce(l) ==
  /\ Reaches(l, "window", "idle") /\ bit[l] \in recent
  /\ UNCHANGED <<fault_bits, recent, head, tail, ring, bit, bits, slot, entry,
                 pop, pushes, raced>>

Stamp(l) ==
  /\ Reaches(l, "window", "push") /\ bit[l] \notin recent
  /\ recent' = recent \cup {bit[l]}
  /\ UNCHANGED <<fault_bits, head, tail, ring, bit, bits, slot, entry, pop,
                 pushes, raced>>

-----------------------------------------------------------------------------
(* ipc_fault_push.                                                         *)

(* Mutant: every slot is used, and full looks empty.                       *)
UsesEverySlot(h) == h - tail = RingLen

Full(h) == (h + 1) % RingLen = tail % RingLen

LoadHead(l) ==
  /\ Reaches(l, "push", "full?")
  /\ slot' = [slot EXCEPT ![l] = head]
  /\ entry' = [entry EXCEPT ![l] = pushes + 1] /\ pushes' = pushes + 1
  /\ UNCHANGED <<fault_bits, recent, head, tail, ring, bit, bits, pop, raced>>

DropOnFull(l) ==
  /\ Reaches(l, "full?", "idle") /\ Full(slot[l])
  /\ UNCHANGED <<fault_bits, recent, head, tail, ring, bit, bits, slot, entry,
                 pop, pushes, raced>>

TakeSlot(l) ==
  /\ Reaches(l, "full?", "write") /\ ~Full(slot[l])
  /\ UNCHANGED <<fault_bits, recent, head, tail, ring, bit, bits, slot, entry,
                 pop, pushes, raced>>

(* Mutant: the index is not masked.                                        *)
WritesUnmasked(l) ==
  /\ Reaches(l, "write", "advance")
  /\ ring' = [i \in Indices \cup {slot[l]} |->
                IF i = slot[l] THEN entry[l] ELSE ring[i]]
  /\ UNCHANGED <<fault_bits, recent, head, tail, bit, bits, slot, entry, pop,
                 pushes, raced>>

WriteEntry(l) ==
  /\ Reaches(l, "write", "advance")
  /\ ring' = [ring EXCEPT ![slot[l] % RingLen] = entry[l]]
  /\ UNCHANGED <<fault_bits, recent, head, tail, bit, bits, slot, entry, pop,
                 pushes, raced>>

AdvanceHead(l) ==
  /\ Reaches(l, "advance", "idle")
  /\ head' = slot[l] + 1
  /\ UNCHANGED <<fault_bits, recent, tail, ring, bit, bits, slot, entry, pop,
                 pushes, raced>>

faults_set(l) == \/ LoadBits(l) \/ StoreBits(l) \/ Coalesce(l) \/ Stamp(l)
                 \/ LoadHead(l) \/ DropOnFull(l) \/ TakeSlot(l)
                 \/ WriteEntry(l) \/ AdvanceHead(l)

(* A window of 100 ms ends: not while a call of microseconds runs.         *)
WindowEnds ==
  /\ \A l \in Levels : point[l] = "idle"
  /\ \E b \in recent : recent' = recent \ {b}
  /\ UNCHANGED <<fault_bits, head, tail, ring, call, pop, pushes, raced>>

(* faults_clear_all, when the tick honours a reset.                        *)
ClearBits ==
  /\ Reaches("tick", "idle", "clear")
  /\ fault_bits' = {}
  /\ UNCHANGED <<recent, head, tail, ring, bit, bits, slot, entry, pop,
                 pushes, raced>>

ClearWindows ==
  /\ Reaches("tick", "clear", "idle")
  /\ recent' = {}
  /\ UNCHANGED <<fault_bits, head, tail, ring, bit, bits, slot, entry, pop,
                 pushes, raced>>

-----------------------------------------------------------------------------
(* ipc_fault_pop, called until it finds the ring empty.                    *)

PopStarts ==
  /\ rpc = "idle" /\ head % RingLen # tail % RingLen
  /\ rpc' = "copy"
  /\ UNCHANGED <<fault_bits, recent, head, tail, ring, call, copy, delivered,
                 pushes, raced>>

(* Mutant: the slot is given back before it is copied.                     *)
FreesBeforeCopy ==
  /\ rpc = "copy" /\ rpc' = "advance"
  /\ copy' = ring[(tail + 1) % RingLen]
  /\ UNCHANGED <<fault_bits, recent, head, tail, ring, call, delivered,
                 pushes, raced>>

CopyEntry ==
  /\ rpc = "copy" /\ rpc' = "advance"
  /\ copy' = ring[tail % RingLen]
  /\ UNCHANGED <<fault_bits, recent, head, tail, ring, call, delivered,
                 pushes, raced>>

(* Mutant: the tail stays.                                                 *)
KeepsTail ==
  /\ rpc = "advance" /\ rpc' = "idle"
  /\ delivered' = copy
  /\ UNCHANGED <<fault_bits, recent, head, tail, ring, call, copy, pushes,
                 raced>>

AdvanceTail ==
  /\ rpc = "advance" /\ rpc' = "idle"
  /\ tail' = tail + 1 /\ delivered' = copy
  /\ UNCHANGED <<fault_bits, recent, head, ring, call, copy, pushes, raced>>

ipc_fault_pop == PopStarts \/ CopyEntry \/ AdvanceTail

RingNext == \/ \E l \in Levels : faults_set(l)
            \/ WindowEnds \/ ClearBits \/ ClearWindows \/ ipc_fault_pop

RingSpec == RingInit /\ [][RingNext]_ringVars

-----------------------------------------------------------------------------
RingTypeOK ==
  /\ fault_bits \subseteq Faults /\ recent \subseteq Faults
  /\ head \in Nat /\ tail \in Nat /\ ring \in [Indices -> Nat]
  /\ point \in [Levels -> {"idle", "store", "window", "push", "full?", "write",
                           "advance", "clear"}]
  /\ bit \in [Levels -> Faults \cup {"none"}] /\ bits \in [Levels -> SUBSET Faults]
  /\ slot \in [Levels -> Nat] /\ entry \in [Levels -> Nat]
  /\ rpc \in {"idle", "copy", "advance"} /\ copy \in Nat
  /\ pushes \in Nat /\ delivered \in Nat /\ raced \in BOOLEAN

(* The tail never overtakes the head, nor the head laps the tail, although *)
(* a push that was preempted stores the head it loaded: the coalescing     *)
(* window lets the preempting level push once at most meanwhile.           *)
RingBounded == tail <= head /\ head - tail < RingLen

(* Each fault drained is newer than the one drained before: none comes     *)
(* twice or late, even when two levels push into the same slot.            *)
DrainedInOrder ==
  [][rpc = "advance" /\ rpc' = "idle" => delivered' > delivered]_ringVars

(* Until the PIO interrupt raises a fault inside a call of the tick, the   *)
(* ring is the bounded queue of FaultLog ...                               *)
Log == INSTANCE FaultLog
         WITH Capacity <- RingLen - 1, delivered <- delivered,
              queue <- [i \in 1 .. head - tail |-> ring[(tail + i - 1) % RingLen]]
KeepsLog == Log!LInit /\ [][Log!LNext \/ raced']_(Log!lvars)

(* ... and a raised bit stays until faults_clear_all.                      *)
BitsAreLatched ==
  [][fault_bits \ fault_bits' # {} => point'["tick"] = "clear" \/ raced'
    ]_ringVars

-----------------------------------------------------------------------------
(* ipc.c:56: "Single-producer (C side, called from soft tick)", and with   *)
(* that FaultLog without a condition.  A fault of the PIO interrupt pushed *)
(* inside the tick's push takes the same slot.                             *)
SingleProducer == Log!LSpec
=============================================================================
