-------------------------- MODULE TelemetrySeqlock --------------------------
(***************************************************************************)
(* The telemetry block shared by the two cores, ipc.h: Core 1's soft tick  *)
(* publishes under a sequence lock and Core 0's ecu.read_state() copies.   *)
(*                                                                         *)
(* The fields of a publication are written, and copied, one at a time, and *)
(* the PIO interrupt may hold the writer up between any two of its writes  *)
(* for as long as the reader takes.  The fences on both sides order the    *)
(* accesses to seq before and after those to the fields, so that steps     *)
(* interleave.                                                             *)
(***************************************************************************)
EXTENDS Integers

CONSTANTS Fields,      (* the words of ecu_telemetry_t behind seq            *)
          MaxTries,    (* attempts of read_state (8 in the source)           *)
          MaxWrites    (* publications in a behaviour (bounds seq)           *)

ASSUME SeqlockAssumption == MaxTries \in Nat \ {0} /\ MaxWrites \in Nat

VARIABLES
  seq,               (* g_ipc.telemetry.seq                                  *)
  body,              (* the fields, as the publication each was written by   *)
  unwritten,         (* fields the running publication has yet to write      *)
  pc, tries, s1,     (* read_state: point reached, tries, first sample       *)
  uncopied,          (* fields it has yet to copy                            *)
  snap,              (* its local copy                                       *)
  clean,             (* how it left its loop: on two equal samples           *)
  begun              (* history: publications complete when it began         *)

writer == <<seq, body, unwritten>>
reader == <<pc, tries, s1, uncopied, snap, clean, begun>>
vars   == <<writer, reader>>

Junk      == -1       (* what the stack held before                          *)
Published == seq \div 2
Writing   == seq % 2 = 1

Init ==
  /\ seq = 0 /\ body = [f \in Fields |-> 0] /\ unwritten = {}
  /\ pc = "idle" /\ tries = 0 /\ s1 = 0 /\ uncopied = {}
  /\ snap = [f \in Fields |-> Junk] /\ clean = FALSE /\ begun = 0

-----------------------------------------------------------------------------
(* The writer: crank_soft_tick, from its label publish on.                 *)

(* Mutant: the fields are written under an even number.                    *)
BeginUnmarked ==
  /\ ~Writing /\ unwritten = {} /\ Published < MaxWrites
  /\ unwritten' = Fields
  /\ UNCHANGED <<seq, body, reader>>

ipc_telemetry_begin_write ==
  /\ ~Writing /\ unwritten = {} /\ Published < MaxWrites
  /\ seq' = seq + 1 /\ unwritten' = Fields
  /\ UNCHANGED <<body, reader>>

WriteField ==
  \E f \in unwritten :
    /\ body' = [body EXCEPT ![f] = Published + 1]
    /\ unwritten' = unwritten \ {f}
    /\ UNCHANGED <<seq, reader>>

ipc_telemetry_end_write ==
  /\ Writing /\ unwritten = {}
  /\ seq' = seq + 1
  /\ UNCHANGED <<body, unwritten, reader>>

Publish == ipc_telemetry_begin_write \/ WriteField \/ ipc_telemetry_end_write

-----------------------------------------------------------------------------
(* The reader: ecu_read_state.                                             *)

ReadBegins ==
  /\ pc = "idle" /\ pc' = "sample"
  /\ tries' = 0 /\ snap' = [f \in Fields |-> Junk] /\ clean' = FALSE
  /\ begun' = Published
  /\ UNCHANGED <<writer, s1, uncopied>>

(* Mutant: attempts are counted and not limited.                           *)
RetryForever == tries' = tries + 1 /\ pc' = "sample"

(* Another attempt, unless it was the last.                                *)
Retry == /\ tries' = tries + 1
         /\ pc' = IF tries + 1 < MaxTries THEN "sample" ELSE "return"

(* Mutant: the number need not be even.                                    *)
SampleAny ==
  /\ pc = "sample" /\ pc' = "copy" /\ s1' = seq /\ uncopied' = Fields
  /\ UNCHANGED <<writer, tries, snap, clean, begun>>

SampleEven ==
  /\ pc = "sample" /\ ~Writing
  /\ s1' = seq /\ pc' = "copy" /\ uncopied' = Fields
  /\ UNCHANGED <<writer, tries, snap, clean, begun>>

(* Mutant: waiting for the writer is not counted.                          *)
SpinWhileOdd ==
  /\ pc = "sample" /\ Writing
  /\ s1' = seq /\ UNCHANGED <<pc, tries>>
  /\ UNCHANGED <<writer, uncopied, snap, clean, begun>>

SampleOdd ==
  /\ pc = "sample" /\ Writing
  /\ s1' = seq /\ Retry
  /\ UNCHANGED <<writer, uncopied, snap, clean, begun>>

CopyField ==
  /\ pc = "copy"
  /\ \E f \in uncopied : /\ snap' = [snap EXCEPT ![f] = body[f]]
                         /\ uncopied' = uncopied \ {f}
  /\ UNCHANGED <<writer, pc, tries, s1, clean, begun>>

(* The second sample: equal to the first, the copy is good.                *)
Compare ==
  /\ pc = "copy" /\ uncopied = {}
  /\ IF seq = s1 THEN pc' = "return" /\ clean' = TRUE /\ UNCHANGED tries
                 ELSE Retry /\ UNCHANGED clean
  /\ UNCHANGED <<writer, s1, uncopied, snap, begun>>

(* The dictionary is built from the copy, good or not.                     *)
ReadReturns == pc = "return" /\ pc' = "idle"
               /\ UNCHANGED <<writer, tries, s1, uncopied, snap, clean, begun>>

ecu_read_state == \/ ReadBegins \/ SampleEven \/ SampleOdd \/ CopyField
                  \/ Compare \/ ReadReturns

Next == Publish \/ ecu_read_state

(* Core 0 runs on once it has called read_state, whatever Core 1 does.     *)
Fairness == WF_vars(ecu_read_state)

Spec     == Init /\ [][Next]_vars
FairSpec == Spec /\ Fairness

-----------------------------------------------------------------------------
TypeOK ==
  /\ seq \in Nat /\ body \in [Fields -> Nat] /\ unwritten \subseteq Fields
  /\ pc \in {"idle", "sample", "copy", "return"}
  /\ tries \in 0 .. MaxTries /\ s1 \in Nat /\ uncopied \subseteq Fields
  /\ snap \in [Fields -> Nat \cup {Junk}] /\ clean \in BOOLEAN /\ begun \in Nat

(* A read that left its loop on two equal samples returns one publication, *)
(* whole, and one no older than the last complete when the read began: so  *)
(* readers that come one after another never see time run backwards.       *)
CleanReadIsOnePublication ==
  clean => \E n \in begun .. Published : snap = [f \in Fields |-> n]

(* read_state returns: the writer cannot hold it in its loop.              *)
ReadsEnd == pc = "sample" ~> pc = "idle"

-----------------------------------------------------------------------------
(* ecu_native.c:36 and PROJECT_MANUAL.md:1529: read_state returns a        *)
(* "seqlock-safe snapshot".  While one publication is held up by the PIO   *)
(* interrupt the tries run out in no time, and what is returned was never  *)
(* copied, or copied halfway.                                              *)
SnapshotIsSafe ==
  pc = "return" => \E n \in 0 .. Published : snap = [f \in Fields |-> n]
=============================================================================
