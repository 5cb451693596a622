------------------------------ MODULE DashLink -------------------------------
(***************************************************************************)
(* Telemetry from the v2 ECU's shell to the dash: the frames that main     *)
(* sends (ecu_v2/micropython/main.py), the wire, and TelemetryIngest and   *)
(* EngineSnapshotAdapter of dash/main.py.                                  *)
(*                                                                         *)
(* A frame is five cells: the start bytes A and B, the header H, the       *)
(* payload P and the CRC C.  Each cell knows its frame, and a CRC matches  *)
(* only when header, payload and CRC are of one frame.  A cell may be      *)
(* lost, a cell of data may look like a start byte to a parser that seeks  *)
(* one, a sender may stall inside a frame: `MaxNoise' times in all.  A     *)
(* frame may be lost as a whole any number of times.                       *)
(*                                                                         *)
(* Time is counted in ticks.  One telemetry frame is begun in a tick at    *)
(* most, and a poll is short against a tick.                               *)
(***************************************************************************)
EXTENDS Integers

CONSTANTS SeqMod,        (* sequence numbers, 65536 in the code              *)
          StallAfter, StaleAfter, LostAfter,  (* PARSER_STALL_MS,            *)
                         (* LINK_STALE_MS and LINK_LOST_MS in ticks          *)
          MaxBoots,      (* starts of the ECU in a behaviour                 *)
          MaxAnswers,    (* configuration responses in a behaviour           *)
          MaxNoise

ASSUME LinkAssumption ==
  /\ SeqMod \in Nat \ {0} /\ MaxBoots \in Nat \ {0}
  /\ StallAfter \in Nat /\ StaleAfter \in Nat /\ LostAfter \in Nat
  /\ StaleAfter <= LostAfter /\ MaxAnswers \in Nat /\ MaxNoise \in Nat
  /\ LostAfter + 1 < SeqMod \div 2    (* 1800 ms against 32768 frames      *)

VARIABLES
  boot, fault, number,   (* the ECU: which start it is, a fault bit latched, *)
                         (* sequence number of the next frame                *)
  sent, pos,             (* frame on the wire and its next cell, 0: none     *)
  opened, answers,       (* a telemetry frame was begun in this tick;        *)
                         (* configuration responses so far                   *)
  state, frame, left,    (* the parser: state, frame of the header, payload  *)
                         (* cells to come                                    *)
  idle,                  (* ticks since last_progress_ms                     *)
  snapshot, age,         (* Blank: has_snapshot is false; ticks since        *)
                         (* last_rx_ms                                       *)
  link_state,            (* EngineSnapshotAdapter                            *)
  since,                 (* history: ticks since the ECU started             *)
  refused,               (* history: a frame was refused as old that was not *)
  noise

ecu      == <<boot, fault, number>>
wire     == <<sent, pos, opened, answers>>
parser   == <<state, frame, left, idle>>
ingest   == <<snapshot, age, refused>>
linkVars == <<ecu, wire, parser, ingest, link_state, since, noise>>

Parts  == <<"A", "B", "H", "P", "C">>
Data   == {"H", "P", "C"}
Blank  == [kind |-> "blank", boot |-> 0, seq |-> 0, fault |-> FALSE]
Frames == [kind : {"state", "cfg", "blank"}, boot : 0 .. MaxBoots,
           seq : 0 .. SeqMod - 1, fault : BOOLEAN]

LinkInit ==
  /\ boot = 1 /\ fault = FALSE /\ number = 0
  /\ sent = Blank /\ pos = 0 /\ opened = FALSE /\ answers = 0
  /\ state = "SEEK_0" /\ frame = Blank /\ left = 0 /\ idle = 0
  /\ snapshot = Blank /\ age = 0
  /\ link_state = "LOST" /\ since = 0 /\ refused = FALSE /\ noise = 0

-----------------------------------------------------------------------------
(* The ECU.                                                                *)

FaultRaised ==
  /\ fault' = TRUE
  /\ UNCHANGED <<boot, number, wire, parser, ingest, link_state, since, noise>>

(* Mutant: the number is not cut to 16 bits.                               *)
NeverWraps(lost) ==
  /\ pos = 0 /\ ~opened /\ opened' = TRUE
  /\ number' = number + 1
  /\ pos' = 1 /\ sent' = [kind |-> "state", boot |-> boot, seq |-> number,
                          fault |-> fault]
  /\ UNCHANGED <<boot, fault, answers, parser, ingest, link_state, since,
                 noise>>

(* main sends a frame with the state of now; `lost' says that none of it   *)
(* arrives.  The number is used up in any case.                            *)
SendTelemetry(lost) ==
  /\ pos = 0 /\ ~opened /\ opened' = TRUE
  /\ number' = (number + 1) % SeqMod
  /\ IF lost THEN UNCHANGED <<sent, pos>>
     ELSE pos' = 1 /\ sent' = [kind |-> "state", boot |-> boot, seq |-> number,
                               fault |-> fault]
  /\ UNCHANGED <<boot, fault, answers, parser, ingest, link_state, since,
                 noise>>

(* _send_config_response                                                   *)
SendResponse ==
  /\ pos = 0 /\ answers < MaxAnswers /\ answers' = answers + 1
  /\ pos' = 1 /\ sent' = [Blank EXCEPT !.kind = "cfg", !.boot = boot]
  /\ UNCHANGED <<ecu, opened, parser, ingest, link_state, since, noise>>

(* The ECU loses power, with a frame half sent or not, and starts.         *)
Restart ==
  /\ boot < MaxBoots /\ boot' = boot + 1 /\ fault' = FALSE /\ number' = 0
  /\ pos' = 0 /\ sent' = Blank /\ since' = 0
  /\ UNCHANGED <<opened, answers, parser, ingest, link_state, noise>>

-----------------------------------------------------------------------------
(* The parser, one cell at a time.                                         *)

_reset == state' = "SEEK_0" /\ frame' = Blank /\ left' = 0 /\ idle' = 0

Goto(st) == state' = st /\ idle' = 0 /\ UNCHANGED <<frame, left>>

(* Mutant: numbers are compared as they are.                               *)
PlainNewer(new, old) == new > old

seq_newer_u16(new, old) ==
  LET diff == (new - old) % SeqMod IN diff # 0 /\ diff < SeqMod \div 2

(* Mutant: the number to compare with outlives the link.                   *)
KeepsOld == snapshot

(* TelemetryIngest.poll before it reads: a snapshot that is too old goes,  *)
(* and last_seq with it.                                                   *)
Current == IF age > LostAfter THEN Blank ELSE snapshot

Hold == /\ snapshot' = Current /\ age' = IF Current = Blank THEN 0 ELSE age
        /\ UNCHANGED refused

(* _decode_tlv, then the comparison with last_seq.                         *)
TakeState ==
  IF Current # Blank /\ ~seq_newer_u16(frame.seq, Current.seq)
  THEN /\ refused' = (refused \/ Current.boot = frame.boot)
       /\ UNCHANGED <<snapshot, age>>
  ELSE snapshot' = frame /\ age' = 0 /\ UNCHANGED refused

(* A response changes the status line only, and a CRC that fails, nothing. *)
_finalize_frame(id, part) ==
  IF part = "C" /\ id = frame /\ frame.kind = "state"
  THEN TakeState ELSE Hold

(* The header of a frame, or what stands in its place: refused, or taken   *)
(* with a length that is not the frame's.                                  *)
Header(id, part) ==
  \/ part = "H" /\ state' = "PAYLOAD" /\ frame' = id /\ left' = 1 /\ idle' = 0
  \/ part # "H" /\ _reset
  \/ /\ part # "H" /\ state' = "PAYLOAD" /\ frame' = Blank
     /\ left' \in {1, 2} /\ idle' = 0

_feed_byte(id, part, seen) ==
  \/ /\ state = "SEEK_0" /\ Hold
     /\ Goto(IF seen = "A" THEN "SEEK_1" ELSE "SEEK_0")
  \/ /\ state = "SEEK_1" /\ Hold
     /\ Goto(CASE seen = "B" -> "HEADER" [] seen = "A" -> "SEEK_1"
               [] OTHER -> "SEEK_0")
  \/ state = "HEADER" /\ Header(id, part) /\ Hold
  \/ /\ state = "PAYLOAD" /\ left' = left - 1 /\ idle' = 0 /\ Hold
     /\ state' = IF left = 1 THEN "CRC" ELSE "PAYLOAD"
     /\ frame' = IF part = "P" /\ id = frame THEN frame ELSE Blank
  \/ state = "CRC" /\ _finalize_frame(id, part) /\ _reset

(* What a parser that seeks may take a cell for.                           *)
Sights(part) ==
  {part} \cup IF /\ part \in Data /\ noise < MaxNoise
                 /\ state \in {"SEEK_0", "SEEK_1"}
              THEN {"A", "B"} ELSE {}

-----------------------------------------------------------------------------
(* The dash's loop: TelemetryIngest.poll, update_link_state, the display.  *)
(* A poll that finds several cells does in one loop what this does in      *)
(* several of the same tick.                                               *)

(* Mutant: the link is lost only when poll has dropped the snapshot.       *)
NoticesDrop ==
  link_state' = IF snapshot' = Blank THEN "LOST"
                ELSE IF age' <= StaleAfter THEN "OK" ELSE "STALE"

update_link_state ==
  link_state' = IF snapshot' = Blank \/ age' > LostAfter THEN "LOST"
                ELSE IF age' <= StaleAfter THEN "OK" ELSE "STALE"

Stalled == state # "SEEK_0" /\ idle > StallAfter

(* Nothing to read, or the parser starts over first.                       *)
PollEmpty ==
  /\ pos = 0 \/ Stalled
  /\ IF Stalled THEN _reset ELSE UNCHANGED parser
  /\ Hold /\ update_link_state
  /\ UNCHANGED <<ecu, wire, since, noise>>

NextCell ==
  /\ pos > 0 /\ pos' = IF pos = 5 THEN 0 ELSE pos + 1
  /\ sent' = IF pos = 5 THEN Blank ELSE sent

PollCell ==
  /\ ~Stalled /\ NextCell
  /\ \E seen \in Sights(Parts[pos]) :
       /\ _feed_byte(sent, Parts[pos], seen)
       /\ noise' = IF seen = Parts[pos] THEN noise ELSE noise + 1
  /\ update_link_state
  /\ UNCHANGED <<ecu, opened, answers, since>>

(* A loop that does not poll: in demo mode.                                *)
DemoLoop ==
  /\ UNCHANGED ingest /\ update_link_state
  /\ UNCHANGED <<ecu, wire, parser, since, noise>>

CellLost ==
  /\ noise < MaxNoise /\ noise' = noise + 1 /\ NextCell
  /\ UNCHANGED <<ecu, opened, answers, parser, ingest, link_state, since>>

-----------------------------------------------------------------------------
Count(c, limit) == IF c > limit THEN c ELSE c + 1

Tick ==
  /\ IF pos = 0 THEN UNCHANGED noise
     ELSE noise < MaxNoise /\ noise' = noise + 1
  /\ age' = IF snapshot # Blank THEN Count(age, LostAfter) ELSE age
  /\ idle' = IF state # "SEEK_0" THEN Count(idle, StallAfter) ELSE idle
  /\ since' = Count(since, LostAfter) /\ opened' = FALSE
  /\ UNCHANGED <<ecu, sent, pos, answers, state, frame, left, snapshot,
                 refused, link_state>>

LinkNext ==
  \/ FaultRaised \/ (\E lost \in BOOLEAN : SendTelemetry(lost)) \/ SendResponse
  \/ Restart \/ PollEmpty \/ PollCell \/ DemoLoop \/ CellLost \/ Tick

(* The dash polls again and again, time goes on, the ECU sends, and not    *)
(* every frame is lost.                                                    *)
LinkFairness ==
  /\ WF_linkVars(PollEmpty) /\ WF_linkVars(PollCell)
  /\ SF_linkVars(Tick) /\ SF_linkVars(SendTelemetry(FALSE))

LinkSpec == LinkInit /\ [][LinkNext]_linkVars
LinkFairSpec == LinkSpec /\ LinkFairness

-----------------------------------------------------------------------------
LinkTypeOK ==
  /\ boot \in 1 .. MaxBoots /\ fault \in BOOLEAN /\ number \in 0 .. SeqMod - 1
  /\ sent \in Frames /\ pos \in 0 .. 5 /\ opened \in BOOLEAN
  /\ answers \in 0 .. MaxAnswers
  /\ state \in {"SEEK_0", "SEEK_1", "HEADER", "PAYLOAD", "CRC"}
  /\ frame \in Frames /\ left \in 0 .. 2 /\ idle \in 0 .. StallAfter + 1
  /\ snapshot \in Frames
  /\ age \in 0 .. LostAfter + 1 /\ since \in 0 .. LostAfter + 1
  /\ link_state \in {"OK", "STALE", "LOST"}
  /\ refused \in BOOLEAN /\ noise \in 0 .. MaxNoise

(* get_display_rpm, get_display_faults and the others.                     *)
Shown == IF link_state # "LOST" THEN snapshot ELSE Blank

(* A frame is refused as old only when the ECU has restarted in between:   *)
(* numbers may wrap, and any number of frames may be missed.               *)
NoneRefused == ~refused

(* Data of an ECU that has restarted is off the display once LINK_LOST_MS  *)
(* have passed, whatever frames the new one sends: a loop that polls never *)
(* leaves it there.                                                        *)
OldBootGone ==
  [][/\ PollEmpty \/ PollCell \/ DemoLoop
     /\ Shown'.kind = "state" /\ since > LostAfter
     => Shown'.boot = boot]_linkVars

(* Whatever noise there was, the state of the ECU reaches the display, its *)
(* latched faults and its restarts included.                               *)
StateIsShown ==
  \A b \in 1 .. MaxBoots, f \in BOOLEAN :
    boot = b /\ fault = f ~>
      boot # b \/ fault # f \/ (Shown.boot = b /\ Shown.fault = f)
==============================================================================
