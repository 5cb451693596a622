----------------------------- MODULE CfgFraming ------------------------------
(***************************************************************************)
(* How the ECUs cut configuration frames out of the bytes that the dash    *)
(* sends: ConfigIngest of ecu/main.py and FrameIngest of                   *)
(* ecu_v2/micropython/main.py, the same reader twice.                      *)
(*                                                                         *)
(* send_ecu_config sends two start bytes, a header of eleven bytes whose   *)
(* last two are the payload's length, the payload and two bytes of CRC.    *)
(* The readers take the header for ten bytes, and the length from where    *)
(* the last byte of the time stamp and the first of the length are.        *)
(*                                                                         *)
(* A frame is where it starts, its length and that byte of its time stamp. *)
(***************************************************************************)
EXTENDS Integers, Sequences

CONSTANTS Base,          (* values of a byte, 256                            *)
          Lens,          (* lengths of the payloads                          *)
          MaxFrames      (* configurations sent in a behaviour               *)

VARIABLES frames,        (* frames sent, in order                            *)
          pos,           (* bytes the reader has dropped from its buffer     *)
          handled        (* frames whose payload has been handled            *)

vars == <<frames, pos, handled>>

Sent(f) == 2 + 11 + f.len + 2

End == IF frames = <<>> THEN 0
       ELSE frames[Len(frames)].at + Sent(frames[Len(frames)])

Init == frames = <<>> /\ pos = 0 /\ handled = {}

(* send_ecu_config                                                         *)
SendConfig(len, t3) ==
  /\ Len(frames) < MaxFrames
  /\ frames' = Append(frames, [at |-> End, len |-> len, t3 |-> t3])
  /\ UNCHANGED <<pos, handled>>

(* payload_len as the readers compute it: buf[10] | buf[11] << 8.          *)
payload_len(f) == f.t3 + Base * (f.len % Base)

Total(f) == 2 + 10 + payload_len(f) + 2

(* What is dropped after a frame: its bytes, and what does not look like a *)
(* start behind them.  Something that does may come first.                 *)
Seek(from) ==
  /\ pos' \in from .. End
  /\ \A i \in 1 .. Len(frames) : frames[i].at >= from => pos' <= frames[i].at

(* _consume_frame with a frame at the front: the CRC is right only if the  *)
(* reader has cut the frame where it ends.                                 *)
_consume_frame(i) ==
  LET f == frames[i]
  IN /\ pos = f.at /\ pos + Total(f) <= End
     /\ handled' = IF Total(f) = Sent(f) THEN handled \cup {i} ELSE handled
     /\ Seek(pos + Total(f)) /\ UNCHANGED frames

(* The same with something at the front that looks like a frame.           *)
ConsumeOther ==
  /\ pos < End /\ \A i \in 1 .. Len(frames) : frames[i].at # pos
  /\ \E n \in 14 .. End - pos : Seek(pos + n)
  /\ UNCHANGED <<frames, handled>>

Next ==
  \/ \E len \in Lens, t3 \in 0 .. Base - 1 : SendConfig(len, t3)
  \/ \E i \in 1 .. Len(frames) : _consume_frame(i)
  \/ ConsumeOther

Spec == Init /\ [][Next]_vars

-----------------------------------------------------------------------------
(* PROJECT_MANUAL.md: leaving the menu sends APPLY and ECMT sends COMMIT   *)
(* (Runtime Configuration Workflow), so what the ECU's reader has passed   *)
(* it has handled.                                                         *)
NothingSkipped ==
  \A i \in 1 .. Len(frames) : pos >= frames[i].at + Sent(frames[i]) => i \in handled
==============================================================================
