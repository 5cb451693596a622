----------------------------- MODULE CrankClaims -----------------------------
(***************************************************************************)
(* Crank with a history of the edges, and what the documentation says of   *)
(* the decoder that the code does not keep.                                *)
(***************************************************************************)
EXTENDS Crank

VARIABLES noise_run,   (* debounced edges in a row, up to the limit          *)
          good_run,    (* accepted edges in a row, kept once enough          *)
          gap_seen     (* a missing-tooth gap since the last reset           *)

runs == <<noise_run, good_run, gap_seen>>

HInit == Init /\ noise_run = 0 /\ good_run = 0 /\ gap_seen = FALSE

Accepted ==
  /\ GapEdge \/ ToothEdge
  /\ noise_run' = 0 /\ good_run' = UpTo(EdgesToLock, good_run + 1)
  /\ gap_seen' = (gap_seen \/ IsGap)

Refused ==
  /\ \/ NoiseEdge /\ noise_run' = UpTo(NoiseLimit, noise_run + 1)
     \/ RejectedEdge /\ noise_run' = 0
  /\ good_run' = IF good_run = EdgesToLock THEN good_run ELSE 0
  /\ UNCHANGED gap_seen

Reset == /\ CutReset \/ TickResets
         /\ noise_run' = 0 /\ good_run' = 0 /\ gap_seen' = FALSE

Others == \/ FirstEdge \/ Pass
          \/ TickStart \/ TickInhibited \/ TickAllowed \/ TickTimeout
          \/ TickRange \/ TickNoise \/ TickSync \/ TickMode
          \/ CutForInhibit \/ CutForFault \/ TickEnds

HNext == Accepted \/ Refused \/ Reset \/ (Others /\ UNCHANGED runs)

HSpec == HInit /\ [][HNext]_<<vars, runs>>

(* ecu_types.h:77: "no edges seen for this long => SYNC_LOST".  An edge    *)
(* that preempts the tick between its reading of the clock and the test    *)
(* makes the age of that edge wrap, and sync is lost with an edge at hand. *)
TimeoutIsSilence ==
  [][pc = "t_timeout" /\ pc' = "cut_fault" => since >= SyncTimeout]_vars

(* PROJECT_MANUAL.md:995: "after ECU_NOISE_STREAK_LIMIT = 6 consecutive    *)
(* noise hits".  Only a reset clears the count, so hits far apart add up.  *)
NoiseStreakConsecutive ==
  [][pc = "t_noise" /\ pc' = "cut_fault" => noise_run = NoiseLimit]_vars

(* PROJECT_MANUAL.md:996: "After sync_edges_to_lock consecutive consistent *)
(* edges -> return to SYNCED".  A rejected edge does not clear the count:  *)
(* edges that were never that many in a row lock the decoder.              *)
SyncedByConsecutiveEdges ==
  [][pc = "t_sync" /\ sync_state # "SYNCED" /\ sync_state' = "SYNCED"
        => good_run = EdgesToLock]_vars

(* PROJECT_MANUAL.md:799: "This makes the reference edge pin directly to   *)
(* the gap on every revolution rather than walking around the gear".  A    *)
(* reference edge is also counted by teeth, with no gap ever seen.         *)
ReferencePinnedToGap == [][cycle_id' # cycle_id => gap_seen']_vars
=============================================================================
