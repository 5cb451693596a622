------------------------------ MODULE DashStore ------------------------------
(***************************************************************************)
(* What the dash keeps over a loss of power: load_settings, save_settings, *)
(* maybe_save_persistent_state and what feeds them, update_speed_legacy,   *)
(* update_demo_values and update_runtime (dash/main.py), with power lost   *)
(* between any two operations on files and any of these failing.           *)
(*                                                                         *)
(* A file is missing, corrupt (opened for writing and not written to its   *)
(* end) or holds the odometer; the trip counter, the running time and the  *)
(* settings are saved with it and left out.                                *)
(***************************************************************************)
EXTENDS Integers

CONSTANTS Far,           (* the odometer's clamp                             *)
          Interval,      (* TRIP_SAVE_INTERVAL_MS in ticks                   *)
          MaxBoots       (* starts in a behaviour                            *)

ASSUME OdoAssumption == Far \in Nat \ {0} /\ Interval \in Nat
                        /\ MaxBoots \in Nat \ {0}

VARIABLES
  file, tmp,             (* SETTINGS_FILE and SETTINGS_FILE + ".tmp"         *)
  line, caller, saving,  (* where the loop is; who called save_settings,     *)
                         (* with what                                        *)
  odo, dirty,            (* odo_mm; trip_dirty, odo_dirty or runtime_dirty   *)
  demo, ui,              (* demo_mode_enabled; a screen but the main one     *)
  fast,                  (* the rpm shown is above SAVE_WHEN_RPM_BELOW       *)
  parser,                (* telemetry_ingest.state: ST_SEEK_0 or not         *)
  wait,                  (* ticks since persistent_last_save_ms              *)
  boots,
  kept,                  (* history: what was loaded, or saved with True     *)
  failed                 (* history: file operations failed since, to 2      *)

both    == <<file, tmp>>
env     == <<demo, ui, fast>>
odoVars == <<both, line, caller, saving, odo, dirty, env, parser, wait, boots,
             kept, failed>>

NoFile      == -1
CutShort    == -2
Contents    == 0 .. Far
Readable(f) == f \in Contents

Least(m, n) == IF m < n THEN m ELSE n

(* What a boot makes of two files when no operation of its own fails.      *)
Found == IF Readable(file) THEN file
         ELSE IF file = NoFile /\ Readable(tmp) THEN tmp ELSE 0

OdoInit ==
  /\ file = NoFile /\ tmp = NoFile
  /\ line = "tidy" /\ caller = "none" /\ saving = 0
  /\ odo = 0 /\ dirty = FALSE
  /\ demo = TRUE /\ ui = FALSE /\ fast = FALSE /\ parser = "SEEK_0" /\ wait = 0
  /\ boots = 1 /\ kept = 0 /\ failed = 0

Fails == failed' = Least(failed + 1, 2)

-----------------------------------------------------------------------------
(* load_settings.                                                          *)

(* Mutant: what is left of a save goes, whether or not there is a file.    *)
TidyDrops ==
  /\ line = "tidy" /\ line' = "load"
  /\ \/ tmp' = NoFile /\ UNCHANGED <<file, failed>>
     \/ tmp # NoFile /\ Fails /\ UNCHANGED both
  /\ UNCHANGED <<caller, saving, odo, dirty, env, parser, wait, boots, kept>>

Tidy ==
  /\ line = "tidy" /\ line' = "load"
  /\ \/ tmp = NoFile /\ UNCHANGED <<both, failed>>
     \/ /\ tmp # NoFile /\ file # NoFile /\ tmp' = NoFile
        /\ UNCHANGED <<file, failed>>
     \/ /\ tmp # NoFile /\ file = NoFile /\ file' = tmp /\ tmp' = NoFile
        /\ UNCHANGED failed
     \/ tmp # NoFile /\ Fails /\ UNCHANGED both
  /\ UNCHANGED <<caller, saving, odo, dirty, env, parser, wait, boots, kept>>

(* The module's defaults stand for what cannot be read.                    *)
Load ==
  /\ line = "load" /\ line' = "poll"
  /\ odo' = IF Readable(file) THEN file ELSE 0
  /\ kept' = IF failed = 2 THEN kept ELSE odo'
  /\ demo' \in IF Readable(file) THEN BOOLEAN ELSE {TRUE}
  /\ UNCHANGED <<both, caller, saving, dirty, ui, fast, parser, wait, boots,
                 failed>>

-----------------------------------------------------------------------------
(* save_settings, one file operation at a time.                            *)

save_settings(who) ==
  line' = "open" /\ caller' = who /\ saving' = odo

SaveReturns ==
  /\ caller' = "none" /\ saving' = 0
  /\ line' = IF caller = "menu" THEN "update" ELSE "poll"

Disk(p) == line = p /\ UNCHANGED <<odo, env, parser, boots>>

Proceeds(p) == line' = p /\ UNCHANGED <<caller, saving>>

NotSaved == UNCHANGED <<dirty, wait, kept>>

Open ==
  /\ Disk("open") /\ NotSaved
  /\ \/ tmp' = CutShort /\ Proceeds("write") /\ UNCHANGED <<file, failed>>
     \/ Fails /\ Proceeds("cleanup") /\ UNCHANGED both

Write ==
  /\ Disk("write") /\ NotSaved /\ UNCHANGED file
  /\ \/ tmp' = saving /\ Proceeds("rename") /\ UNCHANGED failed
     \/ Fails /\ Proceeds("cleanup") /\ UNCHANGED tmp

(* The new content is in place: save_settings returns True.                *)
Renamed ==
  /\ file' = tmp /\ tmp' = NoFile
  /\ dirty' = FALSE /\ wait' = (IF caller = "menu" THEN wait ELSE 0)
  /\ kept' = saving /\ failed' = 0 /\ SaveReturns

Rename ==
  /\ Disk("rename")
  /\ \/ Renamed
     \/ Fails /\ Proceeds("remove") /\ UNCHANGED both /\ NotSaved

Remove ==
  /\ Disk("remove") /\ NotSaved /\ Proceeds("again") /\ UNCHANGED tmp
  /\ \/ file' = NoFile /\ UNCHANGED failed
     \/ Fails /\ UNCHANGED file

Again ==
  /\ Disk("again")
  /\ \/ Renamed
     \/ Fails /\ Proceeds("cleanup") /\ UNCHANGED both /\ NotSaved

(* save_settings returns False.                                            *)
Cleanup ==
  /\ Disk("cleanup") /\ NotSaved /\ SaveReturns /\ UNCHANGED file
  /\ \/ tmp' = NoFile /\ UNCHANGED failed
     \/ Fails /\ UNCHANGED tmp

-----------------------------------------------------------------------------
(* The main loop: poll, handle_buttons, the counters, and the save.        *)

(* TelemetryIngest.poll ends between frames or inside one.                 *)
Poll(st) ==
  /\ line = "poll" /\ ~demo /\ parser' = st /\ line' = "buttons"
  /\ UNCHANGED <<both, caller, saving, odo, dirty, env, wait, boots, kept,
                 failed>>

(* In demo mode nothing is polled.                                         *)
DemoSkips ==
  /\ line = "poll" /\ demo /\ line' = "buttons"
  /\ UNCHANGED <<both, caller, saving, odo, dirty, env, parser, wait, boots,
                 kept, failed>>

Buttons ==
  line = "buttons" /\ UNCHANGED <<both, odo, parser, wait, boots, kept, failed>>

(* No event, or one that opens or closes a screen or toggles DEMO.         *)
handle_buttons ==
  /\ Buttons /\ line' = "update" /\ UNCHANGED <<caller, saving, dirty, fast>>
  /\ ui' \in BOOLEAN /\ demo' \in IF ui THEN BOOLEAN ELSE {demo}

(* OK on an item, with settings to save: the menu closes.                  *)
LeaveMenu ==
  /\ Buttons /\ ui /\ ui' = FALSE
  /\ UNCHANGED <<dirty, demo, fast>> /\ save_settings("menu")

(* reset_settings_to_defaults: DEMO_MODE_DEFAULT is on.                    *)
ResetMenu ==
  /\ Buttons /\ ui /\ demo' = TRUE
  /\ UNCHANGED <<dirty, ui, fast>> /\ save_settings("menu")

clear_trip ==
  /\ Buttons /\ ui /\ dirty' = TRUE
  /\ UNCHANGED env /\ save_settings("menu")

(* Mutant: no clamp.                                                       *)
CountsOn(dist) == odo + dist

apply_distance_mm(dist) == Least(odo + dist, Far)

(* What one loop may add: update_speed_legacy, or in demo mode             *)
(* update_demo_values and update_distance_from_telemetry_speed.            *)
Distances == {0, 1}

(* The counters, and update_runtime a second now and then.                 *)
Update ==
  /\ line = "update" /\ line' = "save"
  /\ \E dist \in Distances, second \in BOOLEAN :
       /\ odo' = apply_distance_mm(dist)
       /\ dirty' = (dirty \/ dist > 0 \/ second)
  /\ UNCHANGED <<both, caller, saving, env, parser, wait, boots, kept, failed>>

(* Mutant: what demo mode counts is not saved.                             *)
DueButDemo ==
  dirty /\ ~fast /\ wait >= Interval /\ ~ui /\ parser = "SEEK_0" /\ ~demo

(* maybe_save_persistent_state.                                            *)
SaveDue == dirty /\ ~fast /\ wait >= Interval /\ ~ui /\ parser = "SEEK_0"

maybe_save_persistent_state ==
  /\ line = "save"
  /\ IF SaveDue THEN save_settings("loop")
                ELSE line' = "poll" /\ UNCHANGED <<caller, saving>>
  /\ UNCHANGED <<both, odo, dirty, env, parser, wait, boots, kept, failed>>

-----------------------------------------------------------------------------
(* Around the loop.                                                        *)

Still ==
  UNCHANGED <<both, line, caller, saving, odo, dirty, parser, boots, kept,
              failed>>

EngineMoves == fast' = ~fast /\ UNCHANGED <<demo, ui, wait>> /\ Still

Tick == wait' = Least(wait + 1, Interval) /\ UNCHANGED env /\ Still

DashPowerLost ==
  /\ boots < MaxBoots /\ boots' = boots + 1
  /\ line' = "tidy" /\ caller' = "none" /\ saving' = 0
  /\ odo' = 0 /\ dirty' = FALSE
  /\ demo' = TRUE /\ ui' = FALSE /\ parser' = "SEEK_0" /\ wait' = 0
  /\ UNCHANGED <<both, fast, kept, failed>>

SaveSteps == Open \/ Write \/ Rename \/ Remove \/ Again \/ Cleanup
LoopSteps ==
  \/ (\E st \in {"SEEK_0", "MID"} : Poll(st)) \/ DemoSkips
  \/ handle_buttons \/ LeaveMenu \/ ResetMenu \/ clear_trip
  \/ Update \/ maybe_save_persistent_state

OdoNext ==
  \/ Tidy \/ Load \/ SaveSteps \/ LoopSteps
  \/ EngineMoves \/ Tick \/ DashPowerLost

(* The program runs on, time with it; polls end between two frames again   *)
(* and again, and so does the file system do what it is asked.             *)
OdoFairness ==
  /\ WF_odoVars(Tidy \/ Load \/ SaveSteps \/ LoopSteps)
  /\ WF_odoVars(Tick) /\ SF_odoVars(Poll("SEEK_0"))
  /\ SF_odoVars(Open /\ Proceeds("write"))
  /\ SF_odoVars(Write /\ Proceeds("rename"))
  /\ SF_odoVars((Rename \/ Again) /\ Renamed)

OdoSpec == OdoInit /\ [][OdoNext]_odoVars
OdoFairSpec == OdoSpec /\ OdoFairness

-----------------------------------------------------------------------------
Files == Contents \cup {NoFile, CutShort}

OdoTypeOK ==
  /\ file \in Files /\ tmp \in Files /\ saving \in Contents /\ kept \in Contents
  /\ line \in {"tidy", "load", "poll", "buttons", "update", "save", "open",
             "write", "rename", "remove", "again", "cleanup"}
  /\ caller \in {"none", "menu", "loop"}
  /\ odo \in 0 .. Far
  /\ dirty \in BOOLEAN /\ demo \in BOOLEAN /\ ui \in BOOLEAN /\ fast \in BOOLEAN
  /\ parser \in {"SEEK_0", "MID"} /\ wait \in 0 .. Interval /\ boots \in 1 .. MaxBoots
  /\ failed \in 0 .. 2

(* Power lost at any moment, the next boot finds an odometer that is not   *)
(* behind what was loaded or saved last, unless two file operations have   *)
(* failed since.                                                           *)
OdometerKept == failed < 2 => Found >= kept

(* With the engine slow and the main screen up for good, what has changed  *)
(* is saved again and again, but for a dash that was put into demo mode    *)
(* inside a frame.                                                         *)
SavesWhenParked ==
  <>[](~fast /\ ~ui) => []<>~dirty \/ <>[](demo /\ parser = "MID")
==============================================================================
