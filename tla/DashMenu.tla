------------------------------ MODULE DashMenu -------------------------------
(***************************************************************************)
(* The dash's five buttons, its screens, its menu and the configuration it *)
(* sends to the ECU: get_button_event, handle_buttons, adjust_setting,     *)
(* send_ecu_config and flush_pending_config_tx of dash/main.py.            *)
(*                                                                         *)
(* Items 7 to 13 and the timing map are one value, `ecu', with its clamp;  *)
(* items 0 to 6, which are saved the same way and not sent, are an item    *)
(* whose value is left out.  What save_settings does inside, and the trip  *)
(* counters, are in DashStore.                                             *)
(***************************************************************************)
EXTENDS Integers, Sequences

CONSTANTS Hands,         (* sets of buttons that can be down together        *)
          Debounce, Long, Stall,  (* BTN_DEBOUNCE_MS, OK_LONG_PRESS_MS and   *)
                         (* CFG_TX_STALL_MS in ticks                         *)
          Chunks,        (* writes that a configuration frame takes          *)
          Top,           (* the values' upper clamp; 0 is the lower          *)
          Entries        (* entries of the fault log that flog may page      *)

Buttons   == <<"OK", "UP", "DOWN", "LEFT", "RIGHT">>
ButtonSet == {Buttons[i] : i \in 1 .. 5}

ASSUME MenuAssumption ==
  /\ Hands \subseteq SUBSET ButtonSet /\ {} \in Hands
  /\ Debounce \in Nat \ {0} /\ Long \in Nat /\ Debounce <= Long
  /\ Stall \in Nat /\ Chunks \in Nat \ {0} /\ Top \in Nat \ {0}
  /\ Entries \in Nat

VARIABLES
  prev, since, held,     (* btn_prev_*; ticks since last_btn_ms and, while   *)
  ok_long_fired,         (* OK is down, since ok_press_start_ms              *)
  screen,                (* the *_active flags                               *)
  menu_index, armed,     (* the item at the cursor; the *_confirm_armed      *)
  flog_index,
  ecu, stored,           (* the values, and what the file holds              *)
  settings_dirty, ecu_cfg_dirty,
  pending, quiet, due,   (* config_tx_pending with what is left of it; ticks *)
                         (* since config_tx_last_progress_ms;                *)
                         (* config_tx_next_try_ms has come                   *)
  shown,                 (* history: `ecu' when the commit was armed, or 0   *)
  loaded,                (* history: `ecu' is as load_settings left it       *)
  sent,                  (* history: `ecu' of the COMMIT last sent whole, by *)
                         (* this run of the dash or an earlier one           *)
  dropped,               (* history: this run has dropped a COMMIT since     *)
  unsaved,               (* history: a reset was not saved                   *)
  opened                 (* history: this press of OK has opened the menu    *)

hands  == <<prev, since, held, ok_long_fired>>
cursor == <<menu_index, armed>>
dirty  == <<settings_dirty, ecu_cfg_dirty>>
tx     == <<pending, quiet, due, sent, dropped>>
vars   == <<hands, screen, cursor, flog_index, ecu, stored, dirty, tx, shown,
            loaded, unsaved, opened>>

Items   == <<"LOCAL", "ECU", "TMAP", "ECMT", "RSET", "TRIP", "TCLR">>
Events  == {"none", "OK_LONG"} \cup ButtonSet
Screens == {"menu", "map", "info", "graph", "flog"}
None    == [mode |-> "none", ecu |-> 0, left |-> 0]
NotHeld == -1

Item == Items[menu_index + 1]

(* After load_settings.  What it read may never have been sent: leaving    *)
(* the menu saves the values, and ecu_cfg_dirty is not saved with them.    *)
Init ==
  /\ prev = {} /\ since = Debounce /\ held = NotHeld /\ ok_long_fired = FALSE
  /\ screen = {} /\ menu_index = 0 /\ armed = {} /\ flog_index = 0
  /\ ecu \in 0 .. Top /\ stored = ecu
  /\ settings_dirty = FALSE /\ ecu_cfg_dirty = FALSE
  /\ pending = None /\ quiet = 0 /\ due = TRUE
  /\ shown = 0 /\ loaded = TRUE /\ sent \in 0 .. Top /\ dropped = FALSE
  /\ unsaved = FALSE /\ opened = FALSE

-----------------------------------------------------------------------------
(* get_button_event.                                                       *)

LongDue(down) ==
  "OK" \in down /\ held >= Long /\ ~ok_long_fired /\ since >= Debounce

(* Mutant: a button that is held gives its event again and again.          *)
Levels(down) == {i \in 1 .. 5 : Buttons[i] \in down}

Edges(down) == {i \in 1 .. 5 : Buttons[i] \in down \ prev}

First(edges) == CHOOSE i \in edges : \A j \in edges : i <= j

EventOf(down) ==
  IF LongDue(down) THEN "OK_LONG"
  ELSE IF since < Debounce \/ Edges(down) = {} THEN "none"
  ELSE Buttons[First(Edges(down))]

get_button_event(down, event) ==
  /\ event = EventOf(down)
  /\ prev' = down
  /\ since' = IF event = "none" THEN since ELSE 0
  /\ held' = IF "OK" \notin down THEN NotHeld ELSE IF held = NotHeld THEN 0 ELSE held
  /\ ok_long_fired' = ("OK" \in down /\ (ok_long_fired \/ event = "OK_LONG"))
  /\ opened' = ("OK" \in down /\ (opened \/ (event = "OK" /\ screen = {})))

-----------------------------------------------------------------------------
(* What the handlers call.                                                 *)

Clamped(v) == IF v < 0 THEN 0 ELSE IF v > Top THEN Top ELSE v

Delta(event) == IF event \in {"LEFT", "UP"} THEN -1 ELSE 1

(* save_settings with the values of after the step.                        *)
save_settings(ok) ==
  /\ stored' = IF ok THEN ecu' ELSE stored
  /\ settings_dirty' = (settings_dirty /\ ~ok)

(* The link takes n of the chunks left; sent whole, the frame is gone.     *)
Written(frame, n) ==
  /\ pending' = IF n = frame.left THEN None ELSE [frame EXCEPT !.left = @ - n]
  /\ quiet' = (IF n > 0 THEN 0 ELSE quiet) /\ due' = (n = frame.left)
  /\ IF n = frame.left /\ frame.mode = "COMMIT"
     THEN sent' = frame.ecu /\ dropped' = FALSE ELSE UNCHANGED <<sent, dropped>>

(* send_ecu_config: the frame is built and its first chunk written, or     *)
(* "CFG busy".                                                             *)
send_ecu_config(mode) ==
  /\ pending = None
  /\ \E n \in 0 .. 1 : Written([mode |-> mode, ecu |-> ecu, left |-> Chunks], n)

Busy == pending # None /\ UNCHANGED tx

(* adjust_setting, items 0 to 13.                                          *)
adjust_setting(delta) ==
  \/ /\ Item = "ECU" /\ ecu' = Clamped(ecu + delta)
     /\ settings_dirty' = (settings_dirty \/ ecu' # ecu)
     /\ ecu_cfg_dirty' = (ecu_cfg_dirty \/ ecu' # ecu)
  \/ /\ Item = "LOCAL" /\ settings_dirty' \in {settings_dirty, TRUE}
     /\ UNCHANGED <<ecu, ecu_cfg_dirty>>

KeepsValues == UNCHANGED <<ecu, stored, dirty, tx, unsaved>>

-----------------------------------------------------------------------------
(* handle_buttons, one action for each screen.                             *)

Closes(event) == event \in {"OK", "OK_LONG"}

MapEditor(event) ==
  /\ "map" \in screen
  /\ screen' = IF Closes(event) THEN screen \ {"map"} ELSE screen
  /\ ecu' = IF event \in {"LEFT", "RIGHT"} THEN Clamped(ecu + Delta(event)) ELSE ecu
  /\ settings_dirty' = (settings_dirty \/ ecu' # ecu)
  /\ ecu_cfg_dirty' = (ecu_cfg_dirty \/ ecu' # ecu)
  /\ UNCHANGED <<cursor, flog_index, stored, tx, unsaved>>

MainScreen(event) ==
  /\ screen = {}
  /\ screen' = CASE event = "OK" -> {"menu"} [] event = "OK_LONG" -> {"info"}
                 [] OTHER -> {}
  /\ armed' = IF event = "OK" THEN {} ELSE armed
  /\ UNCHANGED <<menu_index, flog_index>> /\ KeepsValues

(* Paused, with UP and DOWN held, the graph takes no event.                *)
Graph(event, down) ==
  /\ "graph" \in screen
  /\ screen' = IF Closes(event) /\ ~({"UP", "DOWN"} \subseteq down)
               THEN screen \ {"graph"} ELSE screen
  /\ UNCHANGED <<cursor, flog_index>> /\ KeepsValues

(* `total' entries are in the log of the snapshot of this moment.          *)
Flog(event, total) ==
  /\ "flog" \in screen /\ "graph" \notin screen
  /\ \/ Closes(event) /\ screen' = screen \ {"flog"} /\ UNCHANGED flog_index
     \/ /\ event = "RIGHT" /\ flog_index >= total - 1
        /\ screen' = (screen \ {"flog"}) \cup {"graph"} /\ UNCHANGED flog_index
     \/ /\ event = "RIGHT" /\ flog_index < total - 1
        /\ flog_index' = flog_index + 1 /\ UNCHANGED screen
     \/ /\ event = "LEFT" /\ flog_index > 0
        /\ flog_index' = flog_index - 1 /\ UNCHANGED screen
     \/ /\ event = "LEFT" /\ flog_index = 0
        /\ screen' = (screen \ {"flog"}) \cup {"info"} /\ UNCHANGED flog_index
     \/ event \in {"UP", "DOWN"} /\ UNCHANGED <<screen, flog_index>>
  /\ UNCHANGED cursor /\ KeepsValues

Info(event) ==
  /\ "info" \in screen /\ screen \cap {"map", "graph", "flog"} = {}
  /\ screen' = (IF Closes(event) \/ event = "RIGHT" THEN screen \ {"info"} ELSE screen)
               \cup (IF event = "RIGHT" THEN {"flog"} ELSE {})
  /\ flog_index' = IF event = "RIGHT" THEN 0 ELSE flog_index
  /\ UNCHANGED cursor /\ KeepsValues

Menu == screen = {"menu"}

OpenMap(event) ==
  /\ Menu /\ event = "OK" /\ Item = "TMAP"
  /\ screen' = screen \cup {"map"}
  /\ UNCHANGED <<cursor, flog_index>> /\ KeepsValues

(* OK on ECMT, RSET or TCLR arms it first.                                 *)
Arm(event) ==
  /\ Menu /\ event = "OK" /\ Item \in {"ECMT", "RSET", "TCLR"} \ armed
  /\ armed' = armed \cup {Item}
  /\ UNCHANGED <<screen, menu_index, flog_index, ecu, stored, dirty, tx, unsaved>>

Commit(event) ==
  /\ Menu /\ event = "OK" /\ Item = "ECMT" /\ "ECMT" \in armed
  /\ \/ send_ecu_config("COMMIT") /\ ecu_cfg_dirty' = FALSE
     \/ Busy /\ UNCHANGED ecu_cfg_dirty
  /\ armed' = armed \ {"ECMT"}
  /\ UNCHANGED <<screen, menu_index, flog_index, ecu, stored, settings_dirty,
                 unsaved>>

(* Mutant: the defaults are not marked as news to the ECU.                 *)
ResetUnmarked(event, ok) ==
  /\ Menu /\ event = "OK" /\ Item = "RSET" /\ "RSET" \in armed
  /\ ecu' = 0
  /\ save_settings(ok) /\ unsaved' = (~ok /\ (unsaved \/ ~settings_dirty))
  /\ armed' = armed \ {"RSET"}
  /\ UNCHANGED <<screen, menu_index, flog_index, ecu_cfg_dirty, tx>>

(* reset_settings_to_defaults, saved or not.                               *)
Reset(event, ok) ==
  /\ Menu /\ event = "OK" /\ Item = "RSET" /\ "RSET" \in armed
  /\ ecu' = 0 /\ ecu_cfg_dirty' = TRUE
  /\ save_settings(ok) /\ unsaved' = (~ok /\ (unsaved \/ ~settings_dirty))
  /\ armed' = armed \ {"RSET"}
  /\ UNCHANGED <<screen, menu_index, flog_index, tx>>

(* clear_trip; the save stores the settings too, and settings_dirty stays. *)
ClearTrip(event, ok) ==
  /\ Menu /\ event = "OK" /\ Item = "TCLR" /\ "TCLR" \in armed
  /\ stored' = IF ok THEN ecu ELSE stored
  /\ unsaved' = (unsaved /\ ~ok)
  /\ armed' = armed \ {"TCLR"}
  /\ UNCHANGED <<screen, menu_index, flog_index, ecu, dirty, tx>>

(* OK anywhere else: the settings are saved, the edits sent to be tried    *)
(* (APPLY), and the menu closes whatever came of it.                       *)
Leave(event, ok) ==
  /\ Menu /\ event = "OK" /\ Item \in {"LOCAL", "ECU", "TRIP"}
  /\ UNCHANGED ecu
  /\ IF settings_dirty THEN save_settings(ok) /\ unsaved' = (unsaved /\ ~ok)
                       ELSE UNCHANGED <<stored, settings_dirty, unsaved>>
  /\ IF ecu_cfg_dirty THEN send_ecu_config("APPLY") \/ Busy ELSE UNCHANGED tx
  /\ armed' = {} /\ screen' = {}
  /\ UNCHANGED <<menu_index, flog_index, ecu_cfg_dirty>>

(* Mutant: the cursor moves and what is armed stays armed.                 *)
MoveArmed(event) ==
  /\ Menu /\ event \in {"UP", "DOWN"}
  /\ menu_index' = (menu_index + Delta(event)) % Len(Items)
  /\ UNCHANGED <<screen, flog_index, armed>> /\ KeepsValues

Move(event) ==
  /\ Menu /\ event \in {"UP", "DOWN"}
  /\ menu_index' = (menu_index + Delta(event)) % Len(Items)
  /\ armed' = {}
  /\ UNCHANGED <<screen, flog_index>> /\ KeepsValues

Adjust(event) ==
  /\ Menu /\ event \in {"LEFT", "RIGHT"}
  /\ IF Item \in {"LOCAL", "ECU"}
     THEN /\ adjust_setting(Delta(event))
          /\ UNCHANGED <<armed, stored, tx, unsaved>>
     ELSE armed' = {} /\ KeepsValues
  /\ UNCHANGED <<screen, menu_index, flog_index>>

NoEvent == UNCHANGED <<screen, cursor, flog_index>> /\ KeepsValues

(* OK_LONG does nothing in the menu.                                       *)
handle_buttons(down) ==
  \E event \in Events, ok \in BOOLEAN :
    /\ get_button_event(down, event)
    /\ \/ event = "none" /\ NoEvent
       \/ /\ event # "none"
          /\ \/ MapEditor(event) \/ MainScreen(event) \/ Graph(event, down)
             \/ (\E total \in 0 .. Entries : Flog(event, total))
             \/ Info(event) \/ OpenMap(event) \/ Arm(event) \/ Commit(event)
             \/ Reset(event, ok) \/ ClearTrip(event, ok) \/ Leave(event, ok)
             \/ Move(event) \/ Adjust(event)
             \/ Menu /\ event = "OK_LONG" /\ NoEvent
    /\ shown' = IF "ECMT" \notin armed' THEN 0
                ELSE IF "ECMT" \in armed THEN shown ELSE ecu
    /\ loaded' = (loaded /\ ecu' = ecu)

-----------------------------------------------------------------------------
(* The rest of the loop.                                                   *)

Others == <<hands, screen, cursor, flog_index, ecu, dirty, shown, loaded, opened>>

(* Mutant: a link that takes nothing is waited for.                        *)
FlushForever ==
  /\ pending # None /\ due
  /\ \E n \in 0 .. 1 : Written(pending, n)
  /\ UNCHANGED <<Others, stored, unsaved>>

(* flush_pending_config_tx: the frame is given up, or a chunk is written,  *)
(* or none is taken.                                                       *)
flush_pending_config_tx ==
  /\ pending # None /\ due
  /\ \/ /\ quiet > Stall /\ pending' = None /\ quiet' = 0 /\ due' = TRUE
        /\ dropped' = (dropped \/ pending.mode = "COMMIT") /\ UNCHANGED sent
     \/ quiet <= Stall /\ \E n \in 0 .. 1 : Written(pending, n)
  /\ UNCHANGED <<Others, stored, unsaved>>

(* maybe_save_persistent_state when it saves.                              *)
PeriodicSave ==
  /\ screen \cap {"menu", "info", "graph", "flog"} = {}
  /\ stored' = ecu /\ unsaved' = FALSE
  /\ UNCHANGED <<Others, tx>>

Count(c, limit) == IF c >= limit THEN c ELSE c + 1

Tick ==
  /\ since' = Count(since, Debounce)
  /\ held' = IF held = NotHeld THEN held ELSE Count(held, Long)
  /\ quiet' = IF pending = None THEN quiet ELSE Count(quiet, Stall + 1)
  /\ due' = TRUE
  /\ UNCHANGED <<prev, ok_long_fired, screen, cursor, flog_index, ecu, stored,
                 dirty, pending, sent, dropped, shown, loaded, unsaved, opened>>

(* Power is lost and comes back: what is not in the file is gone, the      *)
(* marks of what has been edited included.                                 *)
PowerCycle ==
  /\ prev' = {} /\ since' = Debounce /\ held' = NotHeld /\ ok_long_fired' = FALSE
  /\ screen' = {} /\ menu_index' = 0 /\ armed' = {} /\ flog_index' = 0
  /\ ecu' = stored /\ settings_dirty' = FALSE /\ ecu_cfg_dirty' = FALSE
  /\ pending' = None /\ quiet' = 0 /\ due' = TRUE
  /\ shown' = 0 /\ loaded' = TRUE /\ dropped' = FALSE
  /\ unsaved' = FALSE /\ opened' = FALSE
  /\ UNCHANGED <<stored, sent>>

Next ==
  \/ (\E down \in Hands : handle_buttons(down))
  \/ flush_pending_config_tx \/ PeriodicSave \/ Tick \/ PowerCycle

(* The loop goes round, and time with it.                                  *)
Fairness == WF_vars(flush_pending_config_tx) /\ WF_vars(Tick)

Spec == Init /\ [][Next]_vars
FairSpec == Spec /\ Fairness

-----------------------------------------------------------------------------
TypeOK ==
  /\ prev \in Hands /\ since \in 0 .. Debounce /\ held \in NotHeld .. Long
  /\ ok_long_fired \in BOOLEAN /\ screen \subseteq Screens
  /\ menu_index \in 0 .. Len(Items) - 1 /\ armed \subseteq {"ECMT", "RSET", "TCLR"}
  /\ flog_index \in 0 .. Entries
  /\ ecu \in 0 .. Top /\ stored \in 0 .. Top
  /\ settings_dirty \in BOOLEAN /\ ecu_cfg_dirty \in BOOLEAN
  /\ pending \in [mode : {"none", "APPLY", "COMMIT"}, ecu : 0 .. Top, left : 0 .. Chunks]
  /\ quiet \in 0 .. Stall + 1 /\ due \in BOOLEAN /\ shown \in 0 .. Top /\ sent \in 0 .. Top
  /\ loaded \in BOOLEAN /\ dropped \in BOOLEAN /\ unsaved \in BOOLEAN /\ opened \in BOOLEAN

(* One screen shows at a time, the map editor over the menu, and nothing   *)
(* is armed but the item at the cursor of the open menu.                   *)
OneScreen ==
  /\ screen \in {{}, {"menu"}, {"menu", "map"}, {"info"}, {"graph"}, {"flog"}}
  /\ armed # {} => screen = {"menu"} /\ armed = {Item}

(* A COMMIT carries the values that were there when the rider armed it.    *)
CommitAsShown ==
  [][pending = None /\ pending'.mode = "COMMIT" => pending'.ecu = shown]_vars

(* What the menu says with "TMAP clean" (dash/main.py:2289): a COMMIT with *)
(* just these values has been sent whole or is being sent.  The code does  *)
(* not keep it, over a power cycle and when a COMMIT is dropped.           *)
TmapClean ==
  ~ecu_cfg_dirty => sent = ecu \/ (pending.mode = "COMMIT" /\ pending.ecu = ecu)

(* Values edited since the boot are called clean only if a COMMIT with     *)
(* just these has been sent whole, is being sent, or was given up in this  *)
(* run, whatever is edited, reset or found busy while one is on its way.   *)
CleanWasSent == loaded \/ dropped \/ TmapClean

(* Settings that are not to be saved are in the file, but for defaults     *)
(* whose save failed.                                                      *)
CleanIsStored == settings_dirty \/ unsaved \/ stored = ecu

(* A press of OK that has opened the menu never opens the info screen, the *)
(* long press that the same press may become included.                     *)
PressOpensOne == [][screen = {} /\ screen' = {"info"} => ~opened]_vars

(* A configuration does not stay in the sender, whatever the link does.    *)
TxEnds == pending # None ~> pending = None
==============================================================================
