---------------------------- MODULE DashMenu_proofs --------------------------
(***************************************************************************)
(* Proofs about DashMenu, for every length of the debounce time, the long  *)
(* press and the stall, every size of a frame and every range of values.   *)
(***************************************************************************)
EXTENDS DashMenu, TLAPS

Frames == [mode : {"APPLY", "COMMIT"}, ecu : 0 .. Top, left : 1 .. Chunks]

LEMMA FramesAreNotNone == ASSUME NEW f \in Frames PROVE f # None
BY DEF Frames, None

(* The inductive invariant.                                                *)
HandsInv ==
  /\ prev \in Hands /\ since \in 0 .. Debounce /\ held \in NotHeld .. Long
  /\ ok_long_fired \in BOOLEAN /\ opened \in BOOLEAN
  /\ opened => "OK" \in prev /\ "menu" \in screen

CursorInv ==
  /\ menu_index \in 0 .. 6 /\ armed \subseteq {"ECMT", "RSET", "TCLR"}
  /\ flog_index \in 0 .. Entries
  /\ OneScreen

ValueInv ==
  /\ ecu \in 0 .. Top /\ stored \in 0 .. Top
  /\ settings_dirty \in BOOLEAN /\ ecu_cfg_dirty \in BOOLEAN
  /\ unsaved \in BOOLEAN
  /\ CleanIsStored

(* A COMMIT that is being sent has the values of now, unless they have     *)
(* been edited since.                                                      *)
CommitIsCurrent ==
  pending.mode = "COMMIT" => ecu_cfg_dirty \/ pending.ecu = ecu

TxInv ==
  /\ pending = None \/ pending \in Frames
  /\ quiet \in 0 .. Stall + 1 /\ due \in BOOLEAN /\ sent \in 0 .. Top
  /\ dropped \in BOOLEAN /\ loaded \in BOOLEAN
  /\ CleanWasSent /\ CommitIsCurrent

ShownInv == shown \in 0 .. Top /\ ("ECMT" \in armed => shown = ecu)

IInv == HandsInv /\ CursorInv /\ ValueInv /\ TxInv /\ ShownInv

-----------------------------------------------------------------------------
(* What every handler does to the history `loaded'.                        *)
LoadedStep == loaded' = (loaded /\ ecu' = ecu)

(* What a step with an event leaves as it was: values that are armed, the  *)
(* menu, unless OK is pressed, and the sender's values, unless armed.      *)
Kept(event) ==
  /\ "ECMT" \in armed /\ "ECMT" \in armed' => ecu' = ecu
  /\ "menu" \in screen /\ event # "OK" => "menu" \in screen'
  /\ pending = None /\ pending'.mode = "COMMIT" =>
       "ECMT" \in armed /\ pending'.ecu = ecu

Good(event) == CursorInv' /\ ValueInv' /\ TxInv' /\ Kept(event)

LEMMA ValuesKept ==
  ASSUME ValueInv, TxInv, LoadedStep, KeepsValues
  PROVE  /\ ValueInv' /\ TxInv' /\ ecu' = ecu
         /\ pending = None => pending'.mode # "COMMIT"
<1>1. UNCHANGED <<ecu, stored, settings_dirty, ecu_cfg_dirty, pending, quiet,
                  due, sent, dropped, unsaved>>
  BY DEF KeepsValues, dirty, tx
<1>2. ValueInv' /\ ecu' = ecu
  BY <1>1 DEF ValueInv, CleanIsStored
<1>3. TxInv'
  BY <1>1, <1>2 DEF TxInv, CleanWasSent, TmapClean, CommitIsCurrent, LoadedStep
<1>4. pending = None => pending'.mode # "COMMIT"
  BY <1>1 DEF None
<1> QED BY <1>2, <1>3, <1>4

LEMMA WrittenGood ==
  ASSUME TxInv, NEW frame \in Frames, NEW n \in 0 .. 1, Written(frame, n)
  PROVE  /\ pending' = None \/ pending' \in Frames
         /\ quiet' \in 0 .. Stall + 1 /\ due' \in BOOLEAN /\ sent' \in 0 .. Top
         /\ dropped' \in BOOLEAN
         /\ pending' # None => pending'.mode = frame.mode /\ pending'.ecu = frame.ecu
         /\ frame.mode # "COMMIT" \/ pending' # None
            => sent' = sent /\ dropped' = dropped
         /\ frame.mode = "COMMIT" /\ pending' = None => sent' = frame.ecu
<1>1. /\ frame.left \in 1 .. Chunks /\ frame.ecu \in 0 .. Top
      /\ frame.mode \in {"APPLY", "COMMIT"}
  BY DEF Frames
<1>2. CASE n = frame.left
  <2>1. pending' = None /\ due' = TRUE
    BY <1>2 DEF Written
  <2>2. quiet' \in 0 .. Stall + 1
    BY MenuAssumption DEF Written, TxInv
  <2>3. CASE frame.mode = "COMMIT"
    <3>1. sent' = frame.ecu /\ dropped' = FALSE
      BY <1>2, <2>3 DEF Written
    <3> QED BY <1>1, <2>1, <2>2, <2>3, <3>1
  <2>4. CASE frame.mode # "COMMIT"
    <3>1. sent' = sent /\ dropped' = dropped
      BY <2>4 DEF Written
    <3> QED BY <1>1, <2>1, <2>2, <2>4, <3>1 DEF TxInv
  <2> QED BY <2>3, <2>4
<1>3. CASE n # frame.left
  <2>1. pending' = [frame EXCEPT !.left = @ - n] /\ due' = FALSE
        /\ sent' = sent /\ dropped' = dropped
    BY <1>3 DEF Written
  <2>2. frame.left - n \in 1 .. Chunks
    BY <1>1, <1>3, MenuAssumption
  <2>3. pending' \in Frames /\ pending'.mode = frame.mode /\ pending'.ecu = frame.ecu
    BY <1>1, <2>1, <2>2 DEF Frames
  <2>4. quiet' \in 0 .. Stall + 1
    BY MenuAssumption DEF Written, TxInv
  <2>5. pending' # None
    BY <2>3, FramesAreNotNone
  <2> QED BY <2>1, <2>3, <2>4, <2>5 DEF TxInv
<1> QED BY <1>2, <1>3

LEMMA SendGood ==
  ASSUME TxInv, ValueInv, NEW mode \in {"APPLY", "COMMIT"},
         send_ecu_config(mode)
  PROVE  /\ pending = None
         /\ \E n \in 0 .. 1 :
              Written([mode |-> mode, ecu |-> ecu, left |-> Chunks], n)
         /\ [mode |-> mode, ecu |-> ecu, left |-> Chunks] \in Frames
BY MenuAssumption DEF send_ecu_config, ValueInv, Frames

-----------------------------------------------------------------------------
(* The handlers, screen by screen.                                         *)

LEMMA ClampedInRange ==
  ASSUME NEW v \in Int PROVE Clamped(v) \in 0 .. Top
BY MenuAssumption DEF Clamped

LEMMA EditGood ==
  ASSUME ValueInv, TxInv, LoadedStep, ecu' \in 0 .. Top,
         settings_dirty' = (settings_dirty \/ ecu' # ecu),
         ecu_cfg_dirty' = (ecu_cfg_dirty \/ ecu' # ecu),
         UNCHANGED <<stored, tx, unsaved>>
  PROVE  ValueInv' /\ TxInv' /\ (pending = None => pending'.mode # "COMMIT")
<1>1. settings_dirty' \in BOOLEAN /\ ecu_cfg_dirty' \in BOOLEAN
  OBVIOUS
<1>2. UNCHANGED <<stored, pending, quiet, due, sent, dropped, unsaved>>
  BY DEF tx
<1>3. pending = None => pending'.mode # "COMMIT"
  BY <1>2 DEF None
<1>4. CASE ecu' = ecu
  <2>1. (settings_dirty' <=> settings_dirty) /\ (ecu_cfg_dirty' <=> ecu_cfg_dirty)
    BY <1>4
  <2>2. CleanIsStored'
    BY <1>2, <1>4, <2>1 DEF ValueInv, CleanIsStored
  <2>3. CleanWasSent' /\ CommitIsCurrent'
    BY <1>2, <1>4, <2>1
    DEF TxInv, CleanWasSent, TmapClean, CommitIsCurrent, LoadedStep
  <2> QED BY <1>1, <1>2, <1>3, <2>2, <2>3 DEF ValueInv, TxInv, LoadedStep
<1>5. CASE ecu' # ecu
  <2>1. settings_dirty' /\ ecu_cfg_dirty'
    BY <1>5
  <2>2. CleanIsStored' /\ CleanWasSent' /\ CommitIsCurrent'
    BY <2>1 DEF CleanIsStored, CleanWasSent, TmapClean, CommitIsCurrent
  <2> QED BY <1>1, <1>2, <1>3, <2>2 DEF ValueInv, TxInv, LoadedStep
<1> QED BY <1>4, <1>5

LEMMA MapGood ==
  ASSUME CursorInv, ValueInv, TxInv, LoadedStep, NEW event \in Events, MapEditor(event)
  PROVE  Good(event)
<1>1. /\ "map" \in screen /\ UNCHANGED <<menu_index, armed, flog_index>>
      /\ screen' \in {screen, screen \ {"map"}}
      /\ settings_dirty' = (settings_dirty \/ ecu' # ecu)
      /\ ecu_cfg_dirty' = (ecu_cfg_dirty \/ ecu' # ecu)
      /\ UNCHANGED <<stored, tx, unsaved>>
  BY DEF MapEditor, cursor
<1>2. ecu' \in 0 .. Top
  <2>1. ecu + Delta(event) \in Int
    BY MenuAssumption DEF ValueInv, Delta
  <2> QED BY <2>1, ClampedInRange DEF MapEditor, ValueInv
<1>3. screen = {"menu", "map"} /\ armed = {}
  BY <1>1 DEF CursorInv, OneScreen
<1>4. screen' \in {{"menu", "map"}, {"menu"}}
  BY <1>1, <1>3
<1>5. CursorInv'
  BY <1>1, <1>3, <1>4 DEF CursorInv, OneScreen
<1>6. ValueInv' /\ TxInv' /\ (pending = None => pending'.mode # "COMMIT")
  BY <1>1, <1>2, EditGood
<1> QED BY <1>3, <1>4, <1>5, <1>6 DEF Good, Kept

LEMMA MainGood ==
  ASSUME CursorInv, ValueInv, TxInv, LoadedStep, NEW event \in Events, MainScreen(event)
  PROVE  Good(event)
<1>1. /\ screen = {} /\ screen' \in {{"menu"}, {"info"}, {}}
      /\ UNCHANGED <<menu_index, flog_index>> /\ KeepsValues
      /\ armed' \in {{}, armed}
  BY DEF MainScreen
<1>2. armed = {}
  BY <1>1 DEF CursorInv, OneScreen
<1>3. CursorInv'
  BY <1>1, <1>2 DEF CursorInv, OneScreen
<1> QED BY <1>1, <1>2, <1>3, ValuesKept DEF Good, Kept

LEMMA GraphGood ==
  ASSUME CursorInv, ValueInv, TxInv, LoadedStep, NEW event \in Events, NEW down,
         Graph(event, down)
  PROVE  Good(event)
<1>1. /\ "graph" \in screen /\ screen' \in {screen, screen \ {"graph"}}
      /\ UNCHANGED <<menu_index, armed, flog_index>> /\ KeepsValues
  BY DEF Graph, cursor
<1>2. screen = {"graph"} /\ armed = {}
  BY <1>1 DEF CursorInv, OneScreen
<1>3. screen' \in {{"graph"}, {}}
  BY <1>1, <1>2
<1>4. CursorInv'
  BY <1>1, <1>2, <1>3 DEF CursorInv, OneScreen
<1> QED BY <1>1, <1>2, <1>3, <1>4, ValuesKept DEF Good, Kept

LEMMA FlogGood ==
  ASSUME CursorInv, ValueInv, TxInv, LoadedStep, NEW event \in Events,
         NEW total \in 0 .. Entries, Flog(event, total)
  PROVE  Good(event)
<1>1. "flog" \in screen /\ UNCHANGED <<menu_index, armed>> /\ KeepsValues
  BY DEF Flog, cursor
<1>2. screen = {"flog"} /\ armed = {}
  BY <1>1 DEF CursorInv, OneScreen
<1>3. screen' \in {{"flog"}, {}, {"graph"}, {"info"}}
  <2>1. screen \ {"flog"} = {}
    BY <1>2
  <2>2. screen' \in {screen, screen \ {"flog"}, (screen \ {"flog"}) \cup {"graph"},
                     (screen \ {"flog"}) \cup {"info"}}
    BY DEF Flog
  <2> QED BY <1>2, <2>1, <2>2
<1>4. flog_index' \in 0 .. Entries
  <2>1. flog_index \in 0 .. Entries
    BY DEF CursorInv
  <2> QED BY <2>1, MenuAssumption DEF Flog
<1>5. CursorInv'
  BY <1>1, <1>2, <1>3, <1>4 DEF CursorInv, OneScreen
<1> QED BY <1>1, <1>2, <1>5, ValuesKept DEF Good, Kept

LEMMA InfoGood ==
  ASSUME CursorInv, ValueInv, TxInv, LoadedStep, NEW event \in Events, Info(event)
  PROVE  Good(event)
<1>1. "info" \in screen /\ UNCHANGED <<menu_index, armed>> /\ KeepsValues
  BY DEF Info, cursor
<1>2. screen = {"info"} /\ armed = {}
  BY <1>1 DEF CursorInv, OneScreen
<1>3. screen' \in {{"info"}, {}, {"flog"}}
  <2>1. screen \ {"info"} = {}
    BY <1>2
  <2>2. screen' \in {screen \cup {}, (screen \ {"info"}) \cup {},
                     (screen \ {"info"}) \cup {"flog"}}
    BY DEF Info
  <2> QED BY <1>2, <2>1, <2>2
<1>4. flog_index' \in 0 .. Entries
  BY MenuAssumption DEF Info, CursorInv
<1>5. CursorInv'
  BY <1>1, <1>2, <1>3, <1>4 DEF CursorInv, OneScreen
<1> QED BY <1>1, <1>2, <1>5, ValuesKept DEF Good, Kept

-----------------------------------------------------------------------------
(* The menu's.                                                             *)

LEMMA OpenMapGood ==
  ASSUME CursorInv, ValueInv, TxInv, LoadedStep, NEW event \in Events, OpenMap(event)
  PROVE  Good(event)
<1>1. /\ screen = {"menu"} /\ screen' = screen \cup {"map"} /\ Item = "TMAP"
      /\ UNCHANGED <<menu_index, armed, flog_index>> /\ KeepsValues
  BY DEF OpenMap, Menu, cursor
<1>2. armed = {}
  BY <1>1 DEF CursorInv, OneScreen
<1>3. screen' = {"menu", "map"}
  BY <1>1
<1>4. CursorInv'
  BY <1>1, <1>2, <1>3 DEF CursorInv, OneScreen
<1> QED BY <1>1, <1>2, <1>3, <1>4, ValuesKept DEF Good, Kept

LEMMA ArmGood ==
  ASSUME CursorInv, ValueInv, TxInv, LoadedStep, NEW event \in Events, Arm(event)
  PROVE  Good(event)
<1>1. /\ screen = {"menu"} /\ Item \in {"ECMT", "RSET", "TCLR"} \ armed
      /\ armed' = armed \cup {Item} /\ event = "OK"
      /\ UNCHANGED <<screen, menu_index, flog_index>> /\ KeepsValues
  BY DEF Arm, Menu, KeepsValues
<1>2. armed = {}
  <2>1. armed # {} => Item \in armed
    BY DEF CursorInv, OneScreen
  <2> QED BY <1>1, <2>1
<1>3. armed' = {Item} /\ Item' = Item
  BY <1>1, <1>2 DEF Item
<1>4. CursorInv'
  BY <1>1, <1>3 DEF CursorInv, OneScreen
<1> QED BY <1>1, <1>2, <1>4, ValuesKept DEF Good, Kept

LEMMA CommitGood ==
  ASSUME CursorInv, ValueInv, TxInv, LoadedStep, NEW event \in Events, Commit(event)
  PROVE  Good(event)
<1>1. /\ screen = {"menu"} /\ "ECMT" \in armed /\ armed' = armed \ {"ECMT"}
      /\ event = "OK" /\ Item = "ECMT"
      /\ UNCHANGED <<screen, menu_index, flog_index, ecu, stored,
                     settings_dirty, unsaved>>
  BY DEF Commit, Menu
<1>2. CursorInv'
  <2>1. armed' = {}
    BY <1>1 DEF CursorInv, OneScreen
  <2> QED BY <1>1, <2>1 DEF CursorInv, OneScreen
<1>3. CASE Busy /\ UNCHANGED ecu_cfg_dirty
  <2>1. /\ UNCHANGED <<ecu_cfg_dirty, pending, quiet, due, sent, dropped>>
        /\ pending # None
    BY <1>3 DEF Busy, tx
  <2>2. ValueInv'
    BY <1>1, <2>1 DEF ValueInv, CleanIsStored
  <2>3. TxInv'
    BY <1>1, <2>1
    DEF TxInv, CleanWasSent, TmapClean, CommitIsCurrent, LoadedStep
  <2> QED BY <1>1, <1>2, <2>1, <2>2, <2>3 DEF Good, Kept
<1>4. CASE send_ecu_config("COMMIT") /\ ecu_cfg_dirty' = FALSE
  <2> DEFINE frame == [mode |-> "COMMIT", ecu |-> ecu, left |-> Chunks]
  <2>1. PICK n \in 0 .. 1 : Written(frame, n)
    BY <1>4, SendGood
  <2>2. frame \in Frames /\ pending = None
    BY <1>4, SendGood
  <2>3. frame.mode = "COMMIT" /\ frame.ecu = ecu
    OBVIOUS
  <2> HIDE DEF frame
  <2>4. /\ pending' = None \/ pending' \in Frames
        /\ quiet' \in 0 .. Stall + 1 /\ due' \in BOOLEAN /\ sent' \in 0 .. Top
        /\ dropped' \in BOOLEAN
        /\ pending' # None => pending'.mode = "COMMIT" /\ pending'.ecu = ecu
        /\ pending' = None => sent' = ecu
    BY <2>1, <2>2, <2>3, WrittenGood
  <2>5. ecu_cfg_dirty' \in BOOLEAN
    BY <1>4
  <2>6. ValueInv'
    BY <1>1, <2>5 DEF ValueInv, CleanIsStored
  <2>7. pending' = None => pending'.mode # "COMMIT"
    BY DEF None
  <2>8. CleanWasSent' /\ CommitIsCurrent'
    BY <1>1, <2>4, <2>7 DEF CleanWasSent, TmapClean, CommitIsCurrent
  <2>9. TxInv'
    BY <2>4, <2>8 DEF TxInv, LoadedStep
  <2>10. Kept(event)
    BY <1>1, <2>4, <2>7 DEF Kept
  <2> QED BY <1>2, <2>6, <2>9, <2>10 DEF Good
<1> QED BY <1>3, <1>4 DEF Commit

LEMMA ResetGood ==
  ASSUME CursorInv, ValueInv, TxInv, LoadedStep, NEW event \in Events,
         NEW ok \in BOOLEAN,
         Reset(event, ok)
  PROVE  Good(event)
<1>1. /\ screen = {"menu"} /\ "RSET" \in armed /\ armed' = armed \ {"RSET"}
      /\ event = "OK" /\ Item = "RSET" /\ ecu' = 0 /\ ecu_cfg_dirty' = TRUE
      /\ UNCHANGED <<screen, menu_index, flog_index>>
      /\ UNCHANGED <<pending, quiet, due, sent, dropped>>
  BY DEF Reset, Menu, tx
<1>2. armed = {"RSET"} /\ armed' = {}
  BY <1>1 DEF CursorInv, OneScreen
<1>3. CursorInv'
  BY <1>1, <1>2 DEF CursorInv, OneScreen
<1>4. ValueInv'
  <2>1. ecu_cfg_dirty' \in BOOLEAN /\ 0 \in 0 .. Top
    BY <1>1, MenuAssumption
  <2>2. CASE ok
    <3>1. stored' = ecu'
      BY <2>2 DEF Reset, save_settings
    <3>2. settings_dirty' \in BOOLEAN /\ unsaved' \in BOOLEAN
      BY DEF Reset, save_settings
    <3> QED BY <1>1, <2>1, <3>1, <3>2 DEF ValueInv, CleanIsStored
  <2>3. CASE ~ok
    <3>1. settings_dirty' <=> settings_dirty
      BY <2>3 DEF Reset, save_settings
    <3>2. unsaved' <=> (unsaved \/ ~settings_dirty)
      BY <2>3 DEF Reset
    <3>3. stored' = stored
      BY <2>3 DEF Reset, save_settings
    <3>4. settings_dirty' \in BOOLEAN /\ unsaved' \in BOOLEAN
      BY DEF Reset, save_settings
    <3>5. CleanIsStored'
      BY <3>1, <3>2 DEF CleanIsStored
    <3> QED BY <1>1, <2>1, <3>3, <3>4, <3>5 DEF ValueInv
  <2> QED BY <2>2, <2>3
<1>5. CleanWasSent' /\ CommitIsCurrent'
  BY <1>1 DEF CleanWasSent, TmapClean, CommitIsCurrent
<1>6. TxInv'
  BY <1>1, <1>5 DEF TxInv, LoadedStep
<1>7. Kept(event)
  BY <1>1, <1>2 DEF Kept, None
<1> QED BY <1>3, <1>4, <1>6, <1>7 DEF Good

LEMMA ClearTripGood ==
  ASSUME CursorInv, ValueInv, TxInv, LoadedStep, NEW event \in Events,
         NEW ok \in BOOLEAN,
         ClearTrip(event, ok)
  PROVE  Good(event)
<1>1. /\ screen = {"menu"} /\ "TCLR" \in armed /\ armed' = armed \ {"TCLR"}
      /\ event = "OK" /\ Item = "TCLR"
      /\ UNCHANGED <<screen, menu_index, flog_index, ecu>>
      /\ UNCHANGED <<pending, quiet, due, sent, dropped>>
      /\ UNCHANGED <<settings_dirty, ecu_cfg_dirty>>
  BY DEF ClearTrip, Menu, tx, dirty
<1>2. armed = {"TCLR"} /\ armed' = {}
  BY <1>1 DEF CursorInv, OneScreen
<1>3. CursorInv'
  BY <1>1, <1>2 DEF CursorInv, OneScreen
<1>4. unsaved' \in BOOLEAN /\ stored' \in {stored, ecu}
      /\ (CleanIsStored => CleanIsStored')
  <2>1. CASE ok
    BY <1>1, <2>1 DEF ClearTrip, CleanIsStored
  <2>2. CASE ~ok
    <3>1. unsaved' <=> unsaved
      BY <2>2 DEF ClearTrip
    <3> QED BY <1>1, <2>2, <3>1 DEF ClearTrip, CleanIsStored
  <2> QED BY <2>1, <2>2
<1>5. ValueInv'
  BY <1>1, <1>4 DEF ValueInv
<1>6. TxInv'
  BY <1>1 DEF TxInv, CleanWasSent, TmapClean, CommitIsCurrent, LoadedStep
<1>7. Kept(event)
  BY <1>1, <1>2 DEF Kept, None
<1> QED BY <1>3, <1>5, <1>6, <1>7 DEF Good

LEMMA LeaveGood ==
  ASSUME CursorInv, ValueInv, TxInv, LoadedStep, NEW event \in Events,
         NEW ok \in BOOLEAN,
         Leave(event, ok)
  PROVE  Good(event)
<1>1. /\ screen = {"menu"} /\ screen' = {} /\ armed' = {} /\ event = "OK"
      /\ UNCHANGED <<menu_index, flog_index, ecu, ecu_cfg_dirty>>
  BY DEF Leave, Menu
<1>2. CursorInv'
  BY <1>1 DEF CursorInv, OneScreen
<1>3. ValueInv'
  <2>1. CASE ~settings_dirty
    <3>1. UNCHANGED <<stored, settings_dirty, unsaved>>
      BY <2>1 DEF Leave
    <3> QED BY <1>1, <3>1 DEF ValueInv, CleanIsStored
  <2>2. CASE settings_dirty
    <3>1. save_settings(ok) /\ unsaved' = (unsaved /\ ~ok)
      BY <2>2 DEF Leave
    <3>2. settings_dirty' \in BOOLEAN /\ unsaved' \in BOOLEAN
      BY <3>1 DEF save_settings
    <3>3. CASE ok
      <4>1. stored' = ecu'
        BY <3>1, <3>3 DEF save_settings
      <4> QED BY <1>1, <3>2, <4>1 DEF ValueInv, CleanIsStored
    <3>4. CASE ~ok
      <4>1. settings_dirty'
        BY <2>2, <3>1, <3>4 DEF save_settings
      <4>2. stored' = stored
        BY <3>1, <3>4 DEF save_settings
      <4> QED BY <1>1, <3>2, <4>1, <4>2 DEF ValueInv, CleanIsStored
    <3> QED BY <3>3, <3>4
  <2> QED BY <2>1, <2>2
<1>4. TxInv' /\ (pending = None => pending'.mode # "COMMIT")
  <2>1. CASE UNCHANGED tx
    <3>1. UNCHANGED <<pending, quiet, due, sent, dropped>>
      BY <2>1 DEF tx
    <3> QED BY <1>1, <3>1
            DEF TxInv, CleanWasSent, TmapClean, CommitIsCurrent, LoadedStep, None
  <2>2. CASE ecu_cfg_dirty /\ send_ecu_config("APPLY")
    <3> DEFINE frame == [mode |-> "APPLY", ecu |-> ecu, left |-> Chunks]
    <3>1. PICK n \in 0 .. 1 : Written(frame, n)
      BY <2>2, SendGood
    <3>2. frame \in Frames
      BY <2>2, SendGood
    <3>3. frame.mode = "APPLY"
      OBVIOUS
    <3> HIDE DEF frame
    <3>4. /\ pending' = None \/ pending' \in Frames
          /\ quiet' \in 0 .. Stall + 1 /\ due' \in BOOLEAN /\ sent' \in 0 .. Top
          /\ dropped' \in BOOLEAN
          /\ pending' # None => pending'.mode = "APPLY"
      BY <3>1, <3>2, <3>3, WrittenGood
    <3>5. ecu_cfg_dirty'
      BY <1>1, <2>2
    <3>6. CleanWasSent' /\ CommitIsCurrent'
      BY <3>5 DEF CleanWasSent, TmapClean, CommitIsCurrent
    <3>7. pending'.mode # "COMMIT"
      BY <3>4 DEF None
    <3> QED BY <3>4, <3>6, <3>7 DEF TxInv, LoadedStep
  <2> QED BY <2>1, <2>2 DEF Leave, Busy
<1>5. Kept(event)
  BY <1>1, <1>4 DEF Kept
<1> QED BY <1>2, <1>3, <1>4, <1>5 DEF Good

LEMMA MoveGood ==
  ASSUME CursorInv, ValueInv, TxInv, LoadedStep, NEW event \in Events, Move(event)
  PROVE  Good(event)
<1>1. /\ screen = {"menu"} /\ armed' = {}
      /\ menu_index' = (menu_index + Delta(event)) % Len(Items)
      /\ UNCHANGED <<screen, flog_index>> /\ KeepsValues
  BY DEF Move, Menu
<1>2. menu_index' \in 0 .. 6
  <2>1. Len(Items) = 7
    BY DEF Items
  <2>2. menu_index + Delta(event) \in Int
    BY DEF CursorInv, Delta
  <2> QED BY <1>1, <2>1, <2>2
<1>3. CursorInv'
  BY <1>1, <1>2 DEF CursorInv, OneScreen
<1> QED BY <1>1, <1>3, ValuesKept DEF Good, Kept

LEMMA AdjustGood ==
  ASSUME CursorInv, ValueInv, TxInv, LoadedStep, NEW event \in Events, Adjust(event)
  PROVE  Good(event)
<1>1. /\ screen = {"menu"} /\ UNCHANGED <<screen, menu_index, flog_index>>
      /\ event \in {"LEFT", "RIGHT"}
  BY DEF Adjust, Menu
<1>2. CASE Item \notin {"LOCAL", "ECU"}
  <2>1. armed' = {} /\ KeepsValues
    BY <1>2 DEF Adjust
  <2>2. CursorInv'
    BY <1>1, <2>1 DEF CursorInv, OneScreen
  <2> QED BY <1>1, <2>1, <2>2, ValuesKept DEF Good, Kept
<1>3. CASE Item \in {"LOCAL", "ECU"}
  <2>1. adjust_setting(Delta(event)) /\ UNCHANGED <<armed, stored, tx, unsaved>>
    BY <1>3 DEF Adjust
  <2>2. armed = {}
    BY <1>3 DEF CursorInv, OneScreen
  <2>3. CursorInv'
    BY <1>1, <2>1, <2>2 DEF CursorInv, OneScreen
  <2>4. ValueInv' /\ TxInv' /\ (pending = None => pending'.mode # "COMMIT")
    <3>1. CASE Item = "ECU"
      <4>1. ecu' \in 0 .. Top
        <5>1. ecu + Delta(event) \in Int
          BY MenuAssumption DEF ValueInv, Delta
        <5> QED BY <2>1, <3>1, <5>1, ClampedInRange DEF adjust_setting
      <4> QED BY <2>1, <3>1, <4>1, EditGood DEF adjust_setting
    <3>2. CASE Item = "LOCAL"
      <4>1. /\ UNCHANGED <<ecu, ecu_cfg_dirty, stored, unsaved>>
            /\ settings_dirty' \in {settings_dirty, TRUE}
            /\ UNCHANGED <<pending, quiet, due, sent, dropped>>
        BY <2>1, <3>2 DEF adjust_setting, tx
      <4>2. settings_dirty' \in BOOLEAN /\ (settings_dirty => settings_dirty')
        BY <4>1 DEF ValueInv
      <4>3. ValueInv'
        BY <4>1, <4>2 DEF ValueInv, CleanIsStored
      <4>4. TxInv' /\ (pending = None => pending'.mode # "COMMIT")
        BY <4>1
        DEF TxInv, CleanWasSent, TmapClean, CommitIsCurrent, LoadedStep, None
      <4> QED BY <4>3, <4>4
    <3> QED BY <1>3, <3>1, <3>2
  <2> QED BY <1>1, <2>2, <2>3, <2>4 DEF Good, Kept
<1> QED BY <1>2, <1>3

-----------------------------------------------------------------------------
(* The buttons.  Of the events only OK needs an edge: it was up before.    *)

LEMMA FirstIsOne ==
  ASSUME NEW edges \in SUBSET (1 .. 5), edges # {}
  PROVE  First(edges) \in edges
<1>1. \E i \in edges : \A j \in edges : i <= j
  <2>1. CASE 1 \in edges
    BY <2>1
  <2>2. CASE 1 \notin edges /\ 2 \in edges
    BY <2>2
  <2>3. CASE 1 \notin edges /\ 2 \notin edges /\ 3 \in edges
    BY <2>3
  <2>4. CASE 1 \notin edges /\ 2 \notin edges /\ 3 \notin edges /\ 4 \in edges
    BY <2>4
  <2>5. CASE /\ 1 \notin edges /\ 2 \notin edges /\ 3 \notin edges
             /\ 4 \notin edges
    <3>1. \A i \in edges : i = 5
      BY <2>5
    <3>2. PICK i \in edges : TRUE
      OBVIOUS
    <3> QED BY <3>1, <3>2
  <2> QED BY <2>1, <2>2, <2>3, <2>4, <2>5
<1> QED BY <1>1 DEF First

LEMMA OKNeedsAnEdge ==
  ASSUME NEW down, EventOf(down) = "OK"
  PROVE  "OK" \in down \ prev
<1>1. /\ Edges(down) # {}
      /\ EventOf(down) = Buttons[First(Edges(down))]
  BY DEF EventOf
<1>2. First(Edges(down)) \in Edges(down)
  BY <1>1, FirstIsOne DEF Edges
<1> QED BY <1>1, <1>2 DEF Edges

LEMMA HandsGood ==
  ASSUME HandsInv, NEW down \in Hands, NEW event \in Events,
         get_button_event(down, event), Kept(event),
         screen = {} /\ event = "OK" => "menu" \in screen'
  PROVE  HandsInv'
<1>1. prev' \in Hands /\ ok_long_fired' \in BOOLEAN /\ opened' \in BOOLEAN
  BY DEF get_button_event
<1>2. since' \in 0 .. Debounce
  BY MenuAssumption DEF get_button_event, HandsInv
<1>3. held' \in NotHeld .. Long
  BY MenuAssumption DEF get_button_event, HandsInv, NotHeld
<1>4. opened' => "OK" \in prev' /\ "menu" \in screen'
  <2> SUFFICES ASSUME opened' PROVE "OK" \in prev' /\ "menu" \in screen'
    OBVIOUS
  <2>1. /\ "OK" \in down /\ prev' = down
        /\ opened \/ (event = "OK" /\ screen = {})
    BY DEF get_button_event
  <2>2. CASE opened
    <3>1. "OK" \in prev /\ "menu" \in screen
      BY <2>2 DEF HandsInv
    <3>2. event # "OK"
      <4>1. event = EventOf(down)
        BY DEF get_button_event
      <4> QED BY <3>1, <4>1, OKNeedsAnEdge
    <3> QED BY <2>1, <3>1, <3>2 DEF Kept
  <2> QED BY <2>1, <2>2
<1> QED BY <1>1, <1>2, <1>3, <1>4 DEF HandsInv

LEMMA NoEventGood ==
  ASSUME CursorInv, ValueInv, TxInv, LoadedStep, NEW event \in Events, NoEvent
  PROVE  Good(event)
<1>1. UNCHANGED <<screen, menu_index, armed, flog_index>> /\ KeepsValues
  BY DEF NoEvent, cursor
<1>2. CursorInv'
  BY <1>1 DEF CursorInv, OneScreen, Item
<1> QED BY <1>1, <1>2, ValuesKept DEF Good, Kept

LEMMA HandleGood ==
  ASSUME IInv, NEW down \in Hands, handle_buttons(down)
  PROVE  /\ IInv'
         /\ pending = None /\ pending'.mode = "COMMIT" => pending'.ecu = shown
<1>1. PICK event \in Events, ok \in BOOLEAN :
        /\ get_button_event(down, event)
        /\ \/ event = "none" /\ NoEvent
           \/ /\ event # "none"
              /\ \/ MapEditor(event) \/ MainScreen(event) \/ Graph(event, down)
                 \/ (\E total \in 0 .. Entries : Flog(event, total))
                 \/ Info(event) \/ OpenMap(event) \/ Arm(event) \/ Commit(event)
                 \/ Reset(event, ok) \/ ClearTrip(event, ok) \/ Leave(event, ok)
                 \/ Move(event) \/ Adjust(event)
                 \/ Menu /\ event = "OK_LONG" /\ NoEvent
        /\ shown' = IF "ECMT" \notin armed' THEN 0
                    ELSE IF "ECMT" \in armed THEN shown ELSE ecu
        /\ LoadedStep
  BY DEF handle_buttons, LoadedStep
<1>2. Good(event)
  BY <1>1, MapGood, MainGood, GraphGood, FlogGood, InfoGood, OpenMapGood,
     ArmGood, CommitGood, ResetGood, ClearTripGood, LeaveGood, MoveGood,
     AdjustGood, NoEventGood
  DEF IInv
<1>3. screen = {} /\ event = "OK" => "menu" \in screen'
  <2> SUFFICES ASSUME screen = {}, event = "OK" PROVE "menu" \in screen'
    OBVIOUS
  <2>1. MainScreen(event)
    BY <1>1 DEF MapEditor, Graph, Flog, Info, OpenMap, Arm, Commit, Reset,
                ClearTrip, Leave, Move, Adjust, Menu
  <2> QED BY <2>1 DEF MainScreen
<1>4. HandsInv'
  BY <1>1, <1>2, <1>3, HandsGood DEF IInv, Good
<1>5. ShownInv'
  <2>1. ecu \in 0 .. Top /\ 0 \in 0 .. Top /\ shown \in 0 .. Top
    BY MenuAssumption DEF IInv, ValueInv, ShownInv
  <2>2. CASE "ECMT" \notin armed'
    BY <1>1, <2>1, <2>2 DEF ShownInv
  <2>3. CASE "ECMT" \in armed' /\ "ECMT" \in armed
    <3>1. ecu' = ecu /\ shown' = shown
      BY <1>1, <1>2, <2>3 DEF Good, Kept
    <3> QED BY <2>1, <2>3, <3>1 DEF IInv, ShownInv
  <2>4. CASE "ECMT" \in armed' /\ "ECMT" \notin armed
    <3>1. Arm(event)
      BY <1>1, <2>4
      DEF MapEditor, MainScreen, Graph, Flog, Info, OpenMap, Commit, Reset,
          ClearTrip, Leave, Move, Adjust, NoEvent, KeepsValues, cursor
    <3>2. ecu' = ecu /\ shown' = ecu
      BY <1>1, <2>4, <3>1 DEF Arm
    <3> QED BY <2>1, <3>2 DEF ShownInv
  <2> QED BY <2>2, <2>3, <2>4
<1>6. pending = None /\ pending'.mode = "COMMIT" => pending'.ecu = shown
  BY <1>2 DEF Good, Kept, IInv, ShownInv
<1> QED BY <1>2, <1>4, <1>5, <1>6 DEF Good, IInv

-----------------------------------------------------------------------------
(* The rest of the loop.                                                   *)

LEMMA OthersKept ==
  ASSUME IInv, UNCHANGED Others
  PROVE  HandsInv' /\ CursorInv' /\ ShownInv' /\ ecu' = ecu
         /\ settings_dirty' = settings_dirty /\ ecu_cfg_dirty' = ecu_cfg_dirty
         /\ loaded' = loaded
<1>1. UNCHANGED <<prev, since, held, ok_long_fired, screen, menu_index, armed,
                  flog_index, ecu, settings_dirty, ecu_cfg_dirty, shown,
                  loaded, opened>>
  BY DEF Others, hands, cursor, dirty
<1>2. HandsInv'
  BY <1>1 DEF IInv, HandsInv
<1>3. CursorInv' /\ ShownInv'
  BY <1>1 DEF IInv, CursorInv, ShownInv, OneScreen, Item
<1> QED BY <1>1, <1>2, <1>3

LEMMA FlushGood == IInv /\ flush_pending_config_tx => IInv'
<1> SUFFICES ASSUME IInv, flush_pending_config_tx PROVE IInv'
  OBVIOUS
<1>1. UNCHANGED Others /\ UNCHANGED <<stored, unsaved>> /\ pending # None
  BY DEF flush_pending_config_tx
<1>2. /\ HandsInv' /\ CursorInv' /\ ShownInv' /\ ecu' = ecu
      /\ settings_dirty' = settings_dirty /\ ecu_cfg_dirty' = ecu_cfg_dirty
      /\ loaded' = loaded
  BY <1>1, OthersKept
<1>3. ValueInv'
  BY <1>1, <1>2 DEF IInv, ValueInv, CleanIsStored
<1>4. pending \in Frames
  BY <1>1 DEF IInv, TxInv
<1>5. TxInv'
  <2>1. ASSUME pending' = None, quiet' = 0, due' = TRUE, sent' = sent,
               dropped' = (dropped \/ pending.mode = "COMMIT")
        PROVE  TxInv'
    <3>1. /\ quiet' \in 0 .. Stall + 1 /\ due' \in BOOLEAN
          /\ dropped' \in BOOLEAN
      BY <2>1, MenuAssumption
    <3>2. CleanWasSent'
      BY <1>2, <2>1 DEF IInv, TxInv, CleanWasSent, TmapClean
    <3>3. CommitIsCurrent'
      BY <2>1 DEF CommitIsCurrent, None
    <3> QED BY <1>2, <2>1, <3>1, <3>2, <3>3 DEF IInv, TxInv
  <2>2. ASSUME NEW n \in 0 .. 1, Written(pending, n)
        PROVE  TxInv'
    <3>1. /\ pending' = None \/ pending' \in Frames
          /\ quiet' \in 0 .. Stall + 1 /\ due' \in BOOLEAN /\ sent' \in 0 .. Top
          /\ dropped' \in BOOLEAN
          /\ pending' # None
             => pending'.mode = pending.mode /\ pending'.ecu = pending.ecu
          /\ pending.mode # "COMMIT" \/ pending' # None
             => sent' = sent /\ dropped' = dropped
          /\ pending.mode = "COMMIT" /\ pending' = None => sent' = pending.ecu
      BY <1>4, <2>2, WrittenGood DEF IInv
    <3>2. pending' = None => pending'.mode # "COMMIT"
      BY DEF None
    <3>3. CommitIsCurrent'
      BY <1>2, <3>1, <3>2 DEF IInv, TxInv, CommitIsCurrent
    <3>4. CleanWasSent'
      BY <1>2, <3>1 DEF IInv, TxInv, CleanWasSent, TmapClean, CommitIsCurrent
    <3> QED BY <1>2, <3>1, <3>3, <3>4 DEF IInv, TxInv
  <2> QED BY <2>1, <2>2 DEF flush_pending_config_tx
<1> QED BY <1>2, <1>3, <1>5 DEF IInv

LEMMA PeriodicGood == IInv /\ PeriodicSave => IInv'
<1> SUFFICES ASSUME IInv, PeriodicSave PROVE IInv'
  OBVIOUS
<1>1. /\ UNCHANGED Others /\ stored' = ecu /\ unsaved' = FALSE
      /\ UNCHANGED <<pending, quiet, due, sent, dropped>>
  BY DEF PeriodicSave, tx
<1>2. /\ HandsInv' /\ CursorInv' /\ ShownInv' /\ ecu' = ecu
      /\ settings_dirty' = settings_dirty /\ ecu_cfg_dirty' = ecu_cfg_dirty
      /\ loaded' = loaded
  BY <1>1, OthersKept
<1>3. unsaved' \in BOOLEAN
  BY <1>1
<1>4. ValueInv'
  BY <1>1, <1>2, <1>3 DEF IInv, ValueInv, CleanIsStored
<1>5. TxInv'
  BY <1>1, <1>2 DEF IInv, TxInv, CleanWasSent, TmapClean, CommitIsCurrent
<1> QED BY <1>2, <1>4, <1>5 DEF IInv

LEMMA TickGood == IInv /\ Tick => IInv'
<1> SUFFICES ASSUME IInv, Tick PROVE IInv'
  OBVIOUS
<1>1. UNCHANGED <<prev, ok_long_fired, screen, menu_index, armed, flog_index,
                  ecu, stored, settings_dirty, ecu_cfg_dirty, pending, sent,
                  dropped, shown, loaded, unsaved, opened>>
  BY DEF Tick, cursor, dirty
<1>2. since' \in 0 .. Debounce
  BY MenuAssumption DEF Tick, Count, IInv, HandsInv
<1>3. held' \in NotHeld .. Long
  BY MenuAssumption DEF Tick, Count, IInv, HandsInv, NotHeld
<1>4. quiet' \in 0 .. Stall + 1
  BY MenuAssumption DEF Tick, Count, IInv, TxInv
<1>5. due' \in BOOLEAN
  BY DEF Tick
<1>6. HandsInv'
  BY <1>1, <1>2, <1>3 DEF IInv, HandsInv
<1>7. CursorInv' /\ ShownInv'
  BY <1>1 DEF IInv, CursorInv, ShownInv, OneScreen, Item
<1>8. ValueInv'
  BY <1>1 DEF IInv, ValueInv, CleanIsStored
<1>9. TxInv'
  BY <1>1, <1>4, <1>5
  DEF IInv, TxInv, CleanWasSent, TmapClean, CommitIsCurrent
<1> QED BY <1>6, <1>7, <1>8, <1>9 DEF IInv

LEMMA InitGood == Init => IInv
<1> SUFFICES ASSUME Init PROVE IInv
  OBVIOUS
<1>1. HandsInv
  <2>1. ok_long_fired \in BOOLEAN /\ opened \in BOOLEAN /\ ~opened
    BY DEF Init
  <2>2. prev \in Hands /\ since \in 0 .. Debounce /\ held \in NotHeld .. Long
    BY MenuAssumption DEF Init, NotHeld
  <2> QED BY <2>1, <2>2 DEF HandsInv
<1>2. CursorInv
  BY MenuAssumption DEF Init, CursorInv, OneScreen
<1>3. ValueInv
  <2>1. settings_dirty \in BOOLEAN /\ ecu_cfg_dirty \in BOOLEAN
        /\ unsaved \in BOOLEAN
    BY DEF Init
  <2> QED BY <2>1 DEF Init, ValueInv, CleanIsStored
<1>4. TxInv
  <2>1. due \in BOOLEAN /\ dropped \in BOOLEAN /\ loaded \in BOOLEAN
    BY DEF Init
  <2>2. CleanWasSent /\ CommitIsCurrent
    BY DEF Init, CleanWasSent, CommitIsCurrent, None
  <2> QED BY <2>1, <2>2, MenuAssumption DEF Init, TxInv
<1>5. ShownInv
  BY MenuAssumption DEF Init, ShownInv
<1> QED BY <1>1, <1>2, <1>3, <1>4, <1>5 DEF IInv

LEMMA PowerCycleGood == IInv /\ PowerCycle => IInv'
<1> SUFFICES ASSUME IInv, PowerCycle PROVE IInv'
  OBVIOUS
<1>1. HandsInv'
  <2>1. ok_long_fired' \in BOOLEAN /\ opened' \in BOOLEAN /\ ~opened'
    BY DEF PowerCycle
  <2>2. prev' \in Hands /\ since' \in 0 .. Debounce /\ held' \in NotHeld .. Long
    BY MenuAssumption DEF PowerCycle, NotHeld
  <2> QED BY <2>1, <2>2 DEF HandsInv
<1>2. CursorInv'
  BY MenuAssumption DEF PowerCycle, CursorInv, OneScreen
<1>3. ValueInv'
  <2>1. /\ settings_dirty' \in BOOLEAN /\ ecu_cfg_dirty' \in BOOLEAN
        /\ unsaved' \in BOOLEAN /\ ecu' = stored /\ stored' = stored
    BY DEF PowerCycle
  <2> QED BY <2>1 DEF IInv, ValueInv, CleanIsStored
<1>4. TxInv'
  <2>1. /\ due' \in BOOLEAN /\ dropped' \in BOOLEAN /\ loaded' \in BOOLEAN
        /\ pending' = None /\ quiet' = 0 /\ sent' = sent
    BY DEF PowerCycle
  <2>2. CleanWasSent' /\ CommitIsCurrent'
    BY DEF PowerCycle, CleanWasSent, CommitIsCurrent, None
  <2> QED BY <2>1, <2>2, MenuAssumption DEF IInv, TxInv
<1>5. ShownInv'
  BY MenuAssumption DEF PowerCycle, ShownInv
<1> QED BY <1>1, <1>2, <1>3, <1>4, <1>5 DEF IInv

LEMMA StepGood == IInv /\ [Next]_vars => IInv'
<1>1. IInv /\ UNCHANGED vars => IInv'
  <2> SUFFICES ASSUME IInv, UNCHANGED vars PROVE IInv'
    OBVIOUS
  <2>1. /\ UNCHANGED Others
        /\ UNCHANGED <<stored, unsaved, pending, quiet, due, sent, dropped>>
    BY DEF vars, Others, tx
  <2>2. /\ HandsInv' /\ CursorInv' /\ ShownInv' /\ ecu' = ecu
        /\ settings_dirty' = settings_dirty /\ ecu_cfg_dirty' = ecu_cfg_dirty
        /\ loaded' = loaded
    BY <2>1, OthersKept
  <2>3. ValueInv'
    BY <2>1, <2>2 DEF IInv, ValueInv, CleanIsStored
  <2>4. TxInv'
    BY <2>1, <2>2 DEF IInv, TxInv, CleanWasSent, TmapClean, CommitIsCurrent
  <2> QED BY <2>2, <2>3, <2>4 DEF IInv
<1> QED BY <1>1, HandleGood, FlushGood, PeriodicGood, TickGood, PowerCycleGood
        DEF Next

LEMMA Invariant == Spec => []IInv
BY InitGood, StepGood, PTL DEF Spec

-----------------------------------------------------------------------------
(* Every variable has its type.                                            *)
THEOREM TypeCorrect == Spec => []TypeOK
<1>1. IInv => TypeOK
  <2> SUFFICES ASSUME IInv PROVE TypeOK
    OBVIOUS
  <2>1. screen \subseteq Screens
    BY DEF IInv, CursorInv, OneScreen, Screens
  <2>2. Len(Items) - 1 = 6
    BY DEF Items
  <2>3. None \in [mode : {"none", "APPLY", "COMMIT"}, ecu : 0 .. Top,
                  left : 0 .. Chunks]
    BY MenuAssumption DEF None
  <2>4. Frames \subseteq [mode : {"none", "APPLY", "COMMIT"}, ecu : 0 .. Top,
                          left : 0 .. Chunks]
    BY MenuAssumption DEF Frames
  <2> QED BY <2>1, <2>2, <2>3, <2>4
          DEF IInv, TypeOK, HandsInv, CursorInv, ValueInv, TxInv, ShownInv
<1> QED BY <1>1, Invariant, PTL

(* One screen shows, and only the item at the cursor is armed.             *)
THEOREM OneScreenAtATime == Spec => []OneScreen
<1>1. IInv => OneScreen
  BY DEF IInv, CursorInv
<1> QED BY <1>1, Invariant, PTL

(* ECU values edited since the boot and called clean were sent by a COMMIT *)
(* of just these, are being sent, or were given up in this run.            *)
THEOREM CleanValuesWereSent == Spec => []CleanWasSent
<1>1. IInv => CleanWasSent
  BY DEF IInv, TxInv
<1> QED BY <1>1, Invariant, PTL

(* Clean settings are in the file.                                         *)
THEOREM CleanSettingsAreStored == Spec => []CleanIsStored
<1>1. IInv => CleanIsStored
  BY DEF IInv, ValueInv
<1> QED BY <1>1, Invariant, PTL

(* A COMMIT carries what was armed.                                        *)
THEOREM CommitsAsShown == Spec => CommitAsShown
<1>1. IInv /\ [Next]_vars
      => [pending = None /\ pending'.mode = "COMMIT"
          => pending'.ecu = shown]_vars
  <2> SUFFICES ASSUME IInv, Next, pending = None, pending'.mode = "COMMIT"
               PROVE  pending'.ecu = shown
    OBVIOUS
  <2>1. CASE \E down \in Hands : handle_buttons(down)
    BY <2>1, HandleGood
  <2>2. CASE flush_pending_config_tx
    BY <2>2 DEF flush_pending_config_tx
  <2>3. CASE PeriodicSave \/ Tick
    <3>1. pending' = pending
      BY <2>3 DEF PeriodicSave, Tick, tx
    <3> QED BY <3>1 DEF None
  <2>4. CASE PowerCycle
    <3>1. pending' = None
      BY <2>4 DEF PowerCycle
    <3> QED BY <3>1 DEF None
  <2> QED BY <2>1, <2>2, <2>3, <2>4 DEF Next
<1> QED BY <1>1, Invariant, PTL DEF Spec, CommitAsShown

(* The press of OK that opens the menu never opens the info screen too.    *)
THEOREM PressesOpenOne == Spec => PressOpensOne
<1>1. IInv => (screen = {} => ~opened)
  BY DEF IInv, HandsInv
<1>2. (screen = {} => ~opened)
      => [screen = {} /\ screen' = {"info"} => ~opened]_vars
  OBVIOUS
<1> QED BY <1>1, <1>2, Invariant, PTL DEF PressOpensOne

-----------------------------------------------------------------------------
(* What TxEnds rests on.  A frame in the sender has so many chunks still   *)
(* to write, and each may take the link so many ticks.                     *)
Patience == pending.left * (Stall + 2) + (Stall + 1 - quiet)

TxRunsOut ==
  [][pending # None =>
       \/ pending' = None
       \/ /\ pending'.mode = pending.mode /\ pending'.ecu = pending.ecu
          /\ Patience' \in 0 .. Patience
          /\ Tick => Patience' < Patience \/ quiet > Stall]_vars

LEMMA PatienceIsNat ==
  ASSUME IInv, pending # None
  PROVE  /\ pending \in Frames /\ quiet \in 0 .. Stall + 1 /\ Stall \in Nat
         /\ pending.left * (Stall + 2) \in Nat /\ Patience \in Nat
<1>1. pending \in Frames /\ quiet \in 0 .. Stall + 1 /\ Stall \in Nat
  BY MenuAssumption DEF IInv, TxInv
<1>2. pending.left \in Nat /\ Stall + 2 \in Nat
  BY <1>1, MenuAssumption DEF Frames
<1>3. \A m, n \in Nat : m * n \in Nat
  OBVIOUS
<1> QED BY <1>1, <1>2, <1>3 DEF Patience

(* A handler that finds the sender busy leaves it alone.                   *)
LEMMA BusyIsKept ==
  ASSUME NEW down \in Hands, handle_buttons(down), pending # None
  PROVE  UNCHANGED <<pending, quiet>>
<1>1. PICK event \in Events, ok \in BOOLEAN :
         \/ MapEditor(event) \/ MainScreen(event) \/ Graph(event, down)
         \/ (\E total \in 0 .. Entries : Flog(event, total))
         \/ Info(event) \/ OpenMap(event) \/ Arm(event) \/ Commit(event)
         \/ Reset(event, ok) \/ ClearTrip(event, ok) \/ Leave(event, ok)
         \/ Move(event) \/ Adjust(event) \/ NoEvent
  BY DEF handle_buttons
<1> USE DEF KeepsValues, tx
<1>2. CASE MapEditor(event) \/ MainScreen(event) \/ Graph(event, down)
           \/ Info(event) \/ OpenMap(event) \/ NoEvent
  BY <1>2 DEF MapEditor, MainScreen, Graph, Info, OpenMap, NoEvent
<1>3. CASE \E total \in 0 .. Entries : Flog(event, total)
  BY <1>3 DEF Flog
<1>4. CASE Arm(event) \/ Reset(event, ok) \/ ClearTrip(event, ok) \/ Move(event)
           \/ Adjust(event)
  BY <1>4 DEF Arm, Reset, ClearTrip, Move, Adjust
<1>5. CASE Commit(event) \/ Leave(event, ok)
  BY <1>5 DEF Commit, Leave, send_ecu_config, Busy
<1> QED BY <1>1, <1>2, <1>3, <1>4, <1>5

LEMMA FlushRunsOut ==
  ASSUME IInv, flush_pending_config_tx, pending' # None
  PROVE  /\ pending'.mode = pending.mode /\ pending'.ecu = pending.ecu
         /\ Patience' \in 0 .. Patience
<1>1. PICK n \in 0 .. 1 : Written(pending, n)
  BY DEF flush_pending_config_tx
<1>2. /\ pending \in Frames /\ quiet \in 0 .. Stall + 1 /\ Stall \in Nat
      /\ pending.left * (Stall + 2) \in Nat
  BY PatienceIsNat DEF flush_pending_config_tx
<1>3. pending' = [pending EXCEPT !.left = @ - n] /\ n # pending.left
      /\ quiet' = IF n > 0 THEN 0 ELSE quiet
  BY <1>1 DEF Written
<1>4. /\ pending'.mode = pending.mode /\ pending'.ecu = pending.ecu
      /\ pending'.left = pending.left - n /\ pending.left \in Nat \ {0}
      /\ pending.left - n \in Nat
  BY <1>2, <1>3, MenuAssumption DEF Frames
<1>5. CASE n = 0
  BY <1>2, <1>3, <1>4, <1>5 DEF Patience
<1>6. CASE n = 1
  <2>1. \A k, m \in Nat : (k - 1) * m = k * m - m
    OBVIOUS
  <2>2. pending'.left * (Stall + 2) = pending.left * (Stall + 2) - (Stall + 2)
    BY <1>2, <1>4, <1>6, <2>1
  <2>3. pending'.left * (Stall + 2) \in Nat
    <3>1. \A k, m \in Nat : k * m \in Nat
      OBVIOUS
    <3> QED BY <1>2, <1>4, <3>1
  <2> QED BY <1>2, <1>3, <1>4, <1>6, <2>2, <2>3 DEF Patience
<1> QED BY <1>4, <1>5, <1>6

(* A configuration frame in the sender stays the frame that it was,        *)
(* whatever the rider edits, and never gets more time: each tick takes     *)
(* some, until it is written, or flush_pending_config_tx gives it up.      *)
THEOREM TxRunsOutOfTime == Spec => TxRunsOut
<1>1. ASSUME IInv, Next, pending # None, pending' # None
      PROVE  /\ pending'.mode = pending.mode /\ pending'.ecu = pending.ecu
             /\ Patience' \in 0 .. Patience
             /\ Tick => Patience' < Patience \/ quiet > Stall
  <2>1. /\ pending \in Frames /\ quiet \in 0 .. Stall + 1 /\ Stall \in Nat
        /\ pending.left * (Stall + 2) \in Nat /\ Patience \in Nat
    BY <1>1, PatienceIsNat
  <2>2. CASE Tick
    <3>1. pending' = pending /\ quiet' = IF quiet >= Stall + 1 THEN quiet ELSE quiet + 1
      BY <1>1, <2>2 DEF Tick, Count
    <3> QED BY <2>1, <3>1 DEF Patience
  <2>3. CASE ~Tick /\ flush_pending_config_tx
    BY <1>1, <2>3, FlushRunsOut
  <2>4. CASE ~Tick /\ ~flush_pending_config_tx
    <3>1. UNCHANGED <<pending, quiet>>
      BY <1>1, <2>4, BusyIsKept DEF Next, PeriodicSave, PowerCycle, tx
    <3> QED BY <2>1, <2>4, <3>1 DEF Patience
  <2> QED BY <2>2, <2>3, <2>4
<1>2. IInv /\ [Next]_vars
      => [pending # None =>
            \/ pending' = None
            \/ /\ pending'.mode = pending.mode /\ pending'.ecu = pending.ecu
               /\ Patience' \in 0 .. Patience
               /\ Tick => Patience' < Patience \/ quiet > Stall]_vars
  BY <1>1
<1> QED BY <1>2, Invariant, PTL DEF Spec, TxRunsOut
=============================================================================
