------------------------------ MODULE ConfigV1 -------------------------------
(***************************************************************************)
(* The main loop of the v1 ECU, ecu/main.py: configuration requests,       *)
(* their answers, telemetry and the UART that the last two share.          *)
(*                                                                         *)
(* A profile is kept to two settings: `geo', one of the keys _cfg_flags    *)
(* compares, and `maps', one of the others.  A frame is `Cells' pieces;    *)
(* uart.write takes as many of them as there is room for.  The interrupts  *)
(* (EcuV1) are the environment: they move the safe window at any time.     *)
(***************************************************************************)
EXTENDS Integers, FiniteSets

CONSTANTS Top,           (* the largest legal value of a setting             *)
          Cells,         (* pieces of a frame                                *)
          SeqMod,        (* telemetry_seq counts modulo this (65536)         *)
          Asked,         (* the settings a request may ask for               *)
          MaxRequests,   (* configuration requests in a behaviour            *)
          MaxCount       (* a fault's count saturates here (65535)           *)

ASSUME ConfigV1Assumption ==
  /\ Asked \subseteq [{"geo", "maps"} -> Nat]
  /\ Top \in Nat \ {0} /\ Cells \in Nat \ {0} /\ SeqMod \in Nat \ {0, 1}
  /\ MaxRequests \in Nat /\ MaxCount \in Nat \ {0}

VARIABLES
  active_profile, gear, stored,  (* in RAM, in the interrupt's globals (geo  *)
                                 (* only), on flash                          *)
  pending,                       (* pending_profile, _commit, _flags, _seq   *)
  taken,                         (* history: the profile the answer being    *)
                                 (* sent is about, once it is applied        *)
  config_tx, config_tx_offset,   (* the answer being sent                    *)
  telemetry_seq, telemetry_due,
  telemetry_tx, telemetry_tx_offset, (* the fault count in the frame sent    *)
  fault_count,                   (* the fault log, kept to one fault         *)
  line,                          (* the frame the wire is in the middle of   *)
  window, pc,                    (* what the engine allows; point reached in *)
                                 (* run_loop                                 *)
  requests                       (* bounds the requests                      *)

profiles == <<active_profile, gear, stored>>
request  == <<pending, taken, requests>>
answer   == <<config_tx, config_tx_offset>>
telemetry == <<telemetry_seq, telemetry_tx, telemetry_tx_offset>>
ticks    == <<telemetry_due, fault_count, window>>
vars == <<profiles, request, answer, telemetry, ticks, line, pc>>

None     == [none |-> TRUE]
Keys     == {"geo", "maps"}
Profiles == [Keys -> 1 .. Top]
Keep     == 0                     (* the request does not name the setting   *)
Modes    == {"PREVIEW", "APPLY", "COMMIT"}
Flags    == {"SANITIZED", "RUNTIME_APPLIED", "PERSISTED", "REBOOT_REQUIRED",
             "GEOMETRY_CHANGED", "PARSE_ERROR"}
Windows  == {"commit", "apply", "closed"}
Frames   == {"config", "telemetry"}

Init ==
  /\ active_profile = [k \in Keys |-> 1] /\ gear = 1
  /\ stored = [k \in Keys |-> 1]
  /\ pending = None /\ taken = None /\ config_tx = None /\ config_tx_offset = 0
  /\ telemetry_seq = 0 /\ telemetry_due = FALSE
  /\ telemetry_tx = 0 /\ telemetry_tx_offset = 0 /\ fault_count = 0
  /\ line = "idle" /\ window = "closed" /\ pc = "boot" /\ requests = 0

-----------------------------------------------------------------------------
(* Answers.  A new one replaces what is left of the one being sent.        *)

(* _build_config_response: profile_crc16 identifies the profile in use.    *)
_build_config_response(seq, status, flags, profile) ==
  [seq |-> seq, status |-> status, flags |-> flags, crc |-> profile]

_queue_config_response(seq, status, flags, profile) ==
  /\ config_tx' = _build_config_response(seq, status, flags, profile)
  /\ config_tx_offset' = 0

(* Requests.                                                               *)

sanitize_profile(p) == [k \in Keys |-> IF p[k] > Top THEN Top ELSE p[k]]

(* Mutant: the geometry is not compared.                                   *)
NoGeometry(p) == {}

_cfg_flags(p) ==
  IF p["geo"] # active_profile["geo"] THEN {"GEOMETRY_CHANGED"} ELSE {}

Merged(settings) ==
  [k \in Keys |-> IF settings[k] = Keep THEN active_profile[k] ELSE settings[k]]

(* _parse_cfg_tlvs or _expand_cfg_aliases found no object.                 *)
RejectRequest ==
  /\ _queue_config_response(requests + 1, "REJECTED", {"PARSE_ERROR"},
                            active_profile)
  /\ taken' = None /\ UNCHANGED pending

AcceptRequest(mode, settings) ==
  LET merged    == Merged(settings)
      sanitized == sanitize_profile(merged)
      flags     == _cfg_flags(sanitized)
                   \cup IF sanitized # merged THEN {"SANITIZED"} ELSE {}
      seq       == requests + 1
  IN IF mode = "PREVIEW"
     THEN /\ _queue_config_response(seq, "OK", flags, active_profile)
          /\ UNCHANGED pending
     ELSE /\ pending' = [profile |-> sanitized, commit |-> mode = "COMMIT",
                         flags |-> flags, seq |-> seq]
          /\ _queue_config_response(seq, "DEFERRED", flags, active_profile)

(* sanitize_profile raises at a setting that is no number, or a map that   *)
(* is no list of them, whatever the mode.  Nothing catches that on the way *)
(* out of run_loop: the loop is over, and stop_ecu is not called, so the   *)
(* timers and the interrupts go on without it.                             *)
SanitizeRaises == pc' = "halted" /\ UNCHANGED <<pending, taken, answer>>

(* ConfigIngest.poll hands on every frame that has arrived.                *)
_handle_config_message ==
  /\ pc = "poll" /\ requests < MaxRequests
  /\ requests' = requests + 1
  /\ \/ RejectRequest /\ UNCHANGED pc
     \/ /\ \E mode \in Modes, settings \in Asked : AcceptRequest(mode, settings)
        /\ taken' = None /\ UNCHANGED pc
     \/ SanitizeRaises
  /\ UNCHANGED <<profiles, telemetry, ticks, line>>

PollEnds ==
  /\ pc = "poll" /\ pc' = "apply"
  /\ UNCHANGED <<profiles, request, answer, telemetry, ticks, line>>

-----------------------------------------------------------------------------
(* _apply_pending_config_if_safe.                                          *)

(* Mutant: an APPLY waits for its own band of speeds.                      *)
OwnBand(commit_now) == window = IF commit_now THEN "commit" ELSE "apply"

_safe_apply_window(commit_now) ==
  window = "commit" \/ (window = "apply" /\ ~commit_now)

Safe == pending # None /\ _safe_apply_window(pending.commit)

NotSafe ==
  /\ pc = "apply" /\ ~Safe /\ pc' = "flush"
  /\ UNCHANGED <<profiles, request, answer, telemetry, ticks, line>>

(* Mutant: what it returned is not looked at.                              *)
SaveUnchecked(p, persisted) == stored' \in {stored, p}

(* save_profile_pair: on False the flash holds the old or the new profile  *)
(* (ConfigStore).                                                          *)
SaveProfile(p, persisted) ==
  IF persisted THEN stored' = p ELSE stored' \in {stored, p}

(* _apply_profile_runtime and _refresh_profile_caches, interrupts off.     *)
_apply_profile_runtime(p) == active_profile' = p /\ gear' = p["geo"]

ApplyPending ==
  /\ pc = "apply" /\ Safe /\ pc' = "flush"
  /\ pending' = None /\ taken' = pending.profile
  /\ \E persisted \in IF pending.commit THEN BOOLEAN ELSE {FALSE} :
       LET prof     == pending.profile
           geometry == "GEOMETRY_CHANGED" \in pending.flags
           flags    == pending.flags
                       \cup (IF persisted THEN {"PERSISTED"} ELSE {})
                       \cup {IF geometry THEN "REBOOT_REQUIRED"
                                         ELSE "RUNTIME_APPLIED"}
       IN /\ IF pending.commit THEN SaveProfile(prof, persisted)
                               ELSE UNCHANGED stored
          /\ IF geometry THEN UNCHANGED <<active_profile, gear>>
                         ELSE _apply_profile_runtime(prof)
          /\ _queue_config_response(pending.seq, "OK", flags,
                 IF geometry THEN active_profile ELSE prof)
  /\ UNCHANGED <<telemetry, ticks, line, requests>>

_apply_pending_config_if_safe == NotSafe \/ ApplyPending

-----------------------------------------------------------------------------
(* _telemetry_uart_write: n pieces of frame f go out from `offset' on.     *)

Room(offset) == 0 .. Cells - offset

InOne(f, offset) == offset = 0 \/ line = f

Put(f, offset, n) ==
  line' = IF n = 0 THEN line
          ELSE IF offset + n < Cells /\ InOne(f, offset) THEN f ELSE "idle"

(* Mutant: the answer that went out is not forgotten.                      *)
AnswerAgain == config_tx_offset' = 0 /\ UNCHANGED <<config_tx, taken>>

AnswerSent == config_tx' = None /\ config_tx_offset' = 0 /\ taken' = None

flush_pending_config_tx ==
  /\ pc = "flush" /\ pc' = "telemetry"
  /\ \/ config_tx = None /\ UNCHANGED <<answer, taken, line>>
     \/ /\ config_tx # None
        /\ \E n \in Room(config_tx_offset) :
             /\ Put("config", config_tx_offset, n)
             /\ IF config_tx_offset + n = Cells
                THEN AnswerSent
                ELSE /\ config_tx_offset' = config_tx_offset + n
                     /\ UNCHANGED <<config_tx, taken>>
  /\ UNCHANGED <<profiles, pending, requests, telemetry, ticks>>

(* send_telemetry: the frame has gone out to its end, or is left.          *)
TelemetrySent ==
  /\ telemetry_seq' = (telemetry_seq + 1) % SeqMod
  /\ telemetry_tx' = 0 /\ telemetry_tx_offset' = 0

TelemetryLeft(faults, offset) ==
  /\ telemetry_tx' = IF offset = 0 THEN 0 ELSE faults
  /\ telemetry_tx_offset' = offset
  /\ UNCHANGED telemetry_seq

NothingDue ==
  /\ pc = "telemetry" /\ ~telemetry_due /\ pc' = "poll"
  /\ UNCHANGED <<profiles, request, answer, telemetry, ticks, line>>

(* send_telemetry first goes on with the frame that is left.               *)
flush_pending_telemetry ==
  /\ pc = "telemetry" /\ telemetry_due /\ telemetry_due' = FALSE
  /\ \/ /\ telemetry_tx_offset = 0 /\ pc' = "build"
        /\ UNCHANGED <<telemetry, line>>
     \/ /\ telemetry_tx_offset > 0
        /\ \E n \in Room(telemetry_tx_offset) :
             LET offset == telemetry_tx_offset + n IN
             /\ Put("telemetry", telemetry_tx_offset, n)
             /\ IF offset = Cells
                THEN TelemetrySent /\ pc' = "build"
                ELSE TelemetryLeft(telemetry_tx, offset) /\ pc' = "poll"
  /\ UNCHANGED <<profiles, request, answer, fault_count, window>>

(* build_payload reads the state with interrupts off.                      *)
send_telemetry ==
  /\ pc = "build" /\ pc' = "poll"
  /\ \E n \in Room(0) :
       /\ Put("telemetry", 0, n)
       /\ IF n = Cells THEN TelemetrySent
                     ELSE TelemetryLeft(fault_count, n)
  /\ UNCHANGED <<profiles, request, answer, ticks>>

run_loop ==
  \/ _handle_config_message \/ PollEnds \/ _apply_pending_config_if_safe
  \/ flush_pending_config_tx \/ NothingDue \/ flush_pending_telemetry
  \/ send_telemetry

-----------------------------------------------------------------------------
telemetry_tick ==
  /\ telemetry_due' = TRUE
  /\ UNCHANGED <<profiles, request, answer, telemetry, fault_count, window,
                 line, pc>>

set_fault ==
  /\ fault_count' = IF fault_count = MaxCount THEN MaxCount ELSE fault_count + 1
  /\ UNCHANGED <<profiles, request, answer, telemetry, telemetry_due, window,
                 line, pc>>

EngineMoves ==
  /\ window' \in Windows
  /\ UNCHANGED <<profiles, request, answer, telemetry, telemetry_due,
                 fault_count, line, pc>>

PowerLost ==
  /\ pc' = "boot" /\ pending' = None /\ taken' = None
  /\ config_tx' = None /\ config_tx_offset' = 0
  /\ telemetry_seq' = 0 /\ telemetry_due' = FALSE
  /\ telemetry_tx' = 0 /\ telemetry_tx_offset' = 0 /\ fault_count' = 0
  /\ UNCHANGED <<profiles, requests, line, window>>

(* and apply_gear_profile.                                                 *)
load_boot_config_profile ==
  /\ pc = "boot" /\ pc' = "poll"
  /\ active_profile' = sanitize_profile(stored)
  /\ gear' = sanitize_profile(stored)["geo"]
  /\ UNCHANGED <<stored, request, answer, telemetry, ticks, line>>

Next == run_loop \/ telemetry_tick \/ set_fault \/ EngineMoves
        \/ PowerLost \/ load_boot_config_profile

(* The loop runs, the timer ticks, and the UART sends at its baud rate, so *)
(* there is room for a piece now and then.                                 *)
Fairness ==
  /\ WF_vars(run_loop \/ load_boot_config_profile) /\ SF_vars(telemetry_tick)
  /\ SF_vars(flush_pending_config_tx /\ answer' # answer)
  /\ SF_vars(flush_pending_telemetry /\ telemetry' # telemetry)
  /\ SF_vars(send_telemetry /\ telemetry' # telemetry)

Spec == Init /\ [][Next]_vars
FairSpec == Spec /\ Fairness

-----------------------------------------------------------------------------
Answers == [seq : 1 .. MaxRequests, status : {"OK", "REJECTED", "DEFERRED"},
            flags : SUBSET Flags, crc : Profiles]

TypeOK ==
  /\ active_profile \in Profiles /\ gear \in 1 .. Top /\ stored \in Profiles
  /\ pending = None \/ pending \in [profile : Profiles, commit : BOOLEAN,
                                    flags : SUBSET Flags, seq : 1 .. MaxRequests]
  /\ taken = None \/ taken \in Profiles
  /\ config_tx = None \/ config_tx \in Answers
  /\ config_tx_offset \in 0 .. Cells - 1
  /\ telemetry_seq \in 0 .. SeqMod - 1 /\ telemetry_due \in BOOLEAN
  /\ telemetry_tx \in 0 .. MaxCount /\ telemetry_tx_offset \in 0 .. Cells - 1
  /\ fault_count \in 0 .. MaxCount /\ line \in Frames \cup {"idle"}
  /\ window \in Windows
  /\ pc \in {"boot", "poll", "apply", "flush", "telemetry", "build", "halted"}
  /\ requests \in 0 .. MaxRequests

(* The decoder's geometry and the geometry requests are compared with are  *)
(* one, and change at a boot only: the flags of a request are computed     *)
(* when it arrives, and used when it is applied, other requests later.     *)
GeometryOnlyAtBoot ==
  [][pc # "boot" => gear' = gear /\ active_profile'["geo"] = gear]_vars

(* What an answer says is so, as long as it is being sent: PERSISTED, the  *)
(* flash holds the profile; RUNTIME_APPLIED, it is in use and the CRC is   *)
(* its; DEFERRED, the request still waits.                                 *)
AnswerIsTrue ==
  config_tx # None =>
    /\ "PERSISTED" \in config_tx.flags => stored = taken
    /\ "RUNTIME_APPLIED" \in config_tx.flags =>
         active_profile = taken /\ config_tx.crc = taken
    /\ "REBOOT_REQUIRED" \in config_tx.flags => active_profile # taken
    /\ config_tx.status = "DEFERRED" =>
         pending # None /\ pending.seq = config_tx.seq

(* Once the engine stays in the window, a request that waits is settled    *)
(* and its answer goes out, if no other request ends the loop.             *)
SettlesWhenSafe ==
  <>[](window = "commit" /\ pc # "halted")
    => <>[](pending = None /\ config_tx = None)

(* However answers and telemetry cut into each other, telemetry frames     *)
(* keep going out in one piece, with the faults logged so far, for as long *)
(* as the power and the loop stay up.                                      *)
WholeFrame ==
  /\ telemetry_seq' # telemetry_seq /\ pc \in {"telemetry", "build"}
  /\ InOne("telemetry", telemetry_tx_offset)
  /\ telemetry_tx_offset > 0 => telemetry_tx = fault_count
TelemetryFlows ==
  <>[](pc \notin {"boot", "halted"}) => []<><<WholeFrame>>_vars

(* PROJECT_MANUAL.md:1284: a PREVIEW does no more than "validate/sanitize" *)
(* the settings asked for.  So no request ends the loop.                   *)
LoopGoesOn == pc # "halted"

(* main.py:797: the answer that asks for a reboot says "geometry stored".  *)
GeometryStored ==
  config_tx # None /\ "REBOOT_REQUIRED" \in config_tx.flags =>
    stored["geo"] = taken["geo"]
==============================================================================
