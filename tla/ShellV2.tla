------------------------------- MODULE ShellV2 -------------------------------
(***************************************************************************)
(* The MicroPython shell of the v2 ECU, ecu_v2/micropython/main.py, on top *)
(* of the hand-over of ProfileShadow: boot, configuration requests and     *)
(* power cycles.  Every profile that the shell gives to set_profile is one *)
(* that a request or the flash held, and `value' says which.               *)
(*                                                                         *)
(* A profile is kept to `geo', one of the keys _geometry_changed compares, *)
(* and `maps', one of the others: they are the Fields of ProfileShadow.    *)
(* uart.write is not looked at by the shell and says nothing here.         *)
(***************************************************************************)
EXTENDS ProfileShadow

CONSTANTS Top,        (* the largest legal value of a field                  *)
          Asked       (* the settings a request may ask for                  *)

ASSUME ShellAssumption ==
  /\ Fields = {"geo", "maps"} /\ Top \in Nat \ {0}
  /\ Asked \subseteq [Fields -> Nat]

VARIABLES
  pc,                 (* point reached in main                               *)
  _active_profile, stored,  (* the shell's copy, the flash                   *)
  value,              (* the profile of each call of set_profile             *)
  job,                (* the request being applied: profile, mode, flags     *)
  answer,             (* the last answer; `about' is history, the call of    *)
                      (* set_profile it is about                             *)
  acked, unsure       (* history: the profile last answered PERSISTED; a     *)
                      (* save has failed since                               *)

store == <<stored, acked, unsure>>
shell == <<pc, _active_profile, job, answer>>
svars == <<vars, shell, store, value>>

Profiles == [Fields -> 1 .. Top]
Keep     == 0                     (* the request does not name the field     *)
Default  == [f \in Fields |-> 1]
Modes    == {"PREVIEW", "APPLY", "COMMIT"}
Flags    == {"SANITIZED", "RUNTIME_APPLIED", "PERSISTED", "REBOOT_REQUIRED",
             "GEOMETRY_CHANGED", "PARSE_ERROR"}
NoJob    == [profile |-> Default, mode |-> "PREVIEW", flags |-> {}]
NoAnswer == [status |-> "none", flags |-> {}, crc |-> 0, about |-> 0]

(* What the real-time core reads.                                          *)
Live == [f \in Fields |-> value[shadow[active_idx][f]][f]]

sanitize_profile(p) == [f \in Fields |-> IF p[f] > Top THEN Top ELSE p[f]]

ShellInit ==
  /\ Init
  /\ pc = "boot" /\ _active_profile = Default /\ stored = Default
  /\ value = [n \in 0 .. MaxCalls |-> Default]
  /\ job = NoJob /\ answer = NoAnswer
  /\ acked = Default /\ unsure = FALSE

-----------------------------------------------------------------------------
(* ecu.set_profile and ecu.set_profile_crc16 take the profile p.           *)
Push(p) == PickShadow /\ value' = [value EXCEPT ![calls + 1] = p]

(* Their other steps.                                                      *)
Pushing ==
  /\ WriteField \/ SignalCommit \/ set_profile_crc16
  /\ UNCHANGED <<shell, store, value>>

Boot ==
  /\ pc = "boot" /\ pc' = "pushed"
  /\ _active_profile' = sanitize_profile(stored)
  /\ Push(sanitize_profile(stored))
  /\ UNCHANGED <<job, answer, store>>

MainLoop ==
  /\ pc = "pushed" /\ spc = "idle" /\ pc' = "loop"
  /\ UNCHANGED <<vars, _active_profile, job, answer, store, value>>

-----------------------------------------------------------------------------
(* _send_config_response: get_profile_crc16 reads the live shadow.         *)
Answer(status, flags) ==
  answer' = [status |-> status, flags |-> flags, crc |-> crc[active_idx],
             about |-> calls]

(* Mutant: a field that is not compared.                                   *)
NeverChanged(p) == _active_profile["geo"] > p["geo"]

_geometry_changed(p) == _active_profile["geo"] # p["geo"]

(* Mutant: what save_profile_pair returned is not looked at.               *)
SavesAlways(p, persisted) ==
  /\ stored' \in {stored, p} /\ acked' = p /\ unsure' = FALSE

(* save_profile_pair: on False the flash holds the old or the new profile  *)
(* (ConfigStore).                                                          *)
Saves(p, persisted) ==
  IF persisted THEN stored' = p /\ acked' = p /\ unsure' = FALSE
               ELSE stored' \in {stored, p} /\ unsure' = TRUE /\ UNCHANGED acked

Persist(mode, p, persisted) ==
  IF mode = "COMMIT" THEN Saves(p, persisted)
                     ELSE ~persisted /\ UNCHANGED store

Persisted(persisted) == IF persisted THEN {"PERSISTED"} ELSE {}

Merged(settings) ==
  [f \in Fields |-> IF settings[f] = Keep THEN _active_profile[f]
                                          ELSE settings[f]]

Request(mode, settings) ==
  LET merged == Merged(settings)
      clean  == sanitize_profile(merged)
  IN [profile |-> clean, mode |-> mode,
      flags |-> (IF _geometry_changed(clean) THEN {"GEOMETRY_CHANGED"} ELSE {})
                \cup (IF clean # merged THEN {"SANITIZED"} ELSE {})]

(* No object in the payload.                                               *)
RejectRequest ==
  /\ pc = "loop" /\ Answer("REJECTED", {"PARSE_ERROR"})
  /\ UNCHANGED <<vars, pc, _active_profile, job, store, value>>

PreviewRequest(r) ==
  /\ r.mode = "PREVIEW" /\ Answer("OK", r.flags)
  /\ UNCHANGED <<vars, pc, _active_profile, job, store, value>>

GeometryRequest(r) ==
  /\ r.mode # "PREVIEW" /\ "GEOMETRY_CHANGED" \in r.flags
  /\ \E persisted \in BOOLEAN :
       /\ Persist(r.mode, r.profile, persisted)
       /\ Answer("OK", r.flags \cup Persisted(persisted) \cup {"REBOOT_REQUIRED"})
  /\ UNCHANGED <<vars, pc, _active_profile, job, value>>

RuntimeRequest(r) ==
  /\ r.mode # "PREVIEW" /\ "GEOMETRY_CHANGED" \notin r.flags
  /\ pc' = "apply" /\ job' = r /\ Push(r.profile)
  /\ UNCHANGED <<_active_profile, answer, store>>

Applied ==
  /\ pc = "apply" /\ spc = "idle" /\ pc' = "loop"
  /\ _active_profile' = job.profile
  /\ \E persisted \in BOOLEAN :
       /\ Persist(job.mode, job.profile, persisted)
       /\ Answer("OK", job.flags \cup Persisted(persisted) \cup {"RUNTIME_APPLIED"})
  /\ job' = NoJob /\ UNCHANGED <<vars, value>>

(* sanitize_profile raises at a setting that is no number, or a map that   *)
(* is no list of them.  Nothing catches that on the way out of main: the   *)
(* shell is over, and the core goes on, as ecu.stop is not called.         *)
SanitizeRaises ==
  /\ pc = "loop" /\ pc' = "halted"
  /\ UNCHANGED <<vars, _active_profile, job, answer, store, value>>

_handle_config_message ==
  \/ RejectRequest \/ SanitizeRaises
  \/ /\ pc = "loop"
     /\ \E mode \in Modes, settings \in Asked :
          LET r == Request(mode, settings)
          IN PreviewRequest(r) \/ GeometryRequest(r) \/ RuntimeRequest(r)
  \/ Applied

-----------------------------------------------------------------------------
Tick == commit_if_pending /\ UNCHANGED <<shell, store, value>>

(* The RAM of both cores is lost, and ipc_init runs again.                 *)
PowerLost ==
  /\ shadow' = [i \in Shadows |-> Whole(0)] /\ crc' = [i \in Shadows |-> 0]
  /\ active_idx' = 0 /\ pending_commit' = FALSE
  /\ spc' = "idle" /\ target' = 1 /\ unset' = {} /\ calls' = 0
  /\ tpc' = "idle" /\ installed' = 0 /\ overlapped' = FALSE
  /\ pc' = "boot" /\ _active_profile' = Default /\ job' = NoJob
  /\ answer' = NoAnswer /\ value' = [n \in 0 .. MaxCalls |-> Default]
  /\ UNCHANGED store

ShellNext ==
  \/ Boot \/ Pushing \/ MainLoop \/ _handle_config_message \/ Tick \/ PowerLost

ShellSpec == ShellInit /\ [][ShellNext]_svars

-----------------------------------------------------------------------------
ShellTypeOK ==
  /\ TypeOK /\ pc \in {"boot", "pushed", "loop", "apply", "halted"}
  /\ _active_profile \in Profiles /\ stored \in Profiles /\ acked \in Profiles
  /\ value \in [0 .. MaxCalls -> Profiles] /\ unsure \in BOOLEAN
  /\ job \in [profile : Profiles, mode : Modes, flags : SUBSET Flags]
  /\ answer \in [status : {"none", "OK", "REJECTED"}, flags : SUBSET Flags,
                 crc : 0 .. MaxCalls, about : 0 .. MaxCalls]

(* As long as each profile is live before the next is pushed, what the     *)
(* shell merges requests with is what the core runs, whenever nothing is   *)
(* on its way.                                                             *)
CoreMatchesShell ==
  ~overlapped /\ pc = "loop" /\ tpc = "idle" /\ ~pending_commit =>
    Live = _active_profile

(* The core's geometry changes once in a boot, from ipc_init's default to  *)
(* the stored one: no request reaches it, whatever follows it.             *)
CoreGeometryFixed ==
  [][Live'["geo"] # Live["geo"] =>
       overlapped \/ installed = 1 \/ pc' = "boot"]_svars

(* What was answered PERSISTED last is what the core runs after a boot,    *)
(* whatever was asked for in between, unless a save has failed since.      *)
PersistedRunsNext ==
  pc = "pushed" /\ ~unsure /\ spc = "idle" /\ tpc = "idle" /\ ~pending_commit =>
    Live = acked

(* An answer RUNTIME_APPLIED has the CRC of the profile it is about, live  *)
(* or still to be: a tick may swap the shadows while they are stamped.     *)
AnswerNamesProfile ==
  "RUNTIME_APPLIED" \in answer.flags => answer.crc = answer.about

(* ARCHITECTURE.md:396: each push is applied, or "rejected with a clear    *)
(* status".  So no request ends the shell.                                 *)
ShellGoesOn == pc # "halted"

(* The hand-over keeps ProfileContract between two power cycles.           *)
CoreKeepsContract ==
  [][Contract!PNext \/ overlapped' \/ pc' = "boot"]_(Contract!pvars)
==============================================================================
