--------------------------- MODULE ProfileShadow ---------------------------
(***************************************************************************)
(* The double-buffered profile: Core 0 writes the shadow that is not live  *)
(* and raises pending_commit, a tick of Core 1 that finds the scheduler    *)
(* quiescent swaps active_idx.  Core 0's side is in ecu_native.c, Core 1's *)
(* in ipc.c.                                                               *)
(*                                                                         *)
(* Profiles are numbered by the calls of set_profile; profile 0 is the     *)
(* default that ipc_init puts in both shadows.  A tick may be quiescent or *)
(* not: ticks that are not, or are cut short, do nothing here.             *)
(***************************************************************************)
EXTENDS Integers

CONSTANTS Fields,     (* the fields of ecu_profile_t written by set_profile  *)
          MaxCalls    (* calls of set_profile in a behaviour                 *)

ASSUME ProfileAssumption == MaxCalls \in Nat /\ Fields # {}

VARIABLES
  shadow,             (* g_ipc.profile_shadow: who wrote each field          *)
  crc,                (* profile_crc16 of each shadow                        *)
  active_idx, pending_commit,
  spc, target, unset, (* set_profile and set_profile_crc16: point reached,   *)
                      (* shadow being written, fields still to write         *)
  calls,              (* profiles begun                                      *)
  tpc,                (* ipc_profile_apply_commit_if_pending: point reached  *)
  installed,          (* history: the last profile signalled                 *)
  overlapped          (* history: set_profile was called before the profile  *)
                      (* of an earlier call was live                         *)

core0 == <<spc, target, unset, calls, installed, overlapped>>
vars  == <<shadow, crc, active_idx, pending_commit, tpc, core0>>

Shadows  == {0, 1}
Whole(n) == [f \in Fields |-> n]

Init ==
  /\ shadow = [i \in Shadows |-> Whole(0)] /\ crc = [i \in Shadows |-> 0]
  /\ active_idx = 0 /\ pending_commit = FALSE
  /\ spc = "idle" /\ target = 1 /\ unset = {} /\ calls = 0
  /\ tpc = "idle" /\ installed = 0 /\ overlapped = FALSE

-----------------------------------------------------------------------------
(* Core 0: _handle_config_message (or main, at boot) calls set_profile,    *)
(* then set_profile_crc16.                                                 *)

(* The inactive shadow is picked once, by the index of that moment.        *)
PickShadow ==
  /\ spc = "idle" /\ spc' = "write" /\ calls < MaxCalls
  /\ calls' = calls + 1 /\ unset' = Fields
  /\ target' = 1 - active_idx
  /\ overlapped' = (overlapped \/ pending_commit \/ tpc = "swap")
  /\ UNCHANGED <<shadow, crc, active_idx, pending_commit, tpc, installed>>

WriteField ==
  /\ spc = "write"
  /\ \E f \in unset : /\ shadow' = [shadow EXCEPT ![target][f] = calls]
                      /\ unset' = unset \ {f}
  /\ UNCHANGED <<crc, active_idx, pending_commit, spc, target, calls, tpc,
                 installed, overlapped>>

(* Mutant: the commit is signalled while a field is still to be written.   *)
SignalsEarly ==
  /\ spc = "write" /\ pending_commit' = TRUE /\ installed' = calls
  /\ spc' = IF unset = {} THEN "crc0" ELSE "write"
  /\ UNCHANGED <<shadow, crc, active_idx, target, unset, calls, tpc, overlapped>>

SignalCommit ==
  /\ spc = "write" /\ unset = {} /\ spc' = "crc0"
  /\ pending_commit' = TRUE /\ installed' = calls
  /\ UNCHANGED <<shadow, crc, active_idx, target, unset, calls, tpc, overlapped>>

set_profile == PickShadow \/ WriteField \/ SignalCommit

StampCrc(i, from, to) ==
  /\ spc = from /\ spc' = to
  /\ crc' = [crc EXCEPT ![i] = calls]
  /\ UNCHANGED <<shadow, active_idx, pending_commit, target, unset, calls, tpc,
                 installed, overlapped>>

(* Mutant: only the live shadow is stamped.                                *)
StampLive ==
  /\ spc = "crc0" /\ spc' = "idle"
  /\ crc' = [crc EXCEPT ![active_idx] = calls]
  /\ UNCHANGED <<shadow, active_idx, pending_commit, target, unset, calls, tpc,
                 installed, overlapped>>

set_profile_crc16 == StampCrc(0, "crc0", "crc1") \/ StampCrc(1, "crc1", "idle")

-----------------------------------------------------------------------------
(* Core 1: ipc_profile_apply_commit_if_pending, in a quiescent tick.       *)

ExchangePending ==
  /\ tpc = "idle" /\ pending_commit /\ tpc' = "swap"
  /\ pending_commit' = FALSE
  /\ UNCHANGED <<shadow, crc, active_idx, core0>>

(* Mutant: the index is counted up and not flipped.                        *)
CountIndex ==
  /\ tpc = "swap" /\ tpc' = "idle" /\ active_idx' = active_idx + 1
  /\ UNCHANGED <<shadow, crc, pending_commit, core0>>

SwapIndex ==
  /\ tpc = "swap" /\ tpc' = "idle" /\ active_idx' = 1 - active_idx
  /\ UNCHANGED <<shadow, crc, pending_commit, core0>>

commit_if_pending == ExchangePending \/ SwapIndex

Next == set_profile \/ set_profile_crc16 \/ commit_if_pending

Spec == Init /\ [][Next]_vars

-----------------------------------------------------------------------------
TypeOK ==
  /\ shadow \in [Shadows -> [Fields -> 0 .. MaxCalls]]
  /\ crc \in [Shadows -> 0 .. MaxCalls]
  /\ active_idx \in Shadows /\ pending_commit \in BOOLEAN
  /\ spc \in {"idle", "write", "crc0", "crc1"} /\ target \in Shadows
  /\ unset \subseteq Fields /\ calls \in 0 .. MaxCalls
  /\ tpc \in {"idle", "swap"} /\ installed \in 0 .. MaxCalls
  /\ overlapped \in BOOLEAN

(* As long as each set_profile finds the one before it live, the profile   *)
(* in force changes in one step, to the one asked for last ...             *)
Contract == INSTANCE ProfileContract
              WITH live <- shadow[active_idx], wanted <- Whole(installed)
KeepsContract ==
  Contract!PInit /\ [][Contract!PNext \/ overlapped']_(Contract!pvars)

(* ... and once nothing is under way on either core, it is that profile,   *)
(* with its CRC, that get_profile_crc16 reports to the dash.               *)
LastSetIsLive ==
  ~overlapped /\ spc = "idle" /\ tpc = "idle" /\ ~pending_commit =>
    shadow[active_idx] = Whole(installed) /\ crc[active_idx] = installed

-----------------------------------------------------------------------------
(* ARCHITECTURE.md:397: "no half-applied profile must ever reach the       *)
(* scheduler", with profiles pushed at a high rate.  A set_profile called  *)
(* while the one before it is pending writes the shadow that a tick then   *)
(* makes live.                                                             *)
LiveProfileWhole == \E n \in 0 .. MaxCalls : shadow[active_idx] = Whole(n)
============================================================================
