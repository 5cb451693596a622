----------------------------- MODULE ConfigStore -----------------------------
(***************************************************************************)
(* The profile on flash, config_layer.py (v1 and v2 have the same code):   *)
(* save_profile_pair, load_profile_with_recovery and _atomic_write_clean,  *)
(* with power lost between any two operations on files and any operation   *)
(* failing.                                                                *)
(*                                                                         *)
(* A file is missing, corrupt (its CRC does not verify) or holds a         *)
(* profile; profiles are numbered by the calls of save_profile_pair.       *)
(* Opening a file for writing truncates it, and a file that was not        *)
(* written to its end is corrupt.                                          *)
(***************************************************************************)
EXTENDS Integers

CONSTANTS MaxSaves,      (* calls of save_profile_pair                       *)
          MaxFailures    (* file operations that fail                        *)

ASSUME StoreAssumption == MaxSaves \in Nat /\ MaxFailures \in Nat

VARIABLES
  disk,              (* the files                                            *)
  pc, job, clean,    (* the running call: point reached in                   *)
                     (* _atomic_write_clean, who called it, profile written  *)
  running,           (* the profile the program works with                   *)
  asked,             (* history: profiles given to save_profile_pair         *)
  acked,             (* history: the last one it returned True for           *)
  failures,          (* operations failed so far                             *)
  damaged            (* history: the last write of ACTIVE_PATH failed        *)

call == <<pc, job, clean>>
vars == <<disk, call, running, asked, acked, failures, damaged>>

Missing == 0
Corrupt == -1
Paths   == {"active", "backup", "temp"}
Jobs    == {"none", "backup", "active", "recovery"}

(* load_profile_file returns a profile.                                    *)
Valid(path) == disk[path] > 0

(* The path the caller of _atomic_write_clean passed.                      *)
Path == IF job = "backup" THEN "backup" ELSE "active"

Init ==
  /\ disk = [p \in Paths |-> Missing]
  /\ pc = "boot" /\ job = "none" /\ clean = 0 /\ running = 0
  /\ asked = 0 /\ acked = 0 /\ failures = 0 /\ damaged = FALSE

-----------------------------------------------------------------------------
(* load_profile_with_recovery.                                             *)

LoadActive ==
  /\ pc = "boot" /\ Valid("active")
  /\ running' = disk["active"] /\ pc' = "idle"
  /\ UNCHANGED <<disk, job, clean, asked, acked, failures, damaged>>

LoadBackup ==
  /\ pc = "boot" /\ ~Valid("active") /\ Valid("backup")
  /\ running' = disk["backup"]
  /\ pc' = "open" /\ job' = "recovery" /\ clean' = disk["backup"]
  /\ UNCHANGED <<disk, asked, acked, failures, damaged>>

(* Mutant: a backup that does not verify is used.                          *)
LoadUnverified ==
  /\ pc = "boot" /\ ~Valid("active") /\ ~Valid("backup")
  /\ running' = disk["backup"] /\ pc' = "idle"
  /\ UNCHANGED <<disk, job, clean, asked, acked, failures, damaged>>

LoadDefault ==
  /\ pc = "boot" /\ ~Valid("active") /\ ~Valid("backup")
  /\ running' = 0 /\ pc' = "idle"
  /\ UNCHANGED <<disk, job, clean, asked, acked, failures, damaged>>

load_profile_with_recovery == LoadActive \/ LoadBackup \/ LoadDefault

-----------------------------------------------------------------------------
(* save_profile_pair: BACKUP_PATH first, then ACTIVE_PATH.                 *)

SaveBegins ==
  /\ pc = "idle" /\ asked < MaxSaves
  /\ asked' = asked + 1
  /\ pc' = "open" /\ job' = "backup" /\ clean' = asked + 1
  /\ UNCHANGED <<disk, running, acked, failures, damaged>>

(* _atomic_write_clean returned True.                                      *)
Returns(p) ==
  /\ IF job = "backup" THEN pc' = "open" /\ job' = "active"
                       ELSE pc' = "idle" /\ job' = "none"
  /\ acked' = IF job = "active" THEN clean ELSE acked
  /\ damaged' = IF p = "active" THEN FALSE ELSE damaged
  /\ UNCHANGED <<clean, running, asked>>

(* Mutant: the failure of the first write is not looked at.                *)
GoesOn(p) ==
  /\ IF job = "backup" THEN pc' = "open" /\ job' = "active"
                       ELSE pc' = "idle" /\ job' = "none"
  /\ damaged' = (damaged \/ p = "active")
  /\ UNCHANGED <<clean, running, asked, acked>>

(* It returned False: the save ends, a recovery is taken as it is.         *)
GivesUp(p) ==
  /\ pc' = "idle" /\ job' = "none"
  /\ damaged' = (damaged \/ p = "active")
  /\ UNCHANGED <<clean, running, asked, acked>>

-----------------------------------------------------------------------------
(* _atomic_write_clean.                                                    *)

Goto(from, to) == pc = from /\ pc' = to

Kept == UNCHANGED <<job, clean, running, asked, acked, failures, damaged>>

OpenTemp ==
  /\ Goto("open", "write")
  /\ disk' = [disk EXCEPT !["temp"] = Corrupt] /\ Kept

(* Mutant: what is left of the temporary file is renamed unwritten.        *)
WritesNothing == Goto("write", "remove") /\ UNCHANGED disk /\ Kept

WriteTemp ==
  /\ Goto("write", "remove")
  /\ disk' = [disk EXCEPT !["temp"] = clean] /\ Kept

(* An OSError of os.remove is passed over.                                 *)
RemovePath ==
  /\ Goto("remove", "rename")
  /\ disk' = [disk EXCEPT ![Path] = Missing] /\ Kept

RemoveFails ==
  /\ Goto("remove", "rename") /\ failures < MaxFailures
  /\ failures' = failures + 1
  /\ UNCHANGED <<disk, job, clean, running, asked, acked, damaged>>

RenameTemp ==
  /\ pc = "rename"
  /\ disk' = [disk EXCEPT ![Path] = disk["temp"], !["temp"] = Missing]
  /\ Returns(Path) /\ UNCHANGED failures

(* The first exception past the temporary file: write the path directly.   *)
RenameFails ==
  /\ Goto("rename", "direct_open") /\ failures < MaxFailures
  /\ failures' = failures + 1
  /\ UNCHANGED <<disk, job, clean, running, asked, acked, damaged>>

DirectOpen ==
  /\ Goto("direct_open", "direct_write")
  /\ disk' = [disk EXCEPT ![Path] = Corrupt] /\ Kept

DirectWrite ==
  /\ pc = "direct_write"
  /\ disk' = [disk EXCEPT ![Path] = clean]
  /\ Returns(Path) /\ UNCHANGED failures

(* An exception anywhere else: return False.                               *)
WriteFails ==
  /\ pc \in {"open", "write", "direct_open", "direct_write"}
  /\ failures < MaxFailures /\ failures' = failures + 1
  /\ GivesUp(Path) /\ UNCHANGED disk

_atomic_write_clean ==
  \/ OpenTemp \/ WriteTemp \/ RemovePath \/ RemoveFails \/ RenameTemp
  \/ RenameFails \/ DirectOpen \/ DirectWrite \/ WriteFails

-----------------------------------------------------------------------------
PowerLost ==
  /\ pc' = "boot" /\ job' = "none" /\ clean' = 0 /\ running' = 0
  /\ UNCHANGED <<disk, asked, acked, failures, damaged>>

Next == \/ load_profile_with_recovery \/ SaveBegins \/ _atomic_write_clean
        \/ PowerLost

Spec == Init /\ [][Next]_vars

-----------------------------------------------------------------------------
TypeOK ==
  /\ disk \in [Paths -> {Missing, Corrupt} \cup 1 .. MaxSaves]
  /\ pc \in {"boot", "idle", "open", "write", "remove", "rename",
             "direct_open", "direct_write"}
  /\ job \in Jobs /\ clean \in 0 .. MaxSaves
  /\ running \in 0 .. MaxSaves /\ asked \in 0 .. MaxSaves
  /\ acked \in 0 .. asked /\ failures \in 0 .. MaxFailures
  /\ damaged \in BOOLEAN

(* What a boot would find now.                                             *)
Stored == IF Valid("active") THEN disk["active"]
          ELSE IF Valid("backup") THEN disk["backup"]
          ELSE 0

(* Wherever the power is lost and whatever fails, a boot finds the profile *)
(* before the save or the one being saved, never the default or an older   *)
(* one: except from the point where a write of ACTIVE_PATH has failed and  *)
(* the next save takes the only good copy, the backup, as the first to     *)
(* overwrite.                                                              *)
Store == INSTANCE AtomicStore WITH stored <- Stored, asked <- asked
StoreIsAtomic ==
  Store!SInit /\ [][Store!SNext \/ damaged]_(Store!svars)

(* What save_profile_pair returned True for stays on flash, in both files, *)
(* until the next save, through power losses and boots.                    *)
AckedIsDurable ==
  asked = acked /\ acked > 0 => disk["active"] = acked /\ disk["backup"] = acked
============================================================================
