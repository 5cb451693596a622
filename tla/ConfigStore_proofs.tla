-------------------------- MODULE ConfigStore_proofs --------------------------
(***************************************************************************)
(* Proofs about the two stores that outlive a loss of power: the profile   *)
(* on the flash (ConfigStore), for any number of saves and failures,       *)
(* and the odometer of the dash (DashStore).                               *)
(***************************************************************************)
EXTENDS ConfigStore, DashStore, TLAPS

-----------------------------------------------------------------------------
(* The profile store.                                                      *)

(* Who runs, and what it writes.                                           *)
Calls ==
  /\ job = "none" <=> pc \in {"boot", "idle"}
  /\ job \in {"backup", "active"} => clean = asked /\ acked < asked
  /\ pc \in {"remove", "rename"} => disk["temp"] = clean
  /\ job = "active" => disk["backup"] = asked
  /\ job = "recovery" =>
       ~Valid("active") /\ Valid("backup") /\ clean = disk["backup"]

(* While the program runs, the active file is the good copy, unless there  *)
(* is none: it is not the backup that has to be kept.                      *)
ActiveIsGood ==
  ~damaged /\ pc # "boot" /\ job \in {"none", "backup"} =>
    Valid("active") \/ ~Valid("backup")

IInv == TypeOK /\ Calls /\ ActiveIsGood /\ AckedIsDurable

LEMMA Versions == \A n \in {Missing, Corrupt} \cup 1 .. MaxSaves :
                    /\ n \in Int
                    /\ n > 0 => n \in 1 .. MaxSaves
                    /\ n > 0 <=> n \notin {Missing, Corrupt}
  BY StoreAssumption DEF Missing, Corrupt

LEMMA InitInv == Init => IInv
  <1> SUFFICES ASSUME Init PROVE IInv
    OBVIOUS
  <1>1. damaged \in BOOLEAN
    BY DEF Init
  <1>2. TypeOK
    BY <1>1, StoreAssumption DEF Init, TypeOK, Paths, Jobs
  <1> QED
    BY <1>2 DEF Init, IInv, Calls, ActiveIsGood, AckedIsDurable, Valid, Paths, Missing

LEMMA LoadInv == IInv /\ load_profile_with_recovery => IInv'
  <1> SUFFICES ASSUME IInv, load_profile_with_recovery PROVE IInv'
    OBVIOUS
  <1> USE DEF IInv, load_profile_with_recovery, LoadActive, LoadBackup, LoadDefault
  <1>1. TypeOK'
    BY Versions, StoreAssumption DEF TypeOK, Valid, Paths, Jobs
  <1>2. Calls' /\ ActiveIsGood' /\ AckedIsDurable'
    BY DEF Calls, ActiveIsGood, AckedIsDurable, Valid, TypeOK
  <1> QED
    BY <1>1, <1>2

LEMMA SaveInv == IInv /\ SaveBegins => IInv'
  <1> SUFFICES ASSUME IInv, SaveBegins PROVE IInv'
    OBVIOUS
  <1> USE DEF IInv, SaveBegins
  <1>1. TypeOK'
    BY StoreAssumption DEF TypeOK, Jobs
  <1>2. Calls' /\ ActiveIsGood' /\ AckedIsDurable'
    BY DEF Calls, ActiveIsGood, AckedIsDurable, Valid, TypeOK
  <1> QED
    BY <1>1, <1>2

LEMMA PowerInv == IInv /\ PowerLost => IInv'
  <1> SUFFICES ASSUME IInv, PowerLost PROVE IInv'
    OBVIOUS
  <1> USE DEF IInv, PowerLost
  <1>1. TypeOK'
    BY StoreAssumption DEF TypeOK, Jobs
  <1>2. Calls' /\ ActiveIsGood' /\ AckedIsDurable'
    BY DEF Calls, ActiveIsGood, AckedIsDurable, Valid, TypeOK
  <1> QED
    BY <1>1, <1>2

(* The steps that leave the two profile files alone, or damage the one     *)
(* being written.                                                          *)
LEMMA TempInv == IInv /\ (OpenTemp \/ WriteTemp) => IInv'
  <1> SUFFICES ASSUME IInv, OpenTemp \/ WriteTemp PROVE IInv'
    OBVIOUS
  <1> USE DEF IInv, OpenTemp, WriteTemp, Goto, Kept
  <1>1. clean \in 1 .. MaxSaves
    BY Versions DEF Calls, TypeOK, Jobs, Valid, Paths
  <1>2. TypeOK'
    BY <1>1 DEF TypeOK
  <1>3. Calls' /\ ActiveIsGood' /\ AckedIsDurable'
    BY DEF Calls, ActiveIsGood, AckedIsDurable, Valid, TypeOK, Paths
  <1> QED
    BY <1>2, <1>3

LEMMA DamageInv == IInv /\ (RemovePath \/ DirectOpen) => IInv'
  <1> SUFFICES ASSUME IInv, RemovePath \/ DirectOpen PROVE IInv'
    OBVIOUS
  <1> USE DEF IInv, RemovePath, DirectOpen, Goto, Kept
  <1>1. TypeOK'
    BY DEF TypeOK
  <1>2. Calls' /\ ActiveIsGood' /\ AckedIsDurable'
    BY DEF Calls, ActiveIsGood, AckedIsDurable, Valid, TypeOK, Paths, Path, Jobs,
           Missing, Corrupt
  <1> QED
    BY <1>1, <1>2

LEMMA FailInv == IInv /\ (RemoveFails \/ RenameFails) => IInv'
  <1> SUFFICES ASSUME IInv, RemoveFails \/ RenameFails PROVE IInv'
    OBVIOUS
  <1> USE DEF IInv, RemoveFails, RenameFails, Goto
  <1>1. TypeOK'
    BY StoreAssumption DEF TypeOK
  <1>2. Calls' /\ ActiveIsGood' /\ AckedIsDurable'
    BY DEF Calls, ActiveIsGood, AckedIsDurable, Valid, TypeOK
  <1> QED
    BY <1>1, <1>2

LEMMA GiveUpInv == IInv /\ WriteFails => IInv'
  <1> SUFFICES ASSUME IInv, WriteFails PROVE IInv'
    OBVIOUS
  <1> USE DEF IInv, WriteFails, GivesUp
  <1>1. damaged' \in BOOLEAN
    BY DEF TypeOK
  <1>2. TypeOK'
    BY <1>1, StoreAssumption DEF TypeOK, Jobs
  <1>3. Calls' /\ ActiveIsGood' /\ AckedIsDurable'
    BY DEF Calls, ActiveIsGood, AckedIsDurable, Valid, TypeOK, Path, Jobs
  <1> QED
    BY <1>2, <1>3

(* The file is complete: what was to be written is in it.                  *)
Completes == /\ pc \in {"rename", "direct_write"} /\ Returns(Path)
             /\ disk' \in [Paths -> {Missing, Corrupt} \cup 1 .. MaxSaves]
             /\ disk'[Path] = clean
             /\ \A p \in {"active", "backup"} \ {Path} : disk'[p] = disk[p]

LEMMA BothComplete ==
  ASSUME IInv, RenameTemp \/ DirectWrite PROVE Completes /\ UNCHANGED failures
  <1> USE DEF IInv, RenameTemp, DirectWrite
  <1>1. clean \in 1 .. MaxSaves
    BY Versions DEF Calls, TypeOK, Jobs, Valid, Paths
  <1>2. Path \in {"active", "backup"}
    BY DEF Path
  <1>3. CASE RenameTemp
    BY <1>1, <1>2, <1>3 DEF Completes, Calls, TypeOK, Paths
  <1>4. CASE DirectWrite
    BY <1>1, <1>2, <1>4 DEF Completes, Calls, TypeOK, Paths
  <1> QED
    BY <1>3, <1>4

LEMMA CompleteInv == IInv /\ (RenameTemp \/ DirectWrite) => IInv'
  <1> SUFFICES ASSUME IInv, RenameTemp \/ DirectWrite PROVE IInv'
    OBVIOUS
  <1>1. Completes /\ UNCHANGED failures
    BY BothComplete
  <1> USE <1>1 DEF IInv, Completes, Returns
  <1>2. clean \in 1 .. MaxSaves
    BY Versions DEF Calls, TypeOK, Jobs, Valid, Paths
  <1>3. damaged' \in BOOLEAN
    BY DEF TypeOK
  <1>4. TypeOK'
    <2>1. acked' \in 0 .. asked' /\ asked' \in 0 .. MaxSaves
      BY <1>2 DEF TypeOK, Calls
    <2>2. pc' \in {"open", "idle"} /\ job' \in {"active", "none"}
      OBVIOUS
    <2> QED
      BY <1>2, <1>3, <2>1, <2>2 DEF TypeOK, Jobs
  <1>5. CASE job = "backup"
    <2>1. pc' = "open" /\ job' = "active" /\ Path = "backup" /\ acked' = acked
      BY <1>5 DEF Path
    <2>2. disk'["backup"] = clean /\ disk'["active"] = disk["active"]
      BY <2>1
    <2>3. clean = asked /\ acked < asked
      BY <1>5 DEF Calls
    <2>4. Calls' /\ ActiveIsGood' /\ AckedIsDurable'
      BY <2>1, <2>2, <2>3 DEF Calls, ActiveIsGood, AckedIsDurable, TypeOK
    <2> QED
      BY <1>4, <2>4
  <1>6. CASE job # "backup"
    <2>1. pc' = "idle" /\ job' = "none" /\ disk'["active"] = clean
          /\ disk'["backup"] = disk["backup"]
      BY <1>6 DEF Path
    <2>2. Calls' /\ ActiveIsGood'
      BY <1>2, <2>1 DEF Calls, ActiveIsGood, Valid
    <2>3. AckedIsDurable'
      BY <1>6, <2>1 DEF Calls, AckedIsDurable, Valid, TypeOK, Jobs
    <2> QED
      BY <1>4, <2>2, <2>3
  <1> QED
    BY <1>4, <1>5, <1>6

(* The inductive invariant.                                                *)
THEOREM Inductive == Spec => []IInv
  <1>1. IInv /\ UNCHANGED vars => IInv'
    BY DEF vars, call, IInv, TypeOK, Calls, ActiveIsGood, AckedIsDurable, Valid
  <1>2. IInv /\ [Next]_vars => IInv'
    BY <1>1, LoadInv, SaveInv, PowerInv, TempInv, DamageInv, FailInv, GiveUpInv,
       CompleteInv DEF Next, _atomic_write_clean
  <1> QED
    BY InitInv, <1>2, PTL DEF Spec

(* Type correctness.                                                       *)
THEOREM TypeCorrect == Spec => []TypeOK
  BY Inductive, PTL DEF IInv

(* A save that returned True is in both files until the next one           *)
(* (config_layer.py:179-183).                                              *)
THEOREM AckedStays == Spec => []AckedIsDurable
  BY Inductive, PTL DEF IInv

(* Wherever the power is lost and whatever operations fail, what a boot    *)
(* would find changes in one step, to the profile being saved              *)
(* (config_layer.py:142-183).                                              *)
THEOREM ImplementsStore == Spec => StoreIsAtomic
  <1> DEFINE Step == Store!SNext \/ damaged \/ UNCHANGED Store!svars
  <1>1. Init => Store!SInit
    BY DEF Init, Store!SInit, Stored, Valid, Paths, Missing
  <1>2. IInv /\ [Next]_vars => Step
    <2> SUFFICES ASSUME IInv, [Next]_vars, ~damaged
                 PROVE Store!SNext \/ UNCHANGED Store!svars
      OBVIOUS
    <2> USE DEF IInv, Store!svars
    <2>1. CASE UNCHANGED <<disk, asked>>
      BY <2>1 DEF Stored, Valid
    <2>2. CASE SaveBegins
      BY <2>2 DEF SaveBegins, Store!SNext, Store!Save, Stored, Valid
    <2>3. CASE OpenTemp \/ WriteTemp
      BY <2>3 DEF OpenTemp, WriteTemp, Kept, Stored, Valid, TypeOK, Paths
    <2>4. CASE RemovePath \/ DirectOpen
      <3>1. pc \notin {"boot", "idle"} /\ job \in {"backup", "active", "recovery"}
        BY <2>4 DEF RemovePath, DirectOpen, Goto, Calls, TypeOK, Jobs
      <3>2. disk'[Path] \in {Missing, Corrupt} /\ UNCHANGED asked
        BY <2>4 DEF RemovePath, DirectOpen, Kept, TypeOK, Paths, Path
      <3>3. \A p \in {"active", "backup"} \ {Path} : disk'[p] = disk[p]
        BY <2>4 DEF RemovePath, DirectOpen, TypeOK, Paths, Path
      <3>4. CASE job = "backup"
        BY <3>1, <3>2, <3>3, <3>4
           DEF ActiveIsGood, Stored, Valid, Path, Missing, Corrupt
      <3>5. CASE job = "active"
        <4>1. Stored' = asked
          BY <3>2, <3>3, <3>5 DEF Calls, Stored, Valid, Path, Missing, Corrupt, TypeOK
        <4> QED
          BY <3>2, <4>1 DEF Store!SNext, Store!Store
      <3>6. CASE job = "recovery"
        BY <3>2, <3>3, <3>6 DEF Calls, Stored, Valid, Path, Missing, Corrupt
      <3> QED
        BY <3>1, <3>4, <3>5, <3>6
    <2>5. CASE RenameTemp \/ DirectWrite
      <3>1. Completes
        BY <2>5, BothComplete
      <3>2. pc \notin {"boot", "idle"} /\ job \in {"backup", "active", "recovery"}
        BY <3>1 DEF Completes, Calls, TypeOK, Jobs
      <3>3. UNCHANGED asked /\ clean > 0
        BY <3>1, <3>2 DEF Completes, Returns, Calls, Valid, TypeOK
      <3>4. CASE job = "backup"
        <4>1. Stored' = Stored \/ Stored' = asked
          BY <3>1, <3>3, <3>4 DEF Completes, Calls, Stored, Valid, Path
        <4> QED
          BY <3>3, <4>1 DEF Store!SNext, Store!Store
      <3>5. CASE job = "active"
        <4>1. Stored' = asked
          BY <3>1, <3>3, <3>5 DEF Completes, Calls, Stored, Valid, Path
        <4> QED
          BY <3>3, <4>1 DEF Store!SNext, Store!Store
      <3>6. CASE job = "recovery"
        BY <3>1, <3>3, <3>6 DEF Completes, Calls, Stored, Valid, Path
      <3> QED
        BY <3>2, <3>4, <3>5, <3>6
    <2> QED
      BY <2>1, <2>2, <2>3, <2>4, <2>5
         DEF Next, load_profile_with_recovery, LoadActive, LoadBackup, LoadDefault,
             _atomic_write_clean, RemoveFails, RenameFails, WriteFails, GivesUp,
             PowerLost, vars, call
  <1>3. IInv /\ [Next]_vars => [Store!SNext \/ damaged]_(Store!svars)
    BY <1>2
  <1> QED
    BY Inductive, <1>1, <1>3, PTL DEF Spec, StoreIsAtomic

-----------------------------------------------------------------------------
(* The dash's odometer (DashStore), for any clamp, interval and number of  *)
(* starts.                                                                 *)
Saving   == {"open", "write", "rename", "remove", "again", "cleanup"}
Starting == {"tidy", "load"}

(* The odometer in RAM never falls behind what is kept, nor does what a    *)
(* running save writes.                                                    *)
CountsAhead ==
  /\ line \notin Starting /\ failed < 2 => kept <= odo
  /\ line \in Saving => saving = odo

(* Once started the dash relies on the file, or has nothing to lose; while *)
(* the file is being replaced the new content is complete beside it, and   *)
(* an operation has failed.                                                *)
FileHolds ==
  /\ line \in {"rename", "remove", "again"} => tmp = saving
  /\ line \in {"remove", "again"} => failed >= 1
  /\ line \notin Starting /\ failed < 2 =>
       \/ kept = 0 \/ (Readable(file) /\ file >= kept)
       \/ line = "again" /\ file = NoFile

OdoInv == OdoTypeOK /\ CountsAhead /\ FileHolds /\ OdometerKept

LEMMA OdoTypes ==
  ASSUME OdoAssumption, OdoTypeOK
  PROVE  /\ odo \in 0 .. Far /\ Far \in Nat \ {0} /\ kept \in 0 .. Far
         /\ file \in (0 .. Far) \cup {-1, -2} /\ tmp \in (0 .. Far) \cup {-1, -2}
         /\ failed \in 0 .. 2 /\ saving \in 0 .. Far
         /\ NoFile = -1 /\ CutShort = -2
         /\ Readable(file) <=> file \in 0 .. Far
         /\ Readable(tmp) <=> tmp \in 0 .. Far
BY DEF OdoAssumption, OdoTypeOK, Files, Contents, NoFile,
       CutShort, Readable

LEMMA RunningIsKept ==
  ASSUME OdoAssumption
  PROVE  OdoTypeOK /\ CountsAhead /\ FileHolds /\ line \notin Starting
           => OdometerKept
<1> SUFFICES ASSUME OdoTypeOK, CountsAhead, FileHolds, line \notin Starting,
                    failed < 2
             PROVE  Found >= kept
  BY DEF OdometerKept
<1>1. CASE kept = 0
  BY <1>1, OdoTypes DEF Found
<1>2. CASE Readable(file) /\ file >= kept
  BY <1>2 DEF Found
<1>3. CASE line = "again" /\ file = NoFile
  <2>1. tmp = saving /\ saving = odo /\ kept <= odo
    BY <1>3 DEF FileHolds, CountsAhead, Saving, Starting
  <2> QED BY <1>3, <2>1, OdoTypes DEF Found
<1> QED BY <1>1, <1>2, <1>3 DEF FileHolds

LEMMA DashInit == ASSUME OdoAssumption, OdoInit PROVE OdoInv
<1>1. OdoTypeOK
  <2>1. /\ file \in Files /\ tmp \in Files /\ saving \in Contents
        /\ kept \in Contents /\ odo \in 0 .. Far /\ wait \in 0 .. Interval
        /\ boots \in 1 .. MaxBoots /\ failed \in 0 .. 2
    BY DEF OdoInit, OdoAssumption, Files, Contents
  <2>2. dirty \in BOOLEAN /\ demo \in BOOLEAN /\ ui \in BOOLEAN /\ fast \in BOOLEAN
    BY DEF OdoInit
  <2> QED BY <2>1, <2>2 DEF OdoTypeOK, OdoInit
<1>2. CountsAhead /\ FileHolds
  BY DEF CountsAhead, FileHolds, Starting, Saving, OdoInit
<1>3. OdometerKept
  BY DEF OdoInit, OdometerKept, Found, Readable, Contents, NoFile,
     OdoAssumption
<1> QED BY <1>1, <1>2, <1>3 DEF OdoInv

(* Starting: what is left of a save is tidied up, and the odometer loaded. *)
LEMMA TidyKeeps ==
  ASSUME OdoAssumption, OdoInv, Tidy PROVE OdoInv'
<1>1. OdoTypeOK' /\ line' = "load" /\ kept' = kept
  BY DEF OdoInv, Tidy, OdoTypeOK, env, both, Fails, Least,
     Files
<1>2. CountsAhead' /\ FileHolds'
  BY <1>1 DEF CountsAhead, FileHolds, Starting, Saving
<1>3. OdometerKept'
  <2>1. failed' < 2 => failed < 2
    BY OdoTypes DEF OdoInv, Tidy, Fails, Least
  <2>2. failed' < 2 => Found' >= Found
    BY OdoTypes DEF OdoInv, Tidy, Found, both, Readable, Contents, OdoAssumption
  <2>3. Found \in Nat /\ Found' \in Nat
    BY <1>1, OdoTypes DEF OdoInv, Found, OdoTypeOK, Readable, Contents, OdoAssumption
  <2> QED BY <1>1, <2>1, <2>2, <2>3, OdoTypes DEF OdoInv, OdometerKept
<1> QED BY <1>1, <1>2, <1>3 DEF OdoInv

(* The steps that end where RunningIsKept applies.                         *)
LEMMA Running ==
  ASSUME OdoAssumption, OdoTypeOK', CountsAhead', FileHolds',
         line' \notin Starting
  PROVE  OdoInv'
<1>1. (OdoTypeOK /\ CountsAhead /\ FileHolds /\ line \notin Starting
          => OdometerKept)'
  BY RunningIsKept, PTL
<1> QED BY <1>1 DEF OdoInv

LEMMA LoadKeeps ==
  ASSUME OdoAssumption, OdoInv, Load PROVE OdoInv'
<1>1. OdoTypeOK'
  <2>1. demo' \in BOOLEAN
    BY DEF Load
  <2>2. odo' \in 0 .. Far /\ kept' \in 0 .. Far
    BY OdoTypes DEF OdoInv, Load
  <2> QED BY <2>1, <2>2 DEF OdoInv, Load, OdoTypeOK, both, Contents
<1>2. CountsAhead'
  BY <1>1, OdoTypes DEF OdoInv, Load, CountsAhead, Starting, Saving
<1>3. FileHolds' 
  BY <1>1, OdoTypes DEF OdoInv, Load, FileHolds, Starting, both, Readable
<1>4. line' \notin Starting
  BY DEF Load, Starting
<1> QED BY <1>1, <1>2, <1>3, <1>4, Running

(* A save: the new content goes into tmp, and then to the file's place.    *)
LEMMA OpenKeeps ==
  ASSUME OdoAssumption, OdoInv, Open PROVE OdoInv'
<1>1. OdoTypeOK'
  BY OdoTypes DEF OdoInv, Open, Disk, NotSaved, Proceeds, Fails,
     Least, OdoTypeOK, both, env, Files
<1>2. CountsAhead' /\ FileHolds' /\ line' \notin Starting
  BY OdoTypes DEF OdoInv, Open, Disk, NotSaved, Proceeds, Fails,
     Least, both, CountsAhead, FileHolds, Starting, Saving, Readable
<1> QED BY <1>1, <1>2, Running

LEMMA WriteKeeps ==
  ASSUME OdoAssumption, OdoInv, Write PROVE OdoInv'
<1>1. OdoTypeOK'
  BY OdoTypes DEF OdoInv, Write, Disk, NotSaved, Proceeds, Fails,
     Least, OdoTypeOK, both, env, Files
<1>2. CountsAhead' /\ FileHolds' /\ line' \notin Starting
  BY OdoTypes DEF OdoInv, Write, Disk, NotSaved, Proceeds, Fails,
     Least, CountsAhead, FileHolds, Starting, Saving, Readable
<1> QED BY <1>1, <1>2, Running

(* save_settings returns True: the file holds the odometer of this moment. *)
LEMMA RenamedKeeps ==
  ASSUME OdoAssumption, OdoInv, line \in {"rename", "again"}, Renamed,
         UNCHANGED <<odo, env, parser, boots>>
  PROVE  OdoInv'
<1>1. tmp = saving /\ saving = odo
  BY DEF OdoInv, FileHolds, CountsAhead, Saving
<1>2. line' \in {"update", "poll"} /\ line' \notin Starting \cup Saving
  BY DEF Renamed, SaveReturns, Starting, Saving
<1>3. OdoTypeOK'
  <2>1. wait' \in 0 .. Interval
    BY OdoTypes DEF OdoInv, Renamed, OdoTypeOK, OdoAssumption
  <2>2. file' \in Files /\ tmp' \in Files /\ saving' \in Contents
        /\ kept' \in Contents /\ failed' \in 0 .. 2 /\ odo' \in 0 .. Far
        /\ boots' \in 1 .. MaxBoots
    BY OdoTypes DEF OdoInv, Renamed, SaveReturns, OdoTypeOK, Files,
       Contents
  <2>3. dirty' \in BOOLEAN /\ demo' \in BOOLEAN /\ ui' \in BOOLEAN /\ fast' \in BOOLEAN
    BY DEF OdoInv, Renamed, OdoTypeOK, env
  <2> QED BY <1>2, <2>1, <2>2, <2>3 DEF OdoTypeOK, OdoInv, Renamed, SaveReturns
<1>4. CountsAhead' /\ FileHolds'
  BY <1>1, <1>2, OdoTypes DEF OdoInv, Renamed, CountsAhead, FileHolds, Saving,
     Readable, Contents
<1> QED BY <1>2, <1>3, <1>4, Running

LEMMA RenameKeeps ==
  ASSUME OdoAssumption, OdoInv, Rename PROVE OdoInv'
<1>1. CASE Renamed
  BY <1>1, RenamedKeeps DEF Rename, Disk
<1>2. CASE Fails /\ Proceeds("remove") /\ UNCHANGED both /\ NotSaved
  <2>1. OdoTypeOK'
    BY <1>2, OdoTypes DEF OdoInv, Rename, Disk, NotSaved, Proceeds,
       Fails, Least, OdoTypeOK, both, env
  <2>2. CountsAhead' /\ FileHolds' /\ line' \notin Starting
    BY <1>2, OdoTypes DEF OdoInv, Rename, Disk, NotSaved, Proceeds,
       Fails, Least, both, CountsAhead, FileHolds, Starting, Saving,
       Readable
  <2> QED BY <2>1, <2>2, Running
<1> QED BY <1>1, <1>2 DEF Rename

LEMMA RemoveKeeps ==
  ASSUME OdoAssumption, OdoInv, Remove PROVE OdoInv'
<1>1. OdoTypeOK'
  BY OdoTypes DEF OdoInv, Remove, Disk, NotSaved, Proceeds, Fails,
     Least, OdoTypeOK, env, Files
<1>2. CountsAhead' /\ FileHolds' /\ line' \notin Starting
  BY OdoTypes DEF OdoInv, Remove, Disk, NotSaved, Proceeds, Fails,
     Least, CountsAhead, FileHolds, Starting, Saving, Readable
<1> QED BY <1>1, <1>2, Running

LEMMA AgainKeeps ==
  ASSUME OdoAssumption, OdoInv, Again PROVE OdoInv'
<1>1. CASE Renamed
  BY <1>1, RenamedKeeps DEF Again, Disk
<1>2. CASE Fails /\ Proceeds("cleanup") /\ UNCHANGED both /\ NotSaved
  <2>1. OdoTypeOK'
    BY <1>2, OdoTypes DEF OdoInv, Again, Disk, NotSaved, Proceeds,
       Fails, Least, OdoTypeOK, both, env
  <2>2. failed' = 2
    BY <1>2, OdoTypes DEF OdoInv, Again, Disk, FileHolds, Fails, Least
  <2>3. CountsAhead' /\ FileHolds' /\ line' \notin Starting
    BY <1>2, <2>2 DEF OdoInv, Again, Disk, Proceeds, CountsAhead, FileHolds,
       Starting, Saving
  <2> QED BY <2>1, <2>3, Running
<1> QED BY <1>1, <1>2 DEF Again

LEMMA CleanupKeeps ==
  ASSUME OdoAssumption, OdoInv, Cleanup PROVE OdoInv'
<1>1. line' \in {"update", "poll"} /\ line' \notin Starting \cup Saving
  BY DEF Cleanup, SaveReturns, Starting, Saving
<1>2. OdoTypeOK'
  BY <1>1, OdoTypes DEF OdoInv, Cleanup, Disk, NotSaved, SaveReturns,
     Fails, Least, OdoTypeOK, env, Files, Contents
<1>3. CountsAhead' /\ FileHolds'
  BY <1>1, OdoTypes DEF OdoInv, Cleanup, Disk, NotSaved, Fails,
     Least, CountsAhead, FileHolds, Starting, Saving, Readable
<1> QED BY <1>1, <1>2, <1>3, Running

(* The loop: only Update moves the odometer, and never back; the odometer  *)
(* is what a save begins with.                                             *)
LEMMA LoopKeeps ==
  ASSUME OdoAssumption, OdoInv, LoopSteps PROVE OdoInv'
<1>1. line \in {"poll", "buttons", "update", "save"}
  BY DEF LoopSteps, Poll, DemoSkips, Buttons, handle_buttons,
     LeaveMenu, ResetMenu, clear_trip, Update,
     maybe_save_persistent_state
<1>2. /\ line' \in {"poll", "buttons", "update", "save", "open"}
      /\ UNCHANGED <<both, boots, kept, failed>>
      /\ odo <= odo' /\ odo' \in 0 .. Far
      /\ IF line' = "open" THEN saving' = odo' ELSE saving' = saving
  <2> USE OdoTypes DEF OdoInv, both
  <2>1. CASE \E st \in {"SEEK_0", "MID"} : Poll(st)
    BY <2>1 DEF Poll
  <2>2. CASE DemoSkips
    BY <2>2 DEF DemoSkips
  <2>3. CASE handle_buttons
    BY <2>3 DEF handle_buttons, Buttons
  <2>4. CASE LeaveMenu \/ ResetMenu \/ clear_trip
    BY <2>4 DEF LeaveMenu, ResetMenu, clear_trip, Buttons,
       save_settings
  <2>5. CASE Update
    BY <2>5 DEF Update, Distances, apply_distance_mm, Least
  <2>6. CASE maybe_save_persistent_state
    BY <2>6 DEF maybe_save_persistent_state, save_settings
  <2> QED BY <2>1, <2>2, <2>3, <2>4, <2>5, <2>6 DEF LoopSteps
<1>3. /\ caller' \in {"none", "menu", "loop"} /\ parser' \in {"SEEK_0", "MID"}
      /\ wait' = wait
  BY DEF OdoInv, OdoTypeOK, LoopSteps, Poll, DemoSkips, Buttons,
     handle_buttons, LeaveMenu, ResetMenu, clear_trip, Update,
     maybe_save_persistent_state, save_settings
<1>4. dirty' \in BOOLEAN /\ demo' \in BOOLEAN /\ ui' \in BOOLEAN /\ fast' \in BOOLEAN
  <2> USE DEF OdoInv, OdoTypeOK, env
  <2>1. CASE \E st \in {"SEEK_0", "MID"} : Poll(st)
    BY <2>1 DEF Poll
  <2>2. CASE DemoSkips
    BY <2>2 DEF DemoSkips
  <2>3. CASE handle_buttons
    BY <2>3 DEF handle_buttons, Buttons
  <2>4. CASE LeaveMenu \/ ResetMenu \/ clear_trip
    BY <2>4 DEF LeaveMenu, ResetMenu, clear_trip, Buttons
  <2>5. CASE Update
    BY <2>5 DEF Update
  <2>6. CASE maybe_save_persistent_state
    BY <2>6 DEF maybe_save_persistent_state
  <2> QED BY <2>1, <2>2, <2>3, <2>4, <2>5, <2>6 DEF LoopSteps
<1>5. OdoTypeOK'
  BY <1>2, <1>3, <1>4 DEF OdoInv, OdoTypeOK, both, Contents
<1>6. CountsAhead' /\ FileHolds' /\ line' \notin Starting
  BY <1>1, <1>2, OdoTypes DEF OdoInv, CountsAhead, FileHolds, Starting, Saving, both,
     Readable
<1> QED BY <1>5, <1>6, Running

(* The steps that leave the files and what is kept as they were.           *)
LEMMA AsideKeeps ==
  ASSUME OdoAssumption, OdoInv,
         EngineMoves \/ Tick \/ UNCHANGED odoVars
  PROVE  OdoInv'
<1>1. /\ UNCHANGED <<file, tmp, line, caller, saving, odo, dirty, demo, ui, parser,
                     boots, kept, failed>>
      /\ wait' \in 0 .. Interval /\ fast' \in BOOLEAN
  <2>1. wait' \in 0 .. Interval
    BY DEF OdoInv, OdoTypeOK, EngineMoves, Tick, odoVars, Least,
       OdoAssumption
  <2>2. fast' \in BOOLEAN
    BY DEF OdoInv, OdoTypeOK, EngineMoves, Tick, odoVars, env
  <2> QED BY <2>1, <2>2 DEF EngineMoves, Tick, Still, odoVars, both,
             env
<1>2. OdoTypeOK'
  BY <1>1 DEF OdoInv, OdoTypeOK
<1> QED BY <1>1, <1>2 DEF OdoInv, CountsAhead, FileHolds, OdometerKept, Found,
           Readable

LEMMA PowerLostKeeps ==
  ASSUME OdoAssumption, OdoInv, DashPowerLost PROVE OdoInv'
<1>1. OdoTypeOK'
  <2>1. /\ saving' \in Contents /\ odo' \in 0 .. Far /\ wait' \in 0 .. Interval
        /\ boots' \in 1 .. MaxBoots
    BY DEF OdoInv, DashPowerLost, OdoTypeOK, OdoAssumption, Contents
  <2>2. dirty' \in BOOLEAN /\ demo' \in BOOLEAN /\ ui' \in BOOLEAN /\ fast' \in BOOLEAN
    BY DEF OdoInv, DashPowerLost, OdoTypeOK
  <2> QED BY <2>1, <2>2 DEF OdoInv, DashPowerLost, OdoTypeOK, both
<1>2. CountsAhead' /\ FileHolds'
  BY DEF DashPowerLost, CountsAhead, FileHolds, Starting, Saving
<1>3. OdometerKept'
  BY DEF OdoInv, DashPowerLost, OdometerKept, Found, Readable, both
<1> QED BY <1>1, <1>2, <1>3 DEF OdoInv

LEMMA OdoStep ==
  ASSUME OdoAssumption, OdoInv, [OdoNext]_odoVars PROVE OdoInv'
<1>1. CASE SaveSteps
  BY <1>1, OpenKeeps, WriteKeeps, RenameKeeps, RemoveKeeps, AgainKeeps, CleanupKeeps
     DEF SaveSteps
<1> QED BY <1>1, TidyKeeps, LoadKeeps, LoopKeeps, AsideKeeps, PowerLostKeeps DEF OdoNext

(* The inductive invariant of the dash's store.                            *)
THEOREM OdoInvariant == OdoSpec => []OdoInv
BY OdoAssumption, DashInit, OdoStep, PTL DEF OdoSpec

(* Every variable of the dash's store keeps its type, whatever the clamp,  *)
(* the interval and the number of starts.                                  *)
THEOREM StoreTypeCorrect == OdoSpec => []OdoTypeOK
<1>1. OdoInv => OdoTypeOK
  BY DEF OdoInv
<1> QED BY <1>1, OdoInvariant, PTL

(* Power lost between any two file operations of save_settings or          *)
(* load_settings, the next start finds an odometer that is not behind what *)
(* was loaded or saved last, unless two operations have failed since.      *)
THEOREM OdometerSurvives == OdoSpec => []OdometerKept
<1>1. OdoInv => OdometerKept
  BY DEF OdoInv
<1> QED BY <1>1, OdoInvariant, PTL
=============================================================================
