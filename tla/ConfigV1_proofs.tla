---------------------------- MODULE ConfigV1_proofs --------------------------
(***************************************************************************)
(* Proofs about ConfigV1, for every number of settings' values, pieces of  *)
(* a frame and requests.                                                   *)
(***************************************************************************)
EXTENDS ConfigV1, Sequences, TLAPS

Pendings == [profile : Profiles, commit : BOOLEAN, flags : SUBSET Flags,
             seq : 1 .. MaxRequests]

(* A record is not None.                                                   *)
LEMMA RecordsAreNotNone ==
  /\ \A p, c, f, s : [profile |-> p, commit |-> c, flags |-> f, seq |-> s] # None
  /\ \A q, t, g, r : [seq |-> q, status |-> t, flags |-> g, crc |-> r] # None
<1>1. \A p, c, f, s : [profile |-> p, commit |-> c, flags |-> f, seq |-> s] # None
  <2>1. \A p, c, f, s : "none" \notin DOMAIN [profile |-> p, commit |-> c,
                                             flags |-> f, seq |-> s]
    OBVIOUS
  <2>2. "none" \in DOMAIN None
    BY DEF None
  <2> QED BY <2>1, <2>2
<1>2. \A q, t, g, r : [seq |-> q, status |-> t, flags |-> g, crc |-> r] # None
  <2>1. \A q, t, g, r : "none" \notin DOMAIN [seq |-> q, status |-> t,
                                             flags |-> g, crc |-> r]
    OBVIOUS
  <2>2. "none" \in DOMAIN None
    BY DEF None
  <2> QED BY <2>1, <2>2
<1> QED BY <1>1, <1>2

LEMMA SanitizedIsLegal ==
  ASSUME NEW p \in [Keys -> Nat \ {0}]
  PROVE  sanitize_profile(p) \in Profiles
BY ConfigV1Assumption DEF sanitize_profile, Profiles

LEMMA MergedIsPositive ==
  ASSUME active_profile \in Profiles, NEW settings \in Asked
  PROVE  Merged(settings) \in [Keys -> Nat \ {0}]
BY ConfigV1Assumption DEF Merged, Profiles, Keep, Keys

-----------------------------------------------------------------------------
(* TypeOK, by the groups of variables that the actions leave alone.        *)
ProfilesOK == active_profile \in Profiles /\ gear \in 1 .. Top /\ stored \in Profiles
RequestOK  == /\ pending = None \/ pending \in Pendings
              /\ taken = None \/ taken \in Profiles
              /\ requests \in 0 .. MaxRequests
AnswerOK   == /\ config_tx = None \/ config_tx \in Answers
              /\ config_tx_offset \in 0 .. Cells - 1
TelemetryOK == /\ telemetry_seq \in 0 .. SeqMod - 1
               /\ telemetry_tx \in 0 .. MaxCount
               /\ telemetry_tx_offset \in 0 .. Cells - 1
TicksOK    == /\ telemetry_due \in BOOLEAN /\ fault_count \in 0 .. MaxCount
              /\ window \in Windows
LoopOK     == /\ line \in Frames \cup {"idle"}
              /\ pc \in {"boot", "poll", "apply", "flush", "telemetry", "build",
                          "halted"}

LEMMA TypeParts ==
  TypeOK <=> ProfilesOK /\ RequestOK /\ AnswerOK /\ TelemetryOK /\ TicksOK /\ LoopOK
BY DEF TypeOK, ProfilesOK, RequestOK, AnswerOK, TelemetryOK, TicksOK, LoopOK, Pendings

LEMMA TypePartsNext ==
  ProfilesOK' /\ RequestOK' /\ AnswerOK' /\ TelemetryOK' /\ TicksOK' /\ LoopOK'
  => TypeOK'
BY DEF TypeOK, ProfilesOK, RequestOK, AnswerOK, TelemetryOK, TicksOK, LoopOK, Pendings

LEMMA InitType == Init => TypeOK
<1> SUFFICES ASSUME Init PROVE TypeOK
  OBVIOUS
<1> USE DEF Init
<1>1. ProfilesOK
  BY ConfigV1Assumption DEF ProfilesOK, Profiles
<1>2. RequestOK /\ AnswerOK
  BY ConfigV1Assumption DEF RequestOK, AnswerOK
<1>3. TelemetryOK
  BY ConfigV1Assumption DEF TelemetryOK
<1>4. TicksOK
  <2>1. telemetry_due \in BOOLEAN
    OBVIOUS
  <2>2. fault_count \in 0 .. MaxCount /\ window \in Windows
    BY ConfigV1Assumption DEF Windows
  <2> QED BY <2>1, <2>2 DEF TicksOK
<1>5. LoopOK
  BY DEF LoopOK
<1> QED BY <1>1, <1>2, <1>3, <1>4, <1>5, TypeParts

LEMMA RejectType ==
  ASSUME TypeOK, requests < MaxRequests, RejectRequest
  PROVE  /\ config_tx' \in Answers /\ config_tx_offset' \in 0 .. Cells - 1
         /\ taken' = None
         /\ pending' = None \/ pending' \in Pendings
BY ConfigV1Assumption
DEF TypeOK, RejectRequest, _queue_config_response, _build_config_response,
    Answers, Flags, Pendings

LEMMA AcceptType ==
  ASSUME TypeOK, requests < MaxRequests, NEW mode \in Modes, NEW settings \in Asked,
         AcceptRequest(mode, settings)
  PROVE  /\ config_tx' \in Answers /\ config_tx_offset' \in 0 .. Cells - 1
         /\ pending' = None \/ pending' \in Pendings
<1> DEFINE sanitized == sanitize_profile(Merged(settings))
           flags == _cfg_flags(sanitized)
                    \cup IF sanitized # Merged(settings) THEN {"SANITIZED"} ELSE {}
<1>1. sanitized \in Profiles
  BY MergedIsPositive, SanitizedIsLegal DEF TypeOK
<1>2. flags \subseteq Flags
  BY DEF Flags, _cfg_flags
<1>3. requests + 1 \in 1 .. MaxRequests /\ active_profile \in Profiles
  BY ConfigV1Assumption DEF TypeOK
<1>4. CASE mode = "PREVIEW"
  <2>1. /\ config_tx' = [seq |-> requests + 1, status |-> "OK", flags |-> flags,
                        crc |-> active_profile]
        /\ config_tx_offset' = 0 /\ pending' = pending
    BY <1>4 DEF AcceptRequest, _queue_config_response, _build_config_response
  <2> HIDE DEF flags
  <2> QED BY <2>1, <1>2, <1>3, ConfigV1Assumption DEF Answers, TypeOK, Pendings
<1>5. CASE mode # "PREVIEW"
  <2>1. /\ config_tx' = [seq |-> requests + 1, status |-> "DEFERRED",
                        flags |-> flags, crc |-> active_profile]
        /\ config_tx_offset' = 0
        /\ pending' = [profile |-> sanitized, commit |-> mode = "COMMIT",
                       flags |-> flags, seq |-> requests + 1]
    BY <1>5 DEF AcceptRequest, _queue_config_response, _build_config_response
  <2>2. (mode = "COMMIT") \in BOOLEAN
    OBVIOUS
  <2> HIDE DEF flags, sanitized
  <2> QED BY <2>1, <2>2, <1>1, <1>2, <1>3, ConfigV1Assumption DEF Answers, Pendings
<1> QED BY <1>4, <1>5

-----------------------------------------------------------------------------
(* The loop's steps.                                                       *)
LEMMA HandleType == TypeOK /\ _handle_config_message => TypeOK'
<1> SUFFICES ASSUME TypeOK, _handle_config_message PROVE TypeOK'
  OBVIOUS
<1>1. /\ requests < MaxRequests /\ requests' = requests + 1
      /\ UNCHANGED <<profiles, telemetry, ticks, line>>
      /\ pc' = pc \/ pc' = "halted"
  BY DEF _handle_config_message, SanitizeRaises
<1>2. requests' \in 0 .. MaxRequests
  BY <1>1, ConfigV1Assumption DEF TypeOK
<1>3. RequestOK' /\ AnswerOK'
  <2>1. CASE RejectRequest
    BY <2>1, <1>1, <1>2, RejectType DEF RequestOK, AnswerOK
  <2>2. ASSUME NEW mode \in Modes, NEW settings \in Asked,
               AcceptRequest(mode, settings), taken' = None
        PROVE  RequestOK' /\ AnswerOK'
    BY <2>2, <1>1, <1>2, AcceptType DEF RequestOK, AnswerOK
  <2>3. CASE SanitizeRaises
    BY <2>3, <1>2, TypeParts DEF SanitizeRaises, RequestOK, AnswerOK, answer
  <2> QED BY <2>1, <2>2, <2>3 DEF _handle_config_message
<1>4. ProfilesOK' /\ TelemetryOK' /\ TicksOK' /\ LoopOK'
  BY <1>1, TypeParts DEF ProfilesOK, TelemetryOK, TicksOK, LoopOK, profiles, telemetry, ticks
<1> QED BY <1>3, <1>4, TypePartsNext

LEMMA PollEndsType == TypeOK /\ (PollEnds \/ NotSafe \/ NothingDue) => TypeOK'
<1> SUFFICES ASSUME TypeOK, PollEnds \/ NotSafe \/ NothingDue PROVE TypeOK'
  OBVIOUS
<1>1. /\ pc' \in {"apply", "flush", "poll"}
      /\ UNCHANGED <<profiles, request, answer, telemetry, ticks, line>>
  BY DEF PollEnds, NotSafe, NothingDue
<1> QED
  BY <1>1, TypeParts, TypePartsNext
  DEF ProfilesOK, RequestOK, AnswerOK, TelemetryOK, TicksOK, LoopOK,
      profiles, request, answer, telemetry, ticks

LEMMA ApplyType == TypeOK /\ ApplyPending => TypeOK'
<1> SUFFICES ASSUME TypeOK, ApplyPending PROVE TypeOK'
  OBVIOUS
<1> DEFINE prof == pending.profile
<1>1. /\ pending \in Pendings /\ prof \in Profiles /\ pending.seq \in 1 .. MaxRequests
      /\ pending.flags \subseteq Flags
  BY TypeParts DEF ApplyPending, Safe, RequestOK, Pendings
<1>2. /\ pending' = None /\ taken' = prof /\ pc' = "flush"
      /\ UNCHANGED <<telemetry, ticks, line, requests>>
  BY DEF ApplyPending
<1>3. PICK persisted \in BOOLEAN :
        LET geometry == "GEOMETRY_CHANGED" \in pending.flags
            flags    == pending.flags
                        \cup (IF persisted THEN {"PERSISTED"} ELSE {})
                        \cup {IF geometry THEN "REBOOT_REQUIRED"
                                          ELSE "RUNTIME_APPLIED"}
        IN /\ IF pending.commit THEN SaveProfile(prof, persisted)
                                ELSE UNCHANGED stored
           /\ IF geometry THEN UNCHANGED <<active_profile, gear>>
                          ELSE _apply_profile_runtime(prof)
           /\ _queue_config_response(pending.seq, "OK", flags,
                  IF geometry THEN active_profile ELSE prof)
  BY DEF ApplyPending
<1>4. ProfilesOK'
  <2>1. stored' \in Profiles
    BY <1>1, <1>3, TypeParts DEF SaveProfile, ProfilesOK
  <2>2. active_profile' \in Profiles /\ gear' \in 1 .. Top
    <3>1. prof["geo"] \in 1 .. Top
      BY <1>1 DEF Profiles, Keys
    <3> QED BY <1>1, <1>3, <3>1, TypeParts DEF _apply_profile_runtime, ProfilesOK
  <2> QED BY <2>1, <2>2 DEF ProfilesOK
<1>5. AnswerOK'
  <2>1. PICK fl \in SUBSET Flags, pr \in Profiles :
          config_tx' = [seq |-> pending.seq, status |-> "OK", flags |-> fl, crc |-> pr]
    <3> DEFINE geometry == "GEOMETRY_CHANGED" \in pending.flags
               fl == pending.flags
                     \cup (IF persisted THEN {"PERSISTED"} ELSE {})
                     \cup {IF geometry THEN "REBOOT_REQUIRED" ELSE "RUNTIME_APPLIED"}
               pr == IF geometry THEN active_profile ELSE prof
    <3>1. fl \in SUBSET Flags
      BY <1>1 DEF Flags
    <3>2. pr \in Profiles
      BY <1>1, TypeParts DEF ProfilesOK
    <3>3. config_tx' = [seq |-> pending.seq, status |-> "OK", flags |-> fl, crc |-> pr]
      BY <1>3 DEF _queue_config_response, _build_config_response
    <3> QED BY <3>1, <3>2, <3>3
  <2>2. config_tx_offset' = 0
    BY <1>3 DEF _queue_config_response
  <2> QED BY <2>1, <2>2, <1>1, ConfigV1Assumption DEF AnswerOK, Answers
<1>6. RequestOK'
  BY <1>1, <1>2, TypeParts DEF RequestOK
<1>7. TelemetryOK' /\ TicksOK' /\ LoopOK'
  BY <1>2, TypeParts DEF TelemetryOK, TicksOK, LoopOK, telemetry, ticks
<1> QED BY <1>4, <1>5, <1>6, <1>7, TypePartsNext

LEMMA PutType ==
  ASSUME line \in Frames \cup {"idle"}, NEW f \in Frames, NEW offset, NEW n,
         Put(f, offset, n)
  PROVE  line' \in Frames \cup {"idle"}
BY DEF Put

LEMMA FlushType == TypeOK /\ flush_pending_config_tx => TypeOK'
<1> SUFFICES ASSUME TypeOK, flush_pending_config_tx PROVE TypeOK'
  OBVIOUS
<1>1. pc' = "telemetry" /\ UNCHANGED <<profiles, pending, requests, telemetry, ticks>>
  BY DEF flush_pending_config_tx
<1>2. AnswerOK' /\ (taken' = None \/ taken' = taken) /\ line' \in Frames \cup {"idle"}
  <2>1. CASE UNCHANGED <<answer, taken, line>>
    BY <2>1, TypeParts DEF AnswerOK, LoopOK, answer
  <2>2. ASSUME NEW n \in Room(config_tx_offset), Put("config", config_tx_offset, n),
               IF config_tx_offset + n = Cells
               THEN AnswerSent
               ELSE /\ config_tx_offset' = config_tx_offset + n
                    /\ UNCHANGED <<config_tx, taken>>
        PROVE  AnswerOK' /\ (taken' = None \/ taken' = taken)
               /\ line' \in Frames \cup {"idle"}
    <3>1. line' \in Frames \cup {"idle"}
      BY <2>2, PutType, TypeParts DEF LoopOK, Frames
    <3>2. CASE config_tx_offset + n = Cells
      BY <2>2, <3>1, <3>2, ConfigV1Assumption DEF AnswerSent, AnswerOK
    <3>3. CASE config_tx_offset + n # Cells
      <4>1. config_tx_offset' \in 0 .. Cells - 1
        BY <2>2, <3>3, TypeParts, ConfigV1Assumption DEF AnswerOK, Room
      <4> QED BY <2>2, <3>1, <3>3, <4>1, TypeParts DEF AnswerOK
    <3> QED BY <3>2, <3>3
  <2> QED BY <2>1, <2>2 DEF flush_pending_config_tx
<1>3. ProfilesOK' /\ RequestOK' /\ TelemetryOK' /\ TicksOK' /\ LoopOK'
  BY <1>1, <1>2, TypeParts
  DEF ProfilesOK, RequestOK, TelemetryOK, TicksOK, LoopOK, profiles, telemetry, ticks
<1> QED BY <1>2, <1>3, TypePartsNext

LEMMA SentType ==
  ASSUME TelemetryOK, TelemetrySent
  PROVE  TelemetryOK'
BY ConfigV1Assumption DEF TelemetrySent, TelemetryOK

LEMMA LeftType ==
  ASSUME TelemetryOK, NEW faults \in 0 .. MaxCount, NEW offset \in 0 .. Cells - 1,
         TelemetryLeft(faults, offset)
  PROVE  TelemetryOK'
BY ConfigV1Assumption DEF TelemetryLeft, TelemetryOK

LEMMA FlushTelemetryType == TypeOK /\ flush_pending_telemetry => TypeOK'
<1> SUFFICES ASSUME TypeOK, flush_pending_telemetry PROVE TypeOK'
  OBVIOUS
<1>1. UNCHANGED <<profiles, request, answer, fault_count, window>> /\ telemetry_due' = FALSE
  BY DEF flush_pending_telemetry
<1>2. TelemetryOK' /\ LoopOK'
  <2>1. CASE pc' = "build" /\ UNCHANGED <<telemetry, line>>
    BY <2>1, TypeParts DEF TelemetryOK, LoopOK, telemetry
  <2>2. ASSUME NEW n \in Room(telemetry_tx_offset),
               Put("telemetry", telemetry_tx_offset, n),
               IF telemetry_tx_offset + n = Cells
               THEN TelemetrySent /\ pc' = "build"
               ELSE TelemetryLeft(telemetry_tx, telemetry_tx_offset + n) /\ pc' = "poll"
        PROVE  TelemetryOK' /\ LoopOK'
    <3>1. LoopOK'
      BY <2>2, PutType, TypeParts DEF LoopOK, Frames
    <3>2. CASE telemetry_tx_offset + n = Cells
      BY <2>2, <3>1, <3>2, SentType, TypeParts
    <3>3. CASE telemetry_tx_offset + n # Cells
      <4>1. telemetry_tx_offset + n \in 0 .. Cells - 1 /\ telemetry_tx \in 0 .. MaxCount
        BY <2>2, <3>3, TypeParts, ConfigV1Assumption DEF TelemetryOK, Room
      <4> QED BY <2>2, <3>1, <3>3, <4>1, LeftType, TypeParts
    <3> QED BY <3>2, <3>3
  <2> QED BY <2>1, <2>2 DEF flush_pending_telemetry
<1>3. ProfilesOK' /\ RequestOK' /\ AnswerOK'
  BY <1>1, TypeParts DEF ProfilesOK, RequestOK, AnswerOK, profiles, request, answer
<1>4. telemetry_due' \in BOOLEAN
  BY <1>1
<1>5. TicksOK'
  BY <1>1, <1>4, TypeParts DEF TicksOK
<1> QED BY <1>2, <1>3, <1>5, TypePartsNext

LEMMA SendType == TypeOK /\ send_telemetry => TypeOK'
<1> SUFFICES ASSUME TypeOK, send_telemetry PROVE TypeOK'
  OBVIOUS
<1>1. UNCHANGED <<profiles, request, answer, ticks>> /\ pc' = "poll"
  BY DEF send_telemetry
<1>2. PICK n \in Room(0) :
        /\ Put("telemetry", 0, n)
        /\ IF n = Cells THEN TelemetrySent ELSE TelemetryLeft(fault_count, n)
  BY DEF send_telemetry
<1>3. LoopOK'
  BY <1>1, <1>2, PutType, TypeParts DEF LoopOK, Frames
<1>4. TelemetryOK'
  <2>1. CASE n = Cells
    BY <1>2, <2>1, SentType, TypeParts
  <2>2. CASE n # Cells
    <3>1. n \in 0 .. Cells - 1 /\ fault_count \in 0 .. MaxCount
      BY <1>2, <2>2, TypeParts, ConfigV1Assumption DEF Room, TicksOK
    <3> QED BY <1>2, <2>2, <3>1, LeftType, TypeParts
  <2> QED BY <2>1, <2>2
<1>5. ProfilesOK' /\ RequestOK' /\ AnswerOK' /\ TicksOK'
  BY <1>1, TypeParts DEF ProfilesOK, RequestOK, AnswerOK, TicksOK,
                         profiles, request, answer, ticks
<1> QED BY <1>3, <1>4, <1>5, TypePartsNext

LEMMA TickType ==
  TypeOK /\ (telemetry_tick \/ set_fault \/ EngineMoves) => TypeOK'
<1> SUFFICES ASSUME TypeOK, telemetry_tick \/ set_fault \/ EngineMoves
             PROVE  TypeOK'
  OBVIOUS
<1>1. UNCHANGED <<profiles, request, answer, telemetry, line, pc>>
  BY DEF telemetry_tick, set_fault, EngineMoves
<1>2. TicksOK'
  <2>1. CASE telemetry_tick
    <3>1. telemetry_due' \in BOOLEAN
      BY <2>1 DEF telemetry_tick
    <3> QED BY <2>1, <3>1, TypeParts DEF telemetry_tick, TicksOK
  <2>2. CASE set_fault
    <3>1. fault_count' \in 0 .. MaxCount
      BY <2>2, TypeParts, ConfigV1Assumption DEF set_fault, TicksOK
    <3> QED BY <2>2, <3>1, TypeParts DEF set_fault, TicksOK
  <2>3. CASE EngineMoves
    BY <2>3, TypeParts DEF EngineMoves, TicksOK
  <2> QED BY <2>1, <2>2, <2>3
<1>3. ProfilesOK' /\ RequestOK' /\ AnswerOK' /\ TelemetryOK' /\ LoopOK'
  BY <1>1, TypeParts DEF ProfilesOK, RequestOK, AnswerOK, TelemetryOK, LoopOK,
                         profiles, request, answer, telemetry
<1> QED BY <1>2, <1>3, TypePartsNext

LEMMA PowerType == TypeOK /\ PowerLost => TypeOK'
<1> SUFFICES ASSUME TypeOK, PowerLost PROVE TypeOK'
  OBVIOUS
<1> USE DEF PowerLost
<1>1. ProfilesOK'
  BY TypeParts DEF ProfilesOK, profiles
<1>2. RequestOK' /\ AnswerOK' /\ LoopOK'
  BY TypeParts, ConfigV1Assumption DEF RequestOK, AnswerOK, LoopOK
<1>3. TelemetryOK'
  BY ConfigV1Assumption DEF TelemetryOK
<1>4. TicksOK'
  <2>1. telemetry_due' \in BOOLEAN
    OBVIOUS
  <2>2. fault_count' \in 0 .. MaxCount /\ window' \in Windows
    BY TypeParts, ConfigV1Assumption DEF TicksOK
  <2> QED BY <2>1, <2>2 DEF TicksOK
<1> QED BY <1>1, <1>2, <1>3, <1>4, TypePartsNext

LEMMA BootType == TypeOK /\ load_boot_config_profile => TypeOK'
<1> SUFFICES ASSUME TypeOK, load_boot_config_profile PROVE TypeOK'
  OBVIOUS
<1>1. /\ pc' = "poll" /\ active_profile' = sanitize_profile(stored)
      /\ gear' = sanitize_profile(stored)["geo"]
      /\ UNCHANGED <<stored, request, answer, telemetry, ticks, line>>
  BY DEF load_boot_config_profile
<1>2. ProfilesOK'
  <2>1. stored \in Profiles /\ stored \in [Keys -> Nat \ {0}]
    BY TypeParts, ConfigV1Assumption DEF ProfilesOK, Profiles
  <2>2. sanitize_profile(stored) \in Profiles
    BY <2>1, SanitizedIsLegal
  <2>3. sanitize_profile(stored)["geo"] \in 1 .. Top
    BY <2>2 DEF Profiles, Keys
  <2> QED BY <1>1, <2>1, <2>2, <2>3 DEF ProfilesOK
<1>3. RequestOK' /\ AnswerOK' /\ TelemetryOK' /\ TicksOK' /\ LoopOK'
  BY <1>1, TypeParts DEF RequestOK, AnswerOK, TelemetryOK, TicksOK, LoopOK,
                         request, answer, telemetry, ticks
<1> QED BY <1>2, <1>3, TypePartsNext

LEMMA StepType == TypeOK /\ [Next]_vars => TypeOK'
<1>1. TypeOK /\ UNCHANGED vars => TypeOK'
  BY DEF TypeOK, vars, profiles, request, answer, telemetry, ticks
<1> QED
  BY <1>1, HandleType, PollEndsType, ApplyType, FlushType, FlushTelemetryType,
     SendType, TickType, PowerType, BootType
  DEF Next, run_loop, _apply_pending_config_if_safe

(* Every variable has its type.                                            *)
THEOREM TypeCorrect == Spec => []TypeOK
BY InitType, StepType, PTL DEF Spec

-----------------------------------------------------------------------------
(* The inductive invariant of the two safety properties.  The flags of a   *)
(* request that waits say how its geometry compares with the geometry the  *)
(* interrupts use: true until it is applied, because requests that arrive  *)
(* meanwhile, and those applied before it, leave that geometry alone.      *)
Outcomes == {"PERSISTED", "RUNTIME_APPLIED", "REBOOT_REQUIRED"}

AtBoot == pc = "boot" => pending = None /\ config_tx = None

OneGeometry == pc # "boot" => active_profile["geo"] = gear

FlagsHold ==
  pending # None =>
    /\ "GEOMETRY_CHANGED" \in pending.flags
       <=> pending.profile["geo"] # active_profile["geo"]
    /\ pending.flags \cap Outcomes = {}

IInv == TypeOK /\ AtBoot /\ OneGeometry /\ FlagsHold /\ AnswerIsTrue

LEMMA InitIInv == Init => IInv
<1> SUFFICES ASSUME Init PROVE IInv
  OBVIOUS
<1>1. AtBoot /\ OneGeometry /\ FlagsHold /\ AnswerIsTrue
  BY DEF Init, AtBoot, OneGeometry, FlagsHold, AnswerIsTrue
<1> QED BY <1>1, InitType DEF IInv

LEMMA HandleKeeps == IInv /\ _handle_config_message => IInv'
<1> SUFFICES ASSUME IInv, _handle_config_message PROVE IInv'
  OBVIOUS
<1>1. /\ pc = "poll" /\ pc' \in {"poll", "halted"} /\ requests < MaxRequests
      /\ active_profile' = active_profile /\ gear' = gear /\ stored' = stored
  BY DEF _handle_config_message, SanitizeRaises, profiles
<1>2. AtBoot' /\ OneGeometry'
  BY <1>1 DEF IInv, AtBoot, OneGeometry
<1>3. CASE RejectRequest
  <2>1. /\ pending' = pending
        /\ config_tx' = [seq |-> requests + 1, status |-> "REJECTED",
                         flags |-> {"PARSE_ERROR"}, crc |-> active_profile]
    BY <1>3 DEF RejectRequest, _queue_config_response, _build_config_response
  <2>2. FlagsHold'
    BY <1>1, <2>1 DEF IInv, FlagsHold
  <2>3. AnswerIsTrue'
    BY <2>1 DEF AnswerIsTrue
  <2> QED BY <2>2, <2>3, <1>2, HandleType DEF IInv
<1>4. ASSUME NEW mode \in Modes, NEW settings \in Asked,
             AcceptRequest(mode, settings)
      PROVE  IInv'
  <2> DEFINE sanitized == sanitize_profile(Merged(settings))
             flags == _cfg_flags(sanitized)
                      \cup IF sanitized # Merged(settings)
                           THEN {"SANITIZED"} ELSE {}
  <2>1. /\ "GEOMETRY_CHANGED" \in flags
           <=> sanitized["geo"] # active_profile["geo"]
        /\ flags \cap Outcomes = {}
    BY DEF _cfg_flags, Outcomes
  <2>2. CASE mode = "PREVIEW"
    <3>1. /\ pending' = pending
          /\ config_tx' = [seq |-> requests + 1, status |-> "OK",
                           flags |-> flags, crc |-> active_profile]
      BY <1>4, <2>2
      DEF AcceptRequest, _queue_config_response, _build_config_response
    <3> HIDE DEF flags, sanitized
    <3>2. FlagsHold'
      BY <1>1, <3>1 DEF IInv, FlagsHold
    <3>3. AnswerIsTrue'
      BY <2>1, <3>1 DEF AnswerIsTrue, Outcomes
    <3> QED BY <3>2, <3>3, <1>2, HandleType DEF IInv
  <2>3. CASE mode # "PREVIEW"
    <3>1. /\ pending' = [profile |-> sanitized, commit |-> mode = "COMMIT",
                         flags |-> flags, seq |-> requests + 1]
          /\ config_tx' = [seq |-> requests + 1, status |-> "DEFERRED",
                           flags |-> flags, crc |-> active_profile]
      BY <1>4, <2>3
      DEF AcceptRequest, _queue_config_response, _build_config_response
    <3> HIDE DEF flags, sanitized
    <3>2. pending'.profile = sanitized /\ pending'.flags = flags
      BY <3>1
    <3>3. FlagsHold'
      BY <1>1, <2>1, <3>2 DEF FlagsHold
    <3>4. pending' # None /\ pending'.seq = config_tx'.seq
      BY <3>1, RecordsAreNotNone
    <3>5. config_tx'.flags = flags
      BY <3>1
    <3>6. AnswerIsTrue'
      BY <2>1, <3>4, <3>5 DEF AnswerIsTrue, Outcomes
    <3> QED BY <3>3, <3>6, <1>2, HandleType DEF IInv
  <2> QED BY <2>2, <2>3
<1>5. CASE SanitizeRaises
  <2>1. pending' = pending /\ config_tx' = config_tx /\ taken' = taken
    BY <1>5 DEF SanitizeRaises, answer
  <2>2. FlagsHold' /\ AnswerIsTrue'
    BY <1>1, <2>1 DEF IInv, FlagsHold, AnswerIsTrue
  <2> QED BY <1>2, <2>2, HandleType DEF IInv
<1> QED BY <1>3, <1>4, <1>5 DEF _handle_config_message

LEMMA ApplyKeeps == IInv /\ ApplyPending => IInv'
<1> SUFFICES ASSUME IInv, ApplyPending PROVE IInv'
  OBVIOUS
<1> DEFINE prof     == pending.profile
           geometry == "GEOMETRY_CHANGED" \in pending.flags
<1>1. /\ pending # None /\ pending' = None /\ taken' = prof
      /\ pc = "apply" /\ pc' = "flush"
  BY DEF ApplyPending, Safe
<1>2. PICK persisted \in IF pending.commit THEN BOOLEAN ELSE {FALSE} :
        /\ IF pending.commit THEN SaveProfile(prof, persisted)
                             ELSE UNCHANGED stored
        /\ IF geometry THEN UNCHANGED <<active_profile, gear>>
                       ELSE _apply_profile_runtime(prof)
        /\ _queue_config_response(pending.seq, "OK",
               pending.flags
               \cup (IF persisted THEN {"PERSISTED"} ELSE {})
               \cup {IF geometry THEN "REBOOT_REQUIRED"
                                 ELSE "RUNTIME_APPLIED"},
               IF geometry THEN active_profile ELSE prof)
  BY DEF ApplyPending
<1>3. /\ geometry <=> prof["geo"] # active_profile["geo"]
      /\ pending.flags \cap Outcomes = {}
      /\ active_profile["geo"] = gear
  BY <1>1 DEF IInv, FlagsHold, OneGeometry
<1>4. AtBoot' /\ FlagsHold'
  BY <1>1 DEF AtBoot, FlagsHold
<1>5. OneGeometry'
  BY <1>2, <1>3 DEF OneGeometry, _apply_profile_runtime
<1>6. AnswerIsTrue'
  <2>1. "PERSISTED" \in config_tx'.flags => stored' = prof
    <3>1. "PERSISTED" \in config_tx'.flags => persisted
      BY <1>2, <1>3
      DEF _queue_config_response, _build_config_response, Outcomes
    <3>2. persisted => pending.commit
      BY <1>2
    <3> QED BY <1>2, <3>1, <3>2 DEF SaveProfile
  <2>2. "RUNTIME_APPLIED" \in config_tx'.flags
        => active_profile' = prof /\ config_tx'.crc = prof
    <3>1. "RUNTIME_APPLIED" \in config_tx'.flags => ~geometry
      BY <1>2, <1>3
      DEF _queue_config_response, _build_config_response, Outcomes
    <3>2. ~geometry => active_profile' = prof
      BY <1>2 DEF _apply_profile_runtime
    <3>3. ~geometry => config_tx'.crc = prof
      BY <1>2 DEF _queue_config_response, _build_config_response
    <3> QED BY <3>1, <3>2, <3>3
  <2>3. "REBOOT_REQUIRED" \in config_tx'.flags => active_profile' # prof
    <3>1. "REBOOT_REQUIRED" \in config_tx'.flags => geometry
      BY <1>2, <1>3
      DEF _queue_config_response, _build_config_response, Outcomes
    <3>2. geometry => active_profile' = active_profile
      BY <1>2
    <3> QED BY <3>1, <3>2, <1>3
  <2>4. config_tx'.status = "OK"
    BY <1>2 DEF _queue_config_response, _build_config_response
  <2> QED BY <1>1, <2>1, <2>2, <2>3, <2>4 DEF AnswerIsTrue
<1> QED BY <1>4, <1>5, <1>6, ApplyType DEF IInv

LEMMA FlushKeeps == IInv /\ flush_pending_config_tx => IInv'
<1> SUFFICES ASSUME IInv, flush_pending_config_tx PROVE IInv'
  OBVIOUS
<1>1. /\ pc' = "telemetry" /\ pc # "boot" /\ pending' = pending
      /\ active_profile' = active_profile /\ gear' = gear /\ stored' = stored
  BY DEF flush_pending_config_tx, profiles
<1>2. config_tx' = None \/ (config_tx' = config_tx /\ taken' = taken)
  BY DEF flush_pending_config_tx, answer, AnswerSent
<1>3. AtBoot' /\ OneGeometry' /\ FlagsHold'
  BY <1>1 DEF IInv, AtBoot, OneGeometry, FlagsHold
<1>4. AnswerIsTrue'
  BY <1>1, <1>2 DEF IInv, AnswerIsTrue
<1> QED BY <1>3, <1>4, FlushType DEF IInv

(* The other steps of the loop, the timer, the interrupts.                 *)
Elsewhere ==
  PollEnds \/ NotSafe \/ NothingDue \/ flush_pending_telemetry
  \/ send_telemetry \/ telemetry_tick \/ set_fault \/ EngineMoves

LEMMA ElsewhereKeeps == IInv /\ Elsewhere => IInv'
<1> SUFFICES ASSUME IInv, Elsewhere PROVE IInv'
  OBVIOUS
<1>1. /\ UNCHANGED <<profiles, request, answer>>
      /\ pc' = pc \/ (pc # "boot" /\ pc' # "boot")
  BY DEF Elsewhere, PollEnds, NotSafe, NothingDue, flush_pending_telemetry,
         send_telemetry, telemetry_tick, set_fault, EngineMoves
<1>2. AtBoot' /\ OneGeometry' /\ FlagsHold' /\ AnswerIsTrue'
  BY <1>1 DEF IInv, AtBoot, OneGeometry, FlagsHold, AnswerIsTrue,
              profiles, request, answer
<1>3. TypeOK'
  BY PollEndsType, FlushTelemetryType, SendType, TickType DEF Elsewhere, IInv
<1> QED BY <1>2, <1>3 DEF IInv

LEMMA RestartKeeps == IInv /\ (PowerLost \/ load_boot_config_profile) => IInv'
<1>1. IInv /\ PowerLost => IInv'
  <2> SUFFICES ASSUME IInv, PowerLost PROVE IInv'
    OBVIOUS
  <2>1. AtBoot' /\ OneGeometry' /\ FlagsHold' /\ AnswerIsTrue'
    BY DEF PowerLost, AtBoot, OneGeometry, FlagsHold, AnswerIsTrue
  <2> QED BY <2>1, PowerType DEF IInv
<1>2. IInv /\ load_boot_config_profile => IInv'
  <2> SUFFICES ASSUME IInv, load_boot_config_profile PROVE IInv'
    OBVIOUS
  <2>1. /\ pc = "boot" /\ active_profile'["geo"] = gear' /\ pc' = "poll"
        /\ UNCHANGED <<request, answer>>
    BY DEF load_boot_config_profile
  <2>2. pending' = None /\ config_tx' = None
    BY <2>1 DEF IInv, AtBoot, request, answer
  <2>3. AtBoot' /\ OneGeometry' /\ FlagsHold' /\ AnswerIsTrue'
    BY <2>1, <2>2 DEF AtBoot, OneGeometry, FlagsHold, AnswerIsTrue
  <2> QED BY <2>3, BootType DEF IInv
<1> QED BY <1>1, <1>2

LEMMA StepKeeps == IInv /\ [Next]_vars => IInv'
<1>1. IInv /\ UNCHANGED vars => IInv'
  BY DEF IInv, TypeOK, AtBoot, OneGeometry, FlagsHold, AnswerIsTrue, vars,
         profiles, request, answer, telemetry, ticks
<1> QED
  BY <1>1, HandleKeeps, ApplyKeeps, FlushKeeps, ElsewhereKeeps, RestartKeeps
  DEF Next, run_loop, _apply_pending_config_if_safe, Elsewhere

LEMMA Invariant == Spec => []IInv
BY InitIInv, StepKeeps, PTL DEF Spec

(* What an answer on the wire says is so.                                  *)
THEOREM AnswersAreTrue == Spec => []AnswerIsTrue
<1>1. IInv => AnswerIsTrue
  BY DEF IInv
<1> QED BY <1>1, Invariant, PTL

LEMMA StepGeometry ==
  IInv /\ [Next]_vars
  => [pc # "boot" => gear' = gear /\ active_profile'["geo"] = gear]_vars
<1> SUFFICES ASSUME IInv, Next, pc # "boot"
             PROVE  gear' = gear /\ active_profile'["geo"] = gear
  OBVIOUS
<1>1. active_profile["geo"] = gear
  BY DEF IInv, OneGeometry
<1>2. CASE ApplyPending
  <2>1. /\ pending # None
        /\ IF "GEOMETRY_CHANGED" \in pending.flags
           THEN UNCHANGED <<active_profile, gear>>
           ELSE _apply_profile_runtime(pending.profile)
    BY <1>2 DEF ApplyPending, Safe
  <2> QED BY <1>1, <2>1 DEF IInv, FlagsHold, _apply_profile_runtime
<1>3. CASE ~ApplyPending
  <2>1. UNCHANGED <<active_profile, gear>>
    BY <1>3 DEF Next, run_loop, _apply_pending_config_if_safe, PollEnds,
       NotSafe, NothingDue, _handle_config_message, flush_pending_config_tx,
       flush_pending_telemetry, send_telemetry, telemetry_tick, set_fault,
       EngineMoves, PowerLost, load_boot_config_profile, profiles
  <2> QED BY <1>1, <2>1
<1> QED BY <1>2, <1>3

(* The geometry the interrupts decode with changes at a boot only.         *)
THEOREM GeometryIsFixed == Spec => GeometryOnlyAtBoot
BY Invariant, StepGeometry, PTL DEF Spec, GeometryOnlyAtBoot

-----------------------------------------------------------------------------
(* The reader that the requests come through (CfgFraming): no frame of the *)
(* dash, whose payloads are shorter than 256 bytes, ever comes out of it.  *)
CONSTANTS Base, Lens, MaxFrames
VARIABLES frames, pos, handled

Framing == INSTANCE CfgFraming

DashFrames == [at : Nat, len : Lens, t3 : 0 .. Base - 1]

LEMMA LengthsDiffer ==
  ASSUME Base \in Nat, Base >= 3, Lens \subseteq 1 .. Base,
         NEW f \in DashFrames
  PROVE  Framing!Total(f) # Framing!Sent(f)
<1>1. /\ f.len \in 1 .. Base /\ f.t3 \in 0 .. Base - 1
  BY DEF DashFrames
<1>2. CASE f.len = Base
  <2>1. f.len % Base = 0
    BY <1>2
  <2>2. Framing!Total(f) = 14 + f.t3
    BY <1>1, <2>1 DEF Framing!Total, Framing!payload_len
  <2> QED BY <1>1, <1>2, <2>2 DEF Framing!Sent
<1>3. CASE f.len # Base
  <2>1. f.len % Base = f.len
    BY <1>1, <1>3
  <2>2. Base * f.len >= 3 * f.len
    BY <1>1
  <2>3. Framing!Total(f) = 14 + f.t3 + Base * f.len
    BY <1>1, <2>1 DEF Framing!Total, Framing!payload_len
  <2> QED BY <1>1, <2>2, <2>3 DEF Framing!Sent
<1> QED BY <1>2, <1>3

FramesOK == frames \in Seq(DashFrames) /\ handled = {}

(* No configuration that the dash sends is ever handled.                   *)
THEOREM NoFrameIsHandled ==
  ASSUME Base \in Nat, Base >= 3, Lens \subseteq 1 .. Base
  PROVE  Framing!Spec => [](handled = {})
<1>1. Framing!Init => FramesOK
  BY DEF Framing!Init, FramesOK
<1>2. FramesOK /\ [Framing!Next]_Framing!vars => FramesOK'
  <2> SUFFICES ASSUME FramesOK, [Framing!Next]_Framing!vars PROVE FramesOK'
    OBVIOUS
  <2>1. ASSUME NEW len \in Lens, NEW t3 \in 0 .. Base - 1,
               Framing!SendConfig(len, t3)
        PROVE  FramesOK'
    <3>1. Framing!End \in Nat
      <4>1. CASE frames = <<>>
        BY <4>1 DEF Framing!End
      <4>2. CASE frames # <<>>
        <5>1. frames[Len(frames)] \in DashFrames
          BY <4>2 DEF FramesOK
        <5>2. /\ frames[Len(frames)].at \in Nat
              /\ frames[Len(frames)].len \in 1 .. Base
          BY <5>1 DEF DashFrames
        <5> QED BY <4>2, <5>2 DEF Framing!End, Framing!Sent
      <4> QED BY <4>1, <4>2
    <3>2. [at |-> Framing!End, len |-> len, t3 |-> t3] \in DashFrames
      BY <3>1 DEF DashFrames
    <3> QED BY <2>1, <3>2 DEF Framing!SendConfig, FramesOK
  <2>2. ASSUME NEW i \in 1 .. Len(frames), Framing!_consume_frame(i)
        PROVE  FramesOK'
    <3>1. frames[i] \in DashFrames
      BY DEF FramesOK
    <3>2. Framing!Total(frames[i]) # Framing!Sent(frames[i])
      BY <3>1, LengthsDiffer
    <3> QED BY <2>2, <3>2 DEF Framing!_consume_frame, FramesOK
  <2>3. CASE Framing!ConsumeOther
    BY <2>3 DEF Framing!ConsumeOther, FramesOK
  <2>4. CASE UNCHANGED Framing!vars
    BY <2>4 DEF Framing!vars, FramesOK
  <2> QED BY <2>1, <2>2, <2>3, <2>4 DEF Framing!Next
<1>3. FramesOK => handled = {}
  BY DEF FramesOK
<1> QED BY <1>1, <1>2, <1>3, PTL DEF Framing!Spec
=============================================================================
