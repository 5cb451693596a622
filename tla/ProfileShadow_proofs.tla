----------------------- MODULE ProfileShadow_proofs -----------------------
(***************************************************************************)
(* Proofs about ProfileShadow, for any set of fields and any number of     *)
(* profiles, and about ShellV2, which calls it.                            *)
(***************************************************************************)
EXTENDS ShellV2, TLAPS

Idle == tpc = "idle" /\ ~pending_commit

(* The number last signalled trails the number begun by the call that is   *)
(* being written, and both shadows have the CRC of the last call.          *)
Numbers ==
  /\ spc = "write" => installed < calls
  /\ spc # "write" => installed = calls
  /\ spc \in {"crc1", "idle"} => crc[0] = installed
  /\ spc = "idle" => crc[1] = installed

(* Without an overlap the shadow being written is not live and nothing is  *)
(* pending; what is pending is whole and in the other shadow; and what is  *)
(* live is the last profile signalled unless that one is on its way.       *)
Buffers ==
  /\ spc = "write" =>
       /\ target = 1 - active_idx /\ Idle
       /\ \A f \in Fields \ unset : shadow[target][f] = calls
  /\ ~(pending_commit /\ tpc = "swap")
  /\ ~Idle => shadow[1 - active_idx] = Whole(installed)
  /\ Idle => shadow[active_idx] = Whole(installed)

IInv == TypeOK /\ Numbers /\ (~overlapped => Buffers)

LEMMA OtherShadow == \A i \in Shadows : 1 - i \in Shadows /\ 1 - i # i
  BY DEF Shadows

LEMMA WholeDiffers == \A m, n \in Nat : m # n => Whole(m) # Whole(n)
  <1>1. SUFFICES ASSUME NEW m \in Nat, NEW n \in Nat, Whole(m) = Whole(n)
                 PROVE m = n
    OBVIOUS
  <1>2. PICK f \in Fields : TRUE
    BY ProfileAssumption
  <1>3. Whole(m)[f] = m /\ Whole(n)[f] = n
    BY DEF Whole
  <1> QED
    BY <1>1, <1>3

LEMMA InitInv == Init => IInv
  <1> SUFFICES ASSUME Init PROVE IInv
    OBVIOUS
  <1>1. TypeOK
    <2>1. Whole(0) \in [Fields -> 0 .. MaxCalls]
      BY ProfileAssumption DEF Whole
    <2>2. shadow \in [Shadows -> [Fields -> 0 .. MaxCalls]]
      BY <2>1 DEF Init
    <2>3. overlapped \in BOOLEAN /\ pending_commit \in BOOLEAN
      BY DEF Init
    <2>4. crc \in [Shadows -> 0 .. MaxCalls]
      BY ProfileAssumption DEF Init
    <2> QED
      BY <2>2, <2>3, <2>4, ProfileAssumption DEF Init, TypeOK, Shadows
  <1>2. Numbers
    BY DEF Init, Numbers, Shadows
  <1>3. Buffers
    BY DEF Init, Buffers, Idle, Shadows
  <1> QED
    BY <1>1, <1>2, <1>3 DEF IInv

LEMMA PickInv == IInv /\ PickShadow => IInv'
  <1> SUFFICES ASSUME IInv, PickShadow PROVE IInv'
    OBVIOUS
  <1> USE DEF IInv, PickShadow
  <1>1. overlapped' \in BOOLEAN
    BY DEF TypeOK
  <1>2. TypeOK'
    BY <1>1, ProfileAssumption, OtherShadow DEF TypeOK
  <1>3. Numbers'
    BY DEF Numbers, TypeOK
  <1>4. ASSUME ~overlapped' PROVE Buffers'
    <2>1. ~overlapped /\ Idle
      BY <1>4 DEF Idle, TypeOK
    <2> QED
      BY <1>4, <2>1 DEF Buffers, Idle, Whole
  <1> QED
    BY <1>2, <1>3, <1>4

LEMMA WriteInv == IInv /\ WriteField => IInv'
  <1> SUFFICES ASSUME IInv, WriteField PROVE IInv'
    OBVIOUS
  <1> USE DEF IInv, WriteField
  <1>1. PICK f \in unset : /\ shadow' = [shadow EXCEPT ![target][f] = calls]
                           /\ unset' = unset \ {f}
    OBVIOUS
  <1>2. TypeOK'
    BY <1>1, ProfileAssumption DEF TypeOK, Shadows
  <1>3. Numbers'
    BY DEF Numbers
  <1>4. ASSUME ~overlapped PROVE Buffers'
    <2>1. /\ target = 1 - active_idx /\ Idle
          /\ \A g \in Fields \ unset : shadow[target][g] = calls
      BY <1>4 DEF Buffers
    <2>2. \A g \in Fields \ unset' : shadow'[target][g] = calls
      BY <1>1, <2>1 DEF TypeOK, Shadows
    <2>3. shadow'[active_idx] = shadow[active_idx]
      BY <1>1, <2>1, OtherShadow DEF TypeOK
    <2> QED
      BY <1>4, <2>1, <2>2, <2>3 DEF Buffers, Idle, Whole
  <1> QED
    BY <1>2, <1>3, <1>4

LEMMA SignalInv == IInv /\ SignalCommit => IInv'
  <1> SUFFICES ASSUME IInv, SignalCommit PROVE IInv'
    OBVIOUS
  <1> USE DEF IInv, SignalCommit
  <1>1. TypeOK'
    BY DEF TypeOK
  <1>2. Numbers'
    BY DEF Numbers, TypeOK
  <1>3. ASSUME ~overlapped PROVE Buffers'
    <2>1. target = 1 - active_idx /\ Idle /\ \A f \in Fields : shadow[target][f] = calls
      BY <1>3 DEF Buffers
    <2>2. shadow[1 - active_idx] = Whole(calls)
      BY <2>1, OtherShadow DEF TypeOK, Whole
    <2> QED
      BY <2>1, <2>2 DEF Buffers, Idle, Whole
  <1> QED
    BY <1>1, <1>2, <1>3

LEMMA StampInv == IInv /\ set_profile_crc16 => IInv'
  <1> SUFFICES ASSUME IInv, set_profile_crc16 PROVE IInv'
    OBVIOUS
  <1> USE DEF IInv, set_profile_crc16, StampCrc
  <1>1. TypeOK'
    BY DEF TypeOK, Shadows
  <1>2. Numbers'
    BY DEF Numbers, TypeOK, Shadows
  <1>3. Buffers => Buffers'
    BY DEF Buffers, Idle, Whole
  <1> QED
    BY <1>1, <1>2, <1>3

LEMMA CommitInv == IInv /\ commit_if_pending => IInv'
  <1> SUFFICES ASSUME IInv, commit_if_pending PROVE IInv'
    OBVIOUS
  <1> USE DEF IInv, commit_if_pending, ExchangePending, SwapIndex, core0
  <1>1. TypeOK'
    BY OtherShadow DEF TypeOK
  <1>2. Numbers'
    BY DEF Numbers
  <1>3. CASE ExchangePending
    BY <1>1, <1>2, <1>3 DEF Buffers, Idle, Whole
  <1>4. CASE SwapIndex
    <2>1. ~overlapped => Buffers'
      BY <1>4 DEF Buffers, Idle, Whole, TypeOK, Shadows
    <2> QED
      BY <1>1, <1>2, <1>4, <2>1
  <1> QED
    BY <1>3, <1>4

LEMMA StepInv == IInv /\ [Next]_vars => IInv'
  <1>1. IInv /\ UNCHANGED vars => IInv'
    BY DEF vars, core0, IInv, TypeOK, Numbers, Buffers, Idle, Whole
  <1> QED
    BY <1>1, PickInv, WriteInv, SignalInv, StampInv, CommitInv DEF Next, set_profile

(* The inductive invariant.                                                *)
THEOREM Inductive == Spec => []IInv
  BY InitInv, StepInv, PTL DEF Spec

(* Type correctness.                                                       *)
THEOREM TypeCorrect == Spec => []TypeOK
  BY Inductive, PTL DEF IInv

LEMMA LastFromInv == IInv => LastSetIsLive
  <1> SUFFICES ASSUME IInv, ~overlapped, spc = "idle", tpc = "idle", ~pending_commit
               PROVE shadow[active_idx] = Whole(installed) /\ crc[active_idx] = installed
    BY DEF LastSetIsLive
  <1>1. shadow[active_idx] = Whole(installed)
    BY DEF IInv, Buffers, Idle
  <1>2. crc[active_idx] = installed
    BY DEF IInv, Numbers, TypeOK, Shadows
  <1> QED
    BY <1>1, <1>2

(* Without an overlap, the profile live when both cores are done with it   *)
(* is the last one asked for, with its CRC (ecu_native.c:143-239).         *)
THEOREM LastIsLive == Spec => []LastSetIsLive
  BY Inductive, LastFromInv, PTL

LEMMA ContractStep ==
  IInv /\ [Next]_vars => \/ Contract!PNext \/ overlapped'
                         \/ UNCHANGED Contract!pvars
  <1> SUFFICES ASSUME IInv, [Next]_vars, ~overlapped'
               PROVE Contract!PNext \/ UNCHANGED Contract!pvars
    OBVIOUS
  <1> USE DEF IInv, Contract!pvars
  <1>1. CASE PickShadow
    BY <1>1 DEF PickShadow, Whole
  <1>2. CASE WriteField
    <2>1. ~overlapped /\ target = 1 - active_idx
      BY <1>2 DEF WriteField, Buffers
    <2>2. shadow'[active_idx] = shadow[active_idx]
      BY <1>2, <2>1, OtherShadow DEF WriteField, TypeOK
    <2> QED
      BY <1>2, <2>2 DEF WriteField, Whole
  <1>3. CASE SignalCommit
    <2>1. installed' # installed /\ installed' \in Nat /\ installed \in Nat
      BY <1>3, ProfileAssumption DEF SignalCommit, Numbers, TypeOK
    <2>2. Whole(installed') # Whole(installed)
      BY <2>1, WholeDiffers
    <2>3. shadow'[active_idx'] = shadow[active_idx]
      BY <1>3 DEF SignalCommit
    <2>4. Whole(installed)' = Whole(installed')
      BY DEF Whole
    <2> QED
      BY <2>2, <2>3, <2>4 DEF Contract!PNext, Contract!Ask
  <1>4. CASE set_profile_crc16
    BY <1>4 DEF set_profile_crc16, StampCrc, Whole
  <1>5. CASE ExchangePending
    BY <1>5 DEF ExchangePending, core0, Whole
  <1>6. CASE SwapIndex
    <2>1. shadow[1 - active_idx] = Whole(installed)
      BY <1>6 DEF SwapIndex, core0, Buffers, Idle
    <2>2. shadow'[active_idx'] = Whole(installed) /\ Whole(installed)' = Whole(installed)
      BY <1>6, <2>1 DEF SwapIndex, core0, Whole
    <2> QED
      BY <2>2 DEF Contract!PNext, Contract!Install
  <1>7. CASE UNCHANGED vars
    BY <1>7 DEF vars, core0, Whole
  <1> QED
    BY <1>1, <1>2, <1>3, <1>4, <1>5, <1>6, <1>7
       DEF Next, set_profile, commit_if_pending

(* Until two calls overlap, every step is a step of ProfileContract: the   *)
(* live profile changes at once, and to the one asked for last.            *)
THEOREM ImplementsContract == Spec => KeepsContract
  <1>1. Init => Contract!PInit
    BY DEF Init, Contract!PInit, Shadows, Whole
  <1>2. IInv /\ [Next]_vars => [Contract!PNext \/ overlapped']_(Contract!pvars)
    BY ContractStep
  <1> QED
    BY Inductive, <1>1, <1>2, PTL DEF Spec, KeepsContract

-----------------------------------------------------------------------------
(* The shell.  Every step of it but a loss of power is a step of the       *)
(* hand-over, or leaves that alone.                                        *)

ShellTypes ==
  /\ pc \in {"boot", "pushed", "loop", "apply", "halted"}
  /\ _active_profile \in Profiles /\ stored \in Profiles /\ acked \in Profiles
  /\ value \in [0 .. MaxCalls -> Profiles] /\ unsure \in BOOLEAN
  /\ job \in [profile : Profiles, mode : Modes, flags : SUBSET Flags]
  /\ answer \in [status : {"none", "OK", "REJECTED"}, flags : SUBSET Flags,
                 crc : 0 .. MaxCalls, about : 0 .. MaxCalls]

(* What has been pushed when the shell is at each point of main.           *)
Booting == pc = "boot" => calls = 0 /\ spc = "idle" /\ Idle /\ ~overlapped

Pushed ==
  pc = "pushed" => /\ calls = 1 /\ ~overlapped
                   /\ value[1] = _active_profile
                   /\ ~unsure => value[1] = acked

Looping ==
  pc = "loop" => /\ calls >= 1 /\ spc = "idle"
                 /\ value[calls] = _active_profile

Applying ==
  pc = "apply" => /\ calls >= 1 /\ value[calls] = job.profile
                  /\ job.profile["geo"] = _active_profile["geo"]
                  /\ "RUNTIME_APPLIED" \notin job.flags

(* All that has been pushed since the boot has one geometry.               *)
OneGeometry ==
  pc # "boot" => \A n \in 1 .. calls : value[n]["geo"] = _active_profile["geo"]

StoredIsAcked == ~unsure => stored = acked

(* The profile that goes when one comes is the one pushed before it.       *)
Past ==
  /\ \A i \in Shadows, f \in Fields : shadow[i][f] \in 0 .. calls
  /\ spc = "write" => installed = calls - 1
  /\ ~overlapped /\ ~Idle =>
       installed >= 1 /\ shadow[active_idx] = Whole(installed - 1)

SInv == /\ IInv /\ ShellTypes
        /\ Booting /\ Pushed /\ Looping /\ Applying
        /\ OneGeometry /\ StoredIsAcked /\ Past /\ AnswerNamesProfile

LEMMA DefaultIsLegal == Default \in Profiles
  BY ShellAssumption DEF Default, Profiles

LEMMA SanitizedIsLegal ==
  ASSUME NEW p \in [Fields -> Nat \ {0}]
  PROVE  sanitize_profile(p) \in Profiles
  BY ShellAssumption DEF sanitize_profile, Profiles

LEMMA LegalIsKept ==
  ASSUME NEW p \in Profiles
  PROVE  sanitize_profile(p) = p
  <1>1. p \in [Fields -> 1 .. Top]
    BY DEF Profiles
  <1>2. \A f \in Fields : ~(p[f] > Top)
    BY <1>1, ShellAssumption
  <1> QED
    BY <1>1, <1>2 DEF sanitize_profile

LEMMA RequestIsLegal ==
  ASSUME _active_profile \in Profiles, NEW mode \in Modes,
         NEW settings \in Asked
  PROVE  /\ Request(mode, settings)
              \in [profile : Profiles, mode : Modes, flags : SUBSET Flags]
         /\ Request(mode, settings).mode = mode
         /\ "RUNTIME_APPLIED" \notin Request(mode, settings).flags
         /\ "GEOMETRY_CHANGED" \notin Request(mode, settings).flags =>
              Request(mode, settings).profile["geo"] = _active_profile["geo"]
  <1> DEFINE clean == sanitize_profile(Merged(settings))
             flags == (IF _geometry_changed(clean) THEN {"GEOMETRY_CHANGED"} ELSE {})
                      \cup (IF clean # Merged(settings) THEN {"SANITIZED"} ELSE {})
  <1>1. Merged(settings) \in [Fields -> Nat \ {0}]
    BY ShellAssumption DEF Merged, Profiles, Keep
  <1>2. clean \in Profiles
    BY <1>1, SanitizedIsLegal
  <1>3. flags \in SUBSET Flags /\ "RUNTIME_APPLIED" \notin flags
    BY DEF Flags
  <1>4. "GEOMETRY_CHANGED" \notin flags => clean["geo"] = _active_profile["geo"]
    BY DEF _geometry_changed
  <1>5. Request(mode, settings) = [profile |-> clean, mode |-> mode, flags |-> flags]
    BY DEF Request
  <1> HIDE DEF clean, flags
  <1> QED
    BY <1>2, <1>3, <1>4, <1>5

LEMMA ShellInitInv == ShellInit => SInv
  <1> SUFFICES ASSUME ShellInit PROVE SInv
    OBVIOUS
  <1>1. Init /\ IInv
    BY InitInv DEF ShellInit
  <1>2. ShellTypes
    <2>1. NoJob \in [profile : Profiles, mode : Modes, flags : SUBSET Flags]
      BY DefaultIsLegal DEF NoJob, Modes
    <2>2. NoAnswer \in [status : {"none", "OK", "REJECTED"}, flags : SUBSET Flags,
                        crc : 0 .. MaxCalls, about : 0 .. MaxCalls]
      BY ProfileAssumption DEF NoAnswer
    <2>3. unsure \in BOOLEAN
      BY DEF ShellInit
    <2> QED
      BY <2>1, <2>2, <2>3, DefaultIsLegal DEF ShellInit, ShellTypes
  <1>3. Booting /\ Pushed /\ Looping /\ Applying /\ OneGeometry
    BY <1>1 DEF ShellInit, Init, Booting, Pushed, Looping, Applying, OneGeometry, Idle
  <1>4. StoredIsAcked
    BY DEF ShellInit, StoredIsAcked
  <1>5. AnswerNamesProfile
    BY DEF ShellInit, AnswerNamesProfile, NoAnswer
  <1>6. Past
    BY <1>1 DEF Init, Past, Idle, Whole
  <1> QED
    BY <1>1, <1>2, <1>3, <1>4, <1>5, <1>6 DEF SInv

(* What the steps of the hand-over do to Past.                             *)
LEMMA PastKept == SInv /\ [Next]_vars => Past'
  <1> SUFFICES ASSUME IInv, Past, [Next]_vars PROVE Past'
    BY DEF SInv
  <1>0. /\ calls \in Nat /\ installed \in Nat /\ active_idx \in Shadows
        /\ target \in Shadows /\ shadow \in [Shadows -> [Fields -> 0 .. MaxCalls]]
        /\ unset \subseteq Fields
    BY ProfileAssumption DEF IInv, TypeOK
  <1>1. CASE PickShadow
    <2>1. \A i \in Shadows, f \in Fields : shadow'[i][f] \in 0 .. calls'
      BY <1>0, <1>1 DEF PickShadow, Past
    <2>2. installed' = calls' - 1
      BY <1>0, <1>1 DEF PickShadow, IInv, Numbers
    <2>3. ~overlapped' => Idle'
      BY <1>1 DEF PickShadow, Idle, IInv, TypeOK
    <2> QED
      BY <2>1, <2>2, <2>3 DEF Past
  <1>2. CASE WriteField
    <2>1. PICK f \in unset : shadow' = [shadow EXCEPT ![target][f] = calls]
      BY <1>2 DEF WriteField
    <2>2. \A i \in Shadows, g \in Fields : shadow'[i][g] \in 0 .. calls
      BY <1>0, <2>1 DEF Past
    <2>3. Idle' = Idle /\ UNCHANGED <<calls, spc, installed, overlapped>>
      BY <1>2 DEF WriteField, Idle
    <2>4. ~overlapped => Idle
      BY <1>2 DEF WriteField, IInv, Buffers
    <2> QED
      BY <2>2, <2>3, <2>4 DEF Past
  <1>3. CASE SignalCommit
    <2>1. installed' = calls /\ calls' = calls /\ spc' = "crc0" /\ shadow' = shadow
          /\ active_idx' = active_idx /\ overlapped' = overlapped
      BY <1>3 DEF SignalCommit
    <2>2. ~overlapped => shadow[active_idx] = Whole(installed) /\ installed = calls - 1
      BY <1>3 DEF SignalCommit, IInv, Buffers, Past
    <2>3. ~overlapped => Past' 
      BY <1>0, <2>1, <2>2 DEF Past, Whole
    <2>4. overlapped => Past'
      BY <2>1 DEF Past
    <2> QED
      BY <2>3, <2>4
  <1>4. CASE set_profile_crc16
    BY <1>4 DEF set_profile_crc16, StampCrc, Past, Idle, Whole
  <1>5. CASE ExchangePending
    BY <1>5 DEF ExchangePending, core0, Past, Idle, Whole
  <1>6. CASE SwapIndex
    <2>1. ~overlapped' => Idle'
      BY <1>6 DEF SwapIndex, core0, Idle, IInv, Buffers
    <2> QED
      BY <1>6, <2>1 DEF SwapIndex, core0, Past
  <1>7. CASE UNCHANGED vars
    BY <1>7 DEF vars, core0, Past, Idle, Whole
  <1> QED
    BY <1>1, <1>2, <1>3, <1>4, <1>5, <1>6, <1>7
       DEF Next, set_profile, commit_if_pending

-----------------------------------------------------------------------------
(* Steps that give set_profile a profile: at boot and for a request.       *)

LEMMA PushFacts ==
  ASSUME SInv, NEW p \in Profiles, Push(p)
  PROVE  /\ IInv' /\ Past'
         /\ calls' = calls + 1 /\ calls \in Nat /\ calls' \in 0 .. MaxCalls
         /\ value' \in [0 .. MaxCalls -> Profiles]
         /\ value'[calls'] = p
         /\ \A n \in 0 .. calls : value'[n] = value[n]
         /\ (overlapped' => overlapped \/ ~Idle)
  <1>1. PickShadow /\ value' = [value EXCEPT ![calls + 1] = p]
    BY DEF Push
  <1>2. IInv' /\ Past'
    BY <1>1, StepInv, PastKept DEF SInv, Next, set_profile
  <1>3. calls \in 0 .. MaxCalls /\ calls' = calls + 1 /\ calls < MaxCalls
    BY <1>1 DEF SInv, IInv, TypeOK, PickShadow
  <1>4. calls' \in 0 .. MaxCalls /\ calls \in Nat
    BY <1>3, ProfileAssumption
  <1>5. value \in [0 .. MaxCalls -> Profiles]
    BY DEF SInv, ShellTypes
  <1>6. \A n \in 0 .. calls : n # calls + 1 /\ n \in 0 .. MaxCalls
    BY <1>3, ProfileAssumption
  <1>7. /\ value' \in [0 .. MaxCalls -> Profiles] /\ value'[calls'] = p
        /\ \A n \in 0 .. calls : value'[n] = value[n]
    BY <1>1, <1>3, <1>4, <1>5, <1>6
  <1>8. (overlapped' => overlapped \/ ~Idle)
    <2>1. tpc = "swap" <=> tpc # "idle"
      BY DEF SInv, IInv, TypeOK
    <2> QED
      BY <1>1, <2>1 DEF PickShadow, Idle
  <1> QED
    BY <1>2, <1>3, <1>4, <1>7, <1>8

LEMMA BootInv == SInv /\ Boot => SInv'
  <1> SUFFICES ASSUME SInv, Boot PROVE SInv'
    OBVIOUS
  <1>1. /\ pc = "boot" /\ pc' = "pushed" /\ _active_profile' = stored
        /\ Push(stored) /\ UNCHANGED <<job, answer, stored, acked, unsure>>
        /\ stored \in Profiles
    <2>1. sanitize_profile(stored) = stored /\ stored \in Profiles
      BY LegalIsKept DEF SInv, ShellTypes
    <2> QED
      BY <2>1 DEF Boot, store
  <1>2. /\ IInv' /\ Past' /\ calls' = 1 /\ ~overlapped'
        /\ value' \in [0 .. MaxCalls -> Profiles] /\ value'[1] = stored
    <2>1. calls = 0 /\ Idle /\ ~overlapped
      BY <1>1 DEF SInv, Booting
    <2>2. /\ IInv' /\ Past' /\ calls' = calls + 1
          /\ value' \in [0 .. MaxCalls -> Profiles]
          /\ value'[calls'] = stored
          /\ (overlapped' => overlapped \/ ~Idle)
      BY <1>1, PushFacts
    <2>3. calls' = 1
      BY <2>1, <2>2
    <2>4. ~overlapped'
      BY <2>1, <2>2, Zenon
    <2> QED
      BY <2>2, <2>3, <2>4
  <1>3. ShellTypes'
    BY <1>1, <1>2 DEF SInv, ShellTypes
  <1>4. Booting' /\ Looping' /\ Applying' /\ StoredIsAcked'
    BY <1>1 DEF SInv, Booting, Looping, Applying, StoredIsAcked
  <1>5. Pushed'
    BY <1>1, <1>2 DEF SInv, Pushed, StoredIsAcked
  <1>6. OneGeometry'
    BY <1>1, <1>2 DEF OneGeometry
  <1>7. AnswerNamesProfile'
    BY <1>1 DEF SInv, AnswerNamesProfile
  <1> QED
    BY <1>2, <1>3, <1>4, <1>5, <1>6, <1>7 DEF SInv

LEMMA RuntimeInv ==
  ASSUME SInv, pc = "loop", NEW mode \in Modes, NEW settings \in Asked,
         RuntimeRequest(Request(mode, settings))
  PROVE  SInv'
  <1> DEFINE r == Request(mode, settings)
  <1>1. /\ r \in [profile : Profiles, mode : Modes, flags : SUBSET Flags]
        /\ "RUNTIME_APPLIED" \notin r.flags
        /\ r.profile["geo"] = _active_profile["geo"]
    BY RequestIsLegal DEF RuntimeRequest, SInv, ShellTypes
  <1>2. /\ pc' = "apply" /\ job' = r /\ Push(r.profile)
        /\ UNCHANGED <<_active_profile, answer, stored, acked, unsure>>
    BY DEF RuntimeRequest, store
  <1> HIDE DEF r
  <1>3. r.profile \in Profiles
    BY <1>1
  <1>4. /\ IInv' /\ Past' /\ calls' = calls + 1 /\ calls \in Nat
        /\ value' \in [0 .. MaxCalls -> Profiles]
        /\ value'[calls'] = r.profile
        /\ \A n \in 1 .. calls : value'[n] = value[n]
    BY <1>2, <1>3, PushFacts
  <1>5. ShellTypes'
    BY <1>1, <1>2, <1>4 DEF SInv, ShellTypes
  <1>6. Booting' /\ Pushed' /\ Looping' /\ StoredIsAcked'
    BY <1>2 DEF SInv, Booting, Pushed, Looping, StoredIsAcked
  <1>7. Applying'
    BY <1>1, <1>2, <1>4 DEF Applying
  <1>8. OneGeometry'
    BY <1>1, <1>2, <1>4 DEF SInv, OneGeometry
  <1>9. AnswerNamesProfile'
    BY <1>2 DEF SInv, AnswerNamesProfile
  <1> QED
    BY <1>4, <1>5, <1>6, <1>7, <1>8, <1>9 DEF SInv

(* Steps of the hand-over under the shell, and of Core 1.                  *)
LEMMA HandOverInv == SInv /\ (Pushing \/ Tick) => SInv'
  <1> SUFFICES ASSUME SInv, Pushing \/ Tick PROVE SInv'
    OBVIOUS
  <1>1. /\ WriteField \/ SignalCommit \/ set_profile_crc16 \/ commit_if_pending
        /\ UNCHANGED <<pc, _active_profile, job, answer, stored, acked,
                       unsure, value>>
    BY DEF Pushing, Tick, shell, store
  <1>2. IInv' /\ Past'
    BY <1>1, StepInv, PastKept DEF SInv, Next, set_profile
  <1>3. calls' = calls /\ overlapped' = overlapped
    BY <1>1 DEF WriteField, SignalCommit, set_profile_crc16, StampCrc,
                commit_if_pending, ExchangePending, SwapIndex, core0
  <1>4. pc \in {"boot", "loop"} => spc' = "idle"
    BY <1>1 DEF SInv, Booting, Looping, WriteField, SignalCommit,
       set_profile_crc16, StampCrc, commit_if_pending, ExchangePending,
       SwapIndex, core0
  <1>5. pc = "boot" => Idle'
    BY <1>1 DEF SInv, Booting, Idle, WriteField, SignalCommit,
       set_profile_crc16, StampCrc, commit_if_pending, ExchangePending,
       SwapIndex, core0
  <1>6. ShellTypes' /\ StoredIsAcked' /\ AnswerNamesProfile'
    BY <1>1 DEF SInv, ShellTypes, StoredIsAcked, AnswerNamesProfile
  <1>7. Booting' /\ Looping'
    BY <1>1, <1>3, <1>4, <1>5 DEF SInv, Booting, Looping
  <1>8. Pushed' /\ Applying' /\ OneGeometry'
    BY <1>1, <1>3 DEF SInv, Pushed, Applying, OneGeometry
  <1> QED
    BY <1>2, <1>6, <1>7, <1>8 DEF SInv

-----------------------------------------------------------------------------
(* Steps of the shell alone.                                               *)

LEMMA VarsKept == SInv /\ UNCHANGED vars => IInv' /\ Past'
  BY StepInv, PastKept DEF SInv

LEMMA MainLoopInv == SInv /\ MainLoop => SInv'
  <1> SUFFICES ASSUME SInv, MainLoop PROVE SInv'
    OBVIOUS
  <1>1. /\ pc = "pushed" /\ spc = "idle" /\ pc' = "loop" /\ UNCHANGED vars
        /\ UNCHANGED <<_active_profile, job, answer, stored, acked, unsure, value>>
    BY DEF MainLoop, store
  <1>2. UNCHANGED <<calls, spc, overlapped>>
    BY <1>1 DEF vars, core0
  <1>3. IInv' /\ Past'
    BY <1>1, VarsKept
  <1>4. ShellTypes' /\ StoredIsAcked' /\ AnswerNamesProfile'
    BY <1>1 DEF SInv, ShellTypes, StoredIsAcked, AnswerNamesProfile
  <1>5. Booting' /\ Pushed' /\ Applying'
    BY <1>1 DEF Booting, Pushed, Applying
  <1>6. Looping' /\ OneGeometry'
    BY <1>1, <1>2 DEF SInv, Pushed, Looping, OneGeometry
  <1> QED
    BY <1>3, <1>4, <1>5, <1>6 DEF SInv

LEMMA AnswerType ==
  ASSUME SInv, NEW status \in {"OK", "REJECTED"}, NEW flags \in SUBSET Flags,
         Answer(status, flags)
  PROVE  /\ answer' \in [status : {"none", "OK", "REJECTED"}, flags : SUBSET Flags,
                         crc : 0 .. MaxCalls, about : 0 .. MaxCalls]
         /\ answer'.flags = flags /\ answer'.about = calls
         /\ answer'.crc = crc[active_idx]
  <1>1. crc[active_idx] \in 0 .. MaxCalls /\ calls \in 0 .. MaxCalls
    BY DEF SInv, IInv, TypeOK
  <1> QED
    BY <1>1 DEF Answer

LEMMA PersistFacts ==
  ASSUME SInv, NEW mode \in Modes, NEW p \in Profiles, NEW persisted \in BOOLEAN,
         Persist(mode, p, persisted)
  PROVE  /\ stored' \in Profiles /\ acked' \in Profiles /\ unsure' \in BOOLEAN
         /\ StoredIsAcked'
  <1>1. stored \in Profiles /\ acked \in Profiles /\ unsure \in BOOLEAN
        /\ StoredIsAcked
    BY DEF SInv, ShellTypes
  <1>2. CASE mode = "COMMIT" /\ persisted
    <2>1. stored' = p /\ acked' = p /\ unsure' = FALSE
      BY <1>2 DEF Persist, Saves
    <2> QED
      BY <2>1 DEF StoredIsAcked
  <1>3. CASE mode = "COMMIT" /\ ~persisted
    <2>1. stored' \in {stored, p} /\ acked' = acked /\ unsure' = TRUE
      BY <1>3 DEF Persist, Saves
    <2> QED
      BY <1>1, <2>1 DEF StoredIsAcked
  <1>4. CASE mode # "COMMIT"
    <2>1. stored' = stored /\ acked' = acked /\ unsure' = unsure
      BY <1>4 DEF Persist, store
    <2> QED
      BY <1>1, <2>1 DEF StoredIsAcked
  <1> QED
    BY <1>2, <1>3, <1>4

(* An answer in the loop that applies nothing.                             *)
LEMMA AnsweredInv ==
  ASSUME SInv, pc = "loop", NEW status \in {"OK", "REJECTED"},
         NEW flags \in SUBSET Flags, "RUNTIME_APPLIED" \notin flags,
         Answer(status, flags), stored' \in Profiles, acked' \in Profiles,
         unsure' \in BOOLEAN, StoredIsAcked', UNCHANGED vars,
         UNCHANGED <<pc, _active_profile, job, value>>
  PROVE  SInv'
  <1>1. UNCHANGED <<calls, spc, overlapped>>
    BY DEF vars, core0
  <1>2. IInv' /\ Past'
    BY VarsKept
  <1>3. ShellTypes'
    BY AnswerType DEF SInv, ShellTypes
  <1>4. AnswerNamesProfile'
    BY AnswerType DEF AnswerNamesProfile
  <1>5. Booting' /\ Pushed' /\ Applying'
    BY DEF Booting, Pushed, Applying
  <1>6. Looping' /\ OneGeometry'
    BY <1>1 DEF SInv, Looping, OneGeometry
  <1> QED
    BY <1>2, <1>3, <1>4, <1>5, <1>6 DEF SInv

LEMMA AppliedInv == SInv /\ Applied => SInv'
  <1> SUFFICES ASSUME SInv, Applied PROVE SInv'
    OBVIOUS
  <1>1. /\ pc = "apply" /\ spc = "idle" /\ pc' = "loop"
        /\ _active_profile' = job.profile /\ job' = NoJob
        /\ UNCHANGED vars /\ value' = value
    BY DEF Applied
  <1>2. PICK persisted \in BOOLEAN :
          /\ Persist(job.mode, job.profile, persisted)
          /\ Answer("OK", job.flags \cup Persisted(persisted) \cup {"RUNTIME_APPLIED"})
    BY DEF Applied
  <1>3. job.profile \in Profiles /\ job.mode \in Modes /\ job.flags \in SUBSET Flags
    BY DEF SInv, ShellTypes
  <1>4. job.flags \cup Persisted(persisted) \cup {"RUNTIME_APPLIED"} \in SUBSET Flags
    BY <1>3 DEF Persisted, Flags
  <1>5. /\ stored' \in Profiles /\ acked' \in Profiles /\ unsure' \in BOOLEAN
        /\ StoredIsAcked'
    BY <1>2, <1>3, PersistFacts
  <1>6. /\ answer' \in [status : {"none", "OK", "REJECTED"}, flags : SUBSET Flags,
                        crc : 0 .. MaxCalls, about : 0 .. MaxCalls]
        /\ answer'.about = calls /\ answer'.crc = crc[active_idx]
    BY <1>2, <1>4, AnswerType
  <1>7. UNCHANGED <<calls, spc, overlapped>>
    BY <1>1 DEF vars, core0
  <1>8. IInv' /\ Past'
    BY <1>1, VarsKept
  <1>9. ShellTypes'
    <2>1. NoJob \in [profile : Profiles, mode : Modes, flags : SUBSET Flags]
      BY DefaultIsLegal DEF NoJob, Modes
    <2> QED
      BY <1>1, <1>3, <1>5, <1>6, <2>1 DEF SInv, ShellTypes
  <1>10. AnswerNamesProfile'
    <2>1. crc[0] = installed /\ crc[1] = installed /\ installed = calls
      BY <1>1 DEF SInv, IInv, Numbers
    <2>2. active_idx \in {0, 1}
      BY DEF SInv, IInv, TypeOK, Shadows
    <2> QED
      BY <1>6, <2>1, <2>2 DEF AnswerNamesProfile
  <1>11. Booting' /\ Pushed' /\ Applying'
    BY <1>1 DEF Booting, Pushed, Applying
  <1>12. Looping' /\ OneGeometry'
    BY <1>1, <1>7 DEF SInv, Applying, Looping, OneGeometry
  <1> QED
    BY <1>5, <1>8, <1>9, <1>10, <1>11, <1>12 DEF SInv

LEMMA RequestInv == SInv /\ _handle_config_message => SInv'
  <1> SUFFICES ASSUME SInv, _handle_config_message PROVE SInv'
    OBVIOUS
  <1>1. CASE RejectRequest
    <2>1. /\ pc = "loop" /\ Answer("REJECTED", {"PARSE_ERROR"})
          /\ UNCHANGED vars /\ UNCHANGED <<pc, _active_profile, job, value>>
          /\ UNCHANGED <<stored, acked, unsure>>
      BY <1>1 DEF RejectRequest, store
    <2>2. /\ stored' \in Profiles /\ acked' \in Profiles /\ unsure' \in BOOLEAN
          /\ StoredIsAcked'
      BY <2>1 DEF SInv, ShellTypes, StoredIsAcked
    <2>3. {"PARSE_ERROR"} \in SUBSET Flags /\ "RUNTIME_APPLIED" \notin {"PARSE_ERROR"}
      BY DEF Flags
    <2> QED
      BY <2>1, <2>2, <2>3, AnsweredInv
  <1>2. ASSUME pc = "loop", NEW mode \in Modes, NEW settings \in Asked,
               LET r == Request(mode, settings)
               IN PreviewRequest(r) \/ GeometryRequest(r) \/ RuntimeRequest(r)
        PROVE  SInv'
    <2> DEFINE r == Request(mode, settings)
    <2>1. /\ r \in [profile : Profiles, mode : Modes, flags : SUBSET Flags]
          /\ r.mode = mode /\ "RUNTIME_APPLIED" \notin r.flags
      BY RequestIsLegal DEF SInv, ShellTypes
    <2>2. CASE RuntimeRequest(r)
      BY <1>2, <2>2, RuntimeInv
    <2> HIDE DEF r
    <2>3. CASE PreviewRequest(r)
      <3>1. /\ Answer("OK", r.flags) /\ UNCHANGED vars
            /\ UNCHANGED <<pc, _active_profile, job, value>>
            /\ UNCHANGED <<stored, acked, unsure>>
        BY <2>3 DEF PreviewRequest, store
      <3>2. /\ stored' \in Profiles /\ acked' \in Profiles
            /\ unsure' \in BOOLEAN /\ StoredIsAcked'
        BY <3>1 DEF SInv, ShellTypes, StoredIsAcked
      <3>3. r.flags \in SUBSET Flags
        BY <2>1
      <3> QED
        BY <1>2, <2>1, <3>1, <3>2, <3>3, AnsweredInv
    <2>4. CASE GeometryRequest(r)
      <3>1. PICK persisted \in BOOLEAN :
              /\ Persist(r.mode, r.profile, persisted)
              /\ Answer("OK", r.flags \cup Persisted(persisted)
                                \cup {"REBOOT_REQUIRED"})
        BY <2>4 DEF GeometryRequest
      <3>2. UNCHANGED vars /\ UNCHANGED <<pc, _active_profile, job, value>>
        BY <2>4 DEF GeometryRequest
      <3> DEFINE flags == r.flags \cup Persisted(persisted) \cup {"REBOOT_REQUIRED"}
      <3>3. flags \in SUBSET Flags /\ "RUNTIME_APPLIED" \notin flags
        <4>1. r.flags \in SUBSET Flags
          BY <2>1
        <4> QED
          BY <2>1, <4>1 DEF Flags, Persisted
      <3>4. Answer("OK", flags)
        BY <3>1
      <3>5. r.profile \in Profiles /\ r.mode \in Modes
        BY <2>1
      <3>6. /\ stored' \in Profiles /\ acked' \in Profiles
            /\ unsure' \in BOOLEAN /\ StoredIsAcked'
        BY <3>1, <3>5, PersistFacts
      <3> HIDE DEF flags
      <3> QED
        BY <1>2, <3>2, <3>3, <3>4, <3>6, AnsweredInv
    <2> QED
      BY <1>2, <2>2, <2>3, <2>4 DEF r
  <1>3. CASE Applied
    BY <1>3, AppliedInv
  <1>4. CASE SanitizeRaises
    <2>1. /\ pc = "loop" /\ pc' = "halted" /\ UNCHANGED vars
          /\ UNCHANGED <<_active_profile, job, answer, value>>
          /\ UNCHANGED <<stored, acked, unsure>>
      BY <1>4 DEF SanitizeRaises, store
    <2>2. calls' = calls
      BY <2>1 DEF vars, core0
    <2>3. IInv' /\ Past'
      BY <2>1, VarsKept DEF SInv
    <2> QED
      BY <2>1, <2>2, <2>3 DEF SInv, ShellTypes, Booting, Pushed, Looping,
         Applying, OneGeometry, StoredIsAcked, AnswerNamesProfile
  <1> QED
    BY <1>1, <1>2, <1>3, <1>4 DEF _handle_config_message

LEMMA PowerLostInv == SInv /\ PowerLost => SInv'
  <1> SUFFICES ASSUME SInv, PowerLost PROVE SInv'
    OBVIOUS
  <1>1. UNCHANGED <<stored, acked, unsure>>
    BY DEF PowerLost, store
  <1>2. IInv'
    <2>1. Init'
      BY DEF PowerLost, Init, Whole
    <2> QED
      BY <2>1, InitInv, PTL
  <1>3. Past'
    BY DEF PowerLost, Past, Idle, Whole
  <1>4. ShellTypes'
    <2>1. NoJob \in [profile : Profiles, mode : Modes, flags : SUBSET Flags]
      BY DefaultIsLegal DEF NoJob, Modes
    <2>2. NoAnswer \in [status : {"none", "OK", "REJECTED"}, flags : SUBSET Flags,
                        crc : 0 .. MaxCalls, about : 0 .. MaxCalls]
      BY ProfileAssumption DEF NoAnswer
    <2>3. /\ pc' = "boot" /\ job' = NoJob /\ answer' = NoAnswer
          /\ value' = [n \in 0 .. MaxCalls |-> Default]
          /\ _active_profile' = Default
      BY DEF PowerLost
    <2> QED
      BY <1>1, <2>1, <2>2, <2>3, DefaultIsLegal DEF SInv, ShellTypes
  <1>5. Booting' /\ Pushed' /\ Looping' /\ Applying' /\ OneGeometry'
    BY DEF PowerLost, Booting, Pushed, Looping, Applying, OneGeometry, Idle
  <1>6. StoredIsAcked'
    BY <1>1 DEF SInv, StoredIsAcked
  <1>7. AnswerNamesProfile'
    BY DEF PowerLost, AnswerNamesProfile, NoAnswer
  <1> QED
    BY <1>2, <1>3, <1>4, <1>5, <1>6, <1>7 DEF SInv

LEMMA ShellStep == SInv /\ [ShellNext]_svars => SInv'
  <1> SUFFICES ASSUME SInv, [ShellNext]_svars PROVE SInv'
    OBVIOUS
  <1>1. CASE ShellNext
    BY <1>1, BootInv, HandOverInv, MainLoopInv, RequestInv, PowerLostInv
       DEF ShellNext
  <1>2. CASE UNCHANGED svars
    <2>1. /\ UNCHANGED vars /\ UNCHANGED <<calls, spc, overlapped, tpc, pending_commit>>
          /\ UNCHANGED <<pc, _active_profile, job, answer, stored, acked,
                         unsure, value>>
      BY <1>2 DEF svars, vars, core0, shell, store
    <2>2. IInv' /\ Past'
      BY <2>1, VarsKept
    <2> QED
      BY <2>1, <2>2 DEF SInv, ShellTypes, Booting, Pushed, Looping, Applying,
         OneGeometry, StoredIsAcked, AnswerNamesProfile, Idle
  <1> QED
    BY <1>1, <1>2

LEMMA ShellInductive == ShellSpec => []SInv
  BY ShellInitInv, ShellStep, PTL DEF ShellSpec

-----------------------------------------------------------------------------
(* What follows from the invariant of the shell.                           *)

LEMMA LiveIsLast ==
  ASSUME SInv, ~overlapped, spc = "idle", tpc = "idle", ~pending_commit,
         calls >= 1
  PROVE  Live = value[calls]
  <1>1. shadow[active_idx] = Whole(calls)
    BY LastFromInv DEF SInv, IInv, LastSetIsLive, Numbers
  <1>2. calls \in 0 .. MaxCalls /\ value \in [0 .. MaxCalls -> Profiles]
    BY DEF SInv, IInv, TypeOK, ShellTypes
  <1>3. value[calls] = [f \in Fields |-> value[calls][f]]
    BY <1>2 DEF Profiles
  <1> QED
    BY <1>1, <1>3 DEF Live, Whole

(* Type correctness of the shell.                                          *)
THEOREM ShellTypeCorrect == ShellSpec => []ShellTypeOK
  <1>1. SInv => ShellTypeOK
    BY DEF SInv, IInv, ShellTypes, ShellTypeOK
  <1> QED
    BY ShellInductive, <1>1, PTL

(* The last profile set is live, under the shell too, across power cycles  *)
(* (main.py:200-241, ecu_native.c:143-239, ipc.c).                         *)
THEOREM LastIsLiveUnderShell == ShellSpec => []LastSetIsLive
  <1>1. SInv => LastSetIsLive
    BY LastFromInv DEF SInv
  <1> QED
    BY ShellInductive, <1>1, PTL

(* _active_profile is what the core runs, whenever nothing is on its way.  *)
THEOREM CoreAndShellAgree == ShellSpec => []CoreMatchesShell
  <1>1. SInv => CoreMatchesShell
    <2> SUFFICES ASSUME SInv, ~overlapped, pc = "loop", tpc = "idle", ~pending_commit
                 PROVE Live = _active_profile
      BY DEF CoreMatchesShell
    <2>1. calls >= 1 /\ spc = "idle" /\ value[calls] = _active_profile
      BY DEF SInv, Looping
    <2> QED
      BY <2>1, LiveIsLast
  <1> QED
    BY ShellInductive, <1>1, PTL

(* What was answered PERSISTED is what the next boot runs, for any number  *)
(* of requests, failed saves and power cycles.                             *)
THEOREM PersistedIsRun == ShellSpec => []PersistedRunsNext
  <1>1. SInv => PersistedRunsNext
    <2> SUFFICES ASSUME SInv, pc = "pushed", ~unsure, spc = "idle", tpc = "idle",
                        ~pending_commit
                 PROVE Live = acked
      BY DEF PersistedRunsNext
    <2>1. calls = 1 /\ ~overlapped /\ value[1] = acked
      BY DEF SInv, Pushed
    <2> QED
      BY <2>1, LiveIsLast
  <1> QED
    BY ShellInductive, <1>1, PTL

(* The CRC of an answer RUNTIME_APPLIED is that of the profile applied.    *)
THEOREM AnswersNameProfiles == ShellSpec => []AnswerNamesProfile
  <1>1. SInv => AnswerNamesProfile
    BY DEF SInv
  <1> QED
    BY ShellInductive, <1>1, PTL

(* Every step of the shell is one of the hand-over, or loses the power.    *)
LEMMA ShellSteps == [ShellNext]_svars => [Next]_vars \/ pc' = "boot"
  <1> SUFFICES ASSUME [ShellNext]_svars PROVE [Next]_vars \/ pc' = "boot"
    OBVIOUS
  <1>1. CASE Boot
    BY <1>1 DEF Boot, Push, Next, set_profile
  <1>2. CASE Pushing \/ Tick
    BY <1>2 DEF Pushing, Tick, Next, set_profile
  <1>3. CASE MainLoop
    BY <1>3 DEF MainLoop
  <1>4. CASE _handle_config_message
    BY <1>4 DEF _handle_config_message, RejectRequest, SanitizeRaises, PreviewRequest,
       GeometryRequest, RuntimeRequest, Applied, Push, Next, set_profile
  <1>5. CASE PowerLost
    BY <1>5 DEF PowerLost
  <1>6. CASE UNCHANGED svars
    BY <1>6 DEF svars
  <1> QED
    BY <1>1, <1>2, <1>3, <1>4, <1>5, <1>6 DEF ShellNext

(* The hand-over keeps ProfileContract under the shell, between two power  *)
(* cycles (ARCHITECTURE.md:397).                                           *)
THEOREM ShellImplementsContract == ShellSpec => CoreKeepsContract
  <1>1. SInv /\ [ShellNext]_svars
          => [Contract!PNext \/ overlapped' \/ pc' = "boot"]_(Contract!pvars)
    BY ShellSteps, ContractStep DEF SInv
  <1> QED
    BY ShellInductive, <1>1, PTL DEF ShellSpec, CoreKeepsContract

-----------------------------------------------------------------------------
(* The geometry of the core.                                               *)

LEMMA PushKeepsLive ==
  ASSUME SInv, NEW p \in Profiles, Push(p)
  PROVE  Live'["geo"] = Live["geo"]
  <1>1. shadow' = shadow /\ active_idx' = active_idx
    BY DEF Push, PickShadow
  <1>2. "geo" \in Fields
    BY ShellAssumption
  <1>3. active_idx \in Shadows
    BY DEF SInv, IInv, TypeOK
  <1>4. shadow[active_idx]["geo"] \in 0 .. calls
    BY <1>2, <1>3 DEF SInv, Past
  <1>5. value'[shadow[active_idx]["geo"]] = value[shadow[active_idx]["geo"]]
    BY <1>4, PushFacts
  <1> QED
    BY <1>1, <1>2, <1>5 DEF Live

LEMMA LiveKept ==
  ASSUME shadow'[active_idx'] = shadow[active_idx], value' = value
  PROVE  Live'["geo"] = Live["geo"]
  BY DEF Live

LEMMA SwapKeepsGeometry ==
  ASSUME SInv, SwapIndex, value' = value, ~overlapped, installed # 1
  PROVE  Live'["geo"] = Live["geo"]
  <1>1. tpc = "swap" /\ active_idx' = 1 - active_idx /\ shadow' = shadow
    BY DEF SwapIndex
  <1>2. "geo" \in Fields /\ calls \in Nat /\ installed \in Nat
    BY ShellAssumption, ProfileAssumption DEF SInv, IInv, TypeOK
  <1>3. /\ installed >= 1 /\ shadow[active_idx] = Whole(installed - 1)
        /\ shadow[1 - active_idx] = Whole(installed)
    BY <1>1 DEF SInv, IInv, Past, Buffers, Idle
  <1>4. installed <= calls
    BY <1>2 DEF SInv, IInv, Numbers
  <1>5. installed \in 1 .. calls /\ installed - 1 \in 1 .. calls
    BY <1>2, <1>3, <1>4
  <1>6. pc # "boot"
    BY <1>1 DEF SInv, Booting, Idle
  <1>7. value[installed]["geo"] = value[installed - 1]["geo"]
    BY <1>5, <1>6 DEF SInv, OneGeometry
  <1>8. Live["geo"] = value[installed - 1]["geo"]
    BY <1>2, <1>3 DEF Live, Whole
  <1>9. Live'["geo"] = value[installed]["geo"]
    BY <1>1, <1>2, <1>3 DEF Live, Whole
  <1> QED
    BY <1>7, <1>8, <1>9

(* Within a boot the core's geometry changes once, to the stored one: no   *)
(* request changes it (main.py:222-230).                                   *)
THEOREM GeometryIsFixedInBoot == ShellSpec => CoreGeometryFixed
  <1>1. SInv /\ [ShellNext]_svars
          => [Live'["geo"] # Live["geo"] =>
                overlapped \/ installed = 1 \/ pc' = "boot"]_svars
    <2> SUFFICES ASSUME SInv, ShellNext, ~overlapped, installed # 1, pc' # "boot"
                 PROVE Live'["geo"] = Live["geo"]
      BY DEF svars
    <2>1. CASE Boot
      <3>1. sanitize_profile(stored) \in Profiles
        BY LegalIsKept DEF SInv, ShellTypes
      <3> QED
        BY <2>1, <3>1, PushKeepsLive DEF Boot
    <2>2. CASE Pushing
      <3>1. value' = value
        BY <2>2 DEF Pushing
      <3>2. shadow'[active_idx'] = shadow[active_idx]
        <4>1. CASE WriteField
          <5>1. target = 1 - active_idx /\ active_idx' = active_idx
            BY <4>1 DEF WriteField, SInv, IInv, Buffers
          <5> QED
            BY <4>1, <5>1, OtherShadow DEF WriteField, SInv, IInv, TypeOK
        <4>2. CASE SignalCommit
          BY <4>2 DEF SignalCommit
        <4>3. CASE set_profile_crc16
          BY <4>3 DEF set_profile_crc16, StampCrc
        <4> QED
          BY <2>2, <4>1, <4>2, <4>3 DEF Pushing
      <3> QED
        BY <3>1, <3>2, LiveKept
    <2>3. CASE MainLoop
      BY <2>3, LiveKept DEF MainLoop, vars
    <2>4. CASE _handle_config_message
      <3>1. CASE RejectRequest \/ SanitizeRaises \/ Applied
        BY <3>1, LiveKept DEF RejectRequest, SanitizeRaises, Applied, vars
      <3>2. ASSUME NEW mode \in Modes, NEW settings \in Asked,
                   LET r == Request(mode, settings)
                   IN PreviewRequest(r) \/ GeometryRequest(r) \/ RuntimeRequest(r)
            PROVE  Live'["geo"] = Live["geo"]
        <4> DEFINE r == Request(mode, settings)
        <4>1. r.profile \in Profiles
          BY RequestIsLegal DEF SInv, ShellTypes
        <4> HIDE DEF r
        <4>2. CASE PreviewRequest(r) \/ GeometryRequest(r)
          BY <4>2, LiveKept DEF PreviewRequest, GeometryRequest, vars
        <4>3. CASE RuntimeRequest(r)
          BY <4>1, <4>3, PushKeepsLive DEF RuntimeRequest
        <4> QED
          BY <3>2, <4>2, <4>3 DEF r
      <3> QED
        BY <2>4, <3>1, <3>2 DEF _handle_config_message
    <2>5. CASE Tick
      <3>1. value' = value
        BY <2>5 DEF Tick
      <3>2. CASE ExchangePending
        BY <3>1, <3>2, LiveKept DEF ExchangePending
      <3>3. CASE SwapIndex
        BY <3>1, <3>3, SwapKeepsGeometry
      <3> QED
        BY <2>5, <3>2, <3>3 DEF Tick, commit_if_pending
    <2> QED
      BY <2>1, <2>2, <2>3, <2>4, <2>5 DEF ShellNext, PowerLost
  <1> QED
    BY ShellInductive, <1>1, PTL DEF ShellSpec, CoreGeometryFixed
=============================================================================
