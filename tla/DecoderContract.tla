--------------------------- MODULE DecoderContract ---------------------------
(***************************************************************************)
(* What the ignition scheduler takes for granted about the crank decoder:  *)
(* a reference edge comes with a known tooth period, and the mode leaves   *)
(* INHIBIT only in a tick that found the period known.                     *)
(***************************************************************************)
EXTENDS Naturals

VARIABLES known,      (* a tooth period is known                             *)
          reference,  (* flips with every reference edge                     *)
          mode        (* the ignition mode                                   *)

decoderVars == <<known, reference, mode>>

DInit == known = FALSE /\ reference = 0 /\ mode = "INHIBIT"

(* An accepted edge, a reference or not.                                   *)
Edge == known' = TRUE /\ reference' \in {0, 1} /\ UNCHANGED mode

Promote == known /\ mode' \in {"SAFE", "PRECISION"} /\ UNCHANGED <<known, reference>>
Inhibit == mode' = "INHIBIT" /\ UNCHANGED <<known, reference>>
Forget  == known' = FALSE /\ UNCHANGED <<reference, mode>>

DSpec == DInit /\ [][Edge \/ Promote \/ Inhibit \/ Forget]_decoderVars
=============================================================================
