-------------------------- MODULE IgnitionContract --------------------------
(***************************************************************************)
(* What the ignition path promises the engine, without alarms, flags or    *)
(* interrupt levels: every reference edge is worth at most one spark, and  *)
(* the coil is charged only while ignition is enabled.                     *)
(***************************************************************************)
EXTENDS Naturals

VARIABLES references,  (* reference edges seen                               *)
          sparked,     (* which of them have had their spark                 *)
          coil,        (* the coil is charging                               *)
          enabled      (* the mode allows ignition                           *)

contractVars == <<references, sparked, coil, enabled>>

CInit == references = 0 /\ sparked = {} /\ coil = FALSE /\ enabled = FALSE

(* A reference edge arrives; a failed arming may force the coil off.       *)
Reference == /\ references' = references + 1
             /\ coil' \in {coil, FALSE}
             /\ UNCHANGED <<sparked, enabled>>

Charge   == enabled /\ coil' = TRUE /\ UNCHANGED <<references, sparked, enabled>>
Collapse == coil' = FALSE /\ UNCHANGED <<references, sparked, enabled>>

(* A spark is counted for one reference edge, with the coil collapsed.     *)
Spark == /\ ~coil
         /\ \E c \in (1 .. references) \ sparked : sparked' = sparked \cup {c}
         /\ UNCHANGED <<references, coil, enabled>>

Enable == enabled' \in BOOLEAN /\ UNCHANGED <<references, sparked, coil>>

CNext == Reference \/ Charge \/ Collapse \/ Spark \/ Enable

CSpec == CInit /\ [][CNext]_contractVars
=============================================================================
