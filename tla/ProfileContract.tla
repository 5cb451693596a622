--------------------------- MODULE ProfileContract ---------------------------
(***************************************************************************)
(* What ecu.set_profile promises the real-time core: the profile in force  *)
(* changes in one step, and only to the one asked for last.                *)
(***************************************************************************)
EXTENDS Naturals

VARIABLES live,     (* the profile the real-time core reads                  *)
          wanted    (* the profile asked for last                            *)

pvars == <<live, wanted>>

PInit == live = wanted

Ask     == wanted' # wanted /\ UNCHANGED live
Install == live' = wanted /\ UNCHANGED wanted

PNext == Ask \/ Install
PSpec == PInit /\ [][PNext]_pvars
==============================================================================
