------------------------------ MODULE MCDashLink ------------------------------
(***************************************************************************)
(* DashLink for TLC.                                                       *)
(***************************************************************************)
EXTENDS DashLink
==============================================================================
