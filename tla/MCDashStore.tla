------------------------------ MODULE MCDashStore -----------------------------
(***************************************************************************)
(* DashStore for TLC.                                                      *)
(***************************************************************************)
EXTENDS DashStore
==============================================================================
