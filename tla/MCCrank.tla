------------------------------ MODULE MCCrank ------------------------------
(***************************************************************************)
(* Crank for TLC.                                                          *)
(***************************************************************************)
EXTENDS Crank
=============================================================================
