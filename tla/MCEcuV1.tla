------------------------------ MODULE MCEcuV1 ------------------------------
(***************************************************************************)
(* EcuV1 for TLC.                                                          *)
(***************************************************************************)
EXTENDS EcuV1
=============================================================================
