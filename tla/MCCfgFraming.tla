---------------------------- MODULE MCCfgFraming -----------------------------
(***************************************************************************)
(* CfgFraming for TLC, with bytes of few values.                           *)
(***************************************************************************)
EXTENDS CfgFraming
==============================================================================
