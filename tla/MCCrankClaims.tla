--------------------------- MODULE MCCrankClaims ---------------------------
(***************************************************************************)
(* CrankClaims for TLC.                                                    *)
(***************************************************************************)
EXTENDS CrankClaims
=============================================================================
