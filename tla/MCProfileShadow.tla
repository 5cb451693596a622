-------------------------- MODULE MCProfileShadow --------------------------
(***************************************************************************)
(* ProfileShadow for TLC.  The fields are interchangeable.  Once the calls *)
(* are used up and the last is live, nothing is left to do.                *)
(***************************************************************************)
EXTENDS ProfileShadow, TLC

FieldSymmetry == Permutations(Fields)
============================================================================
