------------------------ MODULE MCTelemetrySeqlock -------------------------
(***************************************************************************)
(* TelemetrySeqlock for TLC.  The fields are interchangeable.              *)
(***************************************************************************)
EXTENDS TelemetrySeqlock, TLC

FieldSymmetry == Permutations(Fields)
=============================================================================
