------------------------------ MODULE MCConfigV1 ------------------------------
(***************************************************************************)
(* ConfigV1 for TLC.                                                       *)
(***************************************************************************)
EXTENDS ConfigV1

Setting(g, m) == [k \in Keys |-> IF k = "geo" THEN g ELSE m]

(* The maps only, the geometry only, and both with one out of range.       *)
MCAsked == {Setting(Keep, 2), Setting(2, Keep), Setting(1, Top + 1)}
==============================================================================
