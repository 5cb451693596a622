------------------------------ MODULE MCShellV2 ------------------------------
(***************************************************************************)
(* ShellV2 for TLC.                                                        *)
(***************************************************************************)
EXTENDS ShellV2

Setting(g, m) == [f \in Fields |-> IF f = "geo" THEN g ELSE m]

(* The maps only, the geometry only, and both with one out of range.       *)
MCAsked == {Setting(Keep, 2), Setting(2, Keep), Setting(1, Top + 1)}
==============================================================================
