------------------------------ MODULE MCDashMenu ------------------------------
(***************************************************************************)
(* DashMenu for TLC: one button at a time, or UP and DOWN together (the    *)
(* graph pauses).                                                          *)
(***************************************************************************)
EXTENDS DashMenu

MCHands == {{}, {"OK"}, {"UP"}, {"DOWN"}, {"LEFT"}, {"RIGHT"}, {"UP", "DOWN"}}
==============================================================================
