----------------------------- MODULE MCFaultRing -----------------------------
(***************************************************************************)
(* FaultRing for TLC.  The kinds of fault raised at a level are            *)
(* interchangeable.                                                        *)
(***************************************************************************)
EXTENDS FaultRing, TLC

FaultSymmetry == Permutations(TickFaults) \cup Permutations(IsrFaults)
==============================================================================
