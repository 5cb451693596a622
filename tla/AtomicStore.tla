----------------------------- MODULE AtomicStore -----------------------------
(***************************************************************************)
(* What keeping two files promises: the profile a boot finds is replaced   *)
(* in one step, and only by the one that was last to be saved.             *)
(***************************************************************************)
EXTENDS Naturals

VARIABLES stored,   (* the profile a boot would find now                     *)
          asked     (* the profile last to be saved                          *)

svars == <<stored, asked>>

SInit == stored = 0 /\ asked = 0

Save  == asked' = asked + 1 /\ UNCHANGED stored
Store == stored' = asked /\ UNCHANGED asked

SNext == Save \/ Store
SSpec == SInit /\ [][SNext]_svars
==============================================================================
