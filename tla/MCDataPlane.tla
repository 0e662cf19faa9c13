----------------------------- MODULE MCDataPlane -----------------------------
(***************************************************************************)
(* The instances of DataPlane: the configurations choose how many          *)
(* rotations, counters, reboots and faults there are.                      *)
(***************************************************************************)
EXTENDS DataPlane
=============================================================================
