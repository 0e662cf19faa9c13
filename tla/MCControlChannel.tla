--------------------------- MODULE MCControlChannel ---------------------------
(***************************************************************************)
(* Three threads share an end that has three numbers (the last one never   *)
(* used) and three sessions.  A second end has its own key and counter and *)
(* cannot meet the first: one is enough.                                   *)
(***************************************************************************)
EXTENDS ControlChannel, TLC

Symmetry == Permutations(Threads)
=============================================================================
