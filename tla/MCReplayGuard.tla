---------------------------- MODULE MCReplayGuard ----------------------------
(***************************************************************************)
(* Two keys (two publishers in one epoch) and counters up to beyond the    *)
(* window, so that the highest counter can jump inside the window, exactly *)
(* to its edge and past it, and several times in a row.  The publishers    *)
(* are interchangeable.                                                    *)
(***************************************************************************)
EXTENDS ReplayGuard, TLC

Symmetry == Permutations(PublisherIds)
=============================================================================
