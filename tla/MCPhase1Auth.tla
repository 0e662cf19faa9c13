---------------------------- MODULE MCPhase1Auth ----------------------------
(***************************************************************************)
(* Two clients with two requests each, and two answers to every request:   *)
(* a retry while the first request is still in flight, a duplicated        *)
(* request, a late response and a response to the other client all happen. *)
(***************************************************************************)
EXTENDS Phase1Auth
=============================================================================
