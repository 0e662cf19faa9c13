-------------------------- MODULE MCDynamicSecurity --------------------------
(***************************************************************************)
(* Registrations of two priorities: the range of the table for LOW, a      *)
(* wider range a caller may ask for, and the range for HIGH.  There are at *)
(* most MaxRegistrations calls of register_topic, and finalize_all is      *)
(* called only while no registered topic has been finalized: a second call *)
(* would add the present segment once more, and so on without end.         *)
(***************************************************************************)
EXTENDS DynamicSecurity, TLC

CONSTANT MaxRegistrations

VARIABLE registrations  \* register_topic calls so far

Cases == {[priority |-> 1, min |-> 1, max |-> 2, level |-> 2],
          [priority |-> 1, min |-> 1, max |-> 3, level |-> 2],
          [priority |-> 3, min |-> 3, max |-> 4, level |-> 4]}

MCInit == Init /\ registrations = 0

MCNext ==
  \/ Tick /\ UNCHANGED registrations
  \/ \E t \in Topics, r \in Registrations :
       /\ registrations < MaxRegistrations
       /\ registrations' = registrations + 1
       /\ RegisterTopic(t, r)
  \/ TriggerDowngrade /\ UNCHANGED registrations
  \/ TriggerUpgrade /\ UNCHANGED registrations
  \/ finalized = {} /\ FinalizeAll /\ UNCHANGED registrations

MCSpec == MCInit /\ [][MCNext]_<<vars, registrations>>

Symmetry == Permutations(Topics)
=============================================================================
