---------------------------- MODULE MCProvisioning ----------------------------
(***************************************************************************)
(* Topic names of two lengths, one a prefix of the other; requests of      *)
(* every priority for ranges inside, across, beside and inside out of the  *)
(* allowed one; an empty payload and one of two bytes.                     *)
(***************************************************************************)
EXTENDS Provisioning

TwoTopics == {<<31>>, <<31, 32>>}
AllRequests == [priority : Priorities, level_min : 0..5, level_max : 0..5]
TwoPayloads == {<<>>, <<61, 62>>}
TwoEpochs == {1, EpochSpan - 1}
LastId == {IdSpan - 2}
Text == <<71, 72, 73>>
=============================================================================
