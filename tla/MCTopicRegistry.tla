--------------------------- MODULE MCTopicRegistry ---------------------------
(***************************************************************************)
(* Two topics, a range that includes the unsecured level 0 and one that    *)
(* does not, three epochs starting at the second (so that the epoch id     *)
(* wraps at the second rotation) and two assignable publisher ids (so that *)
(* the id space runs out, also while an association is being replaced).    *)
(***************************************************************************)
EXTENDS TopicRegistry

CONSTANTS MaxObjects,     \* dictionaries created
          MaxPublisherId  \* where the id counter stops moving

Ranges == {<<0, 1>>, <<1, 2>>}

MCNext ==
  \/ CreateRaises /\ nextPublisherId <= MaxPublisherId
  \/ \E t \in Topics : Create(t) /\ objects < MaxObjects
  \/ \E t \in Topics : RotateEpoch(t)
  \/ \E t \in Topics : GetSubscriberContext(t) /\ objects < MaxObjects

MCSpec == Init /\ [][MCNext]_vars
=============================================================================
