----------------------------- MODULE SecureTopic -----------------------------
(***************************************************************************)
(* What the data plane promises for one topic and one subscriber, without  *)
(* keys, nonces, counters, windows or messages of key retrieval: the topic *)
(* opens epochs one after another, a message is published in an epoch that *)
(* is open, and a subscriber that has joined an epoch is handed messages   *)
(* of that epoch only, each at most once until it starts afresh, in        *)
(* whatever order and however often it changes between epochs.             *)
(***************************************************************************)
EXTENDS Integers

CONSTANTS Messages,  \* records with an epoch
          Epochs,
          NoEpoch

VARIABLES opened,     \* the epochs the topic has been in
          published,  \* messages
          joined,     \* the epoch the subscriber has the key of, or NoEpoch
          handed      \* handed[m]: how often the subscriber was handed m

vars == <<opened, published, joined, handed>>

Init == /\ opened = {} /\ published = {}
        /\ joined = NoEpoch
        /\ handed = [m \in {} |-> 0]

Open(e) == /\ opened' = opened \cup {e}
           /\ UNCHANGED <<published, joined, handed>>

Publish(m) == /\ m \notin published /\ m.epoch \in opened
              /\ published' = published \cup {m}
              /\ handed' = [n \in published' |-> IF n = m THEN 0 ELSE handed[n]]
              /\ UNCHANGED <<opened, joined>>

Join(e) == /\ e \in opened
           /\ joined' = e
           /\ UNCHANGED <<opened, published, handed>>

Hand(m) == /\ m \in published /\ m.epoch = joined /\ handed[m] = 0
           /\ handed' = [handed EXCEPT ![m] = 1]
           /\ UNCHANGED <<opened, published, joined>>

StartAfresh == /\ joined' = NoEpoch
               /\ handed' = [m \in published |-> 0]
               /\ UNCHANGED <<opened, published>>

Next == \/ \E e \in Epochs : Open(e) \/ Join(e)
        \/ \E m \in Messages : Publish(m) \/ Hand(m)
        \/ StartAfresh

Spec == Init /\ [][Next]_vars
=============================================================================
