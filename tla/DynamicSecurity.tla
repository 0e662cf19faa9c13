--------------------------- MODULE DynamicSecurity ---------------------------
(***************************************************************************)
(* class DynamicSecurityManager of src/protocol/phase6_update.py: the      *)
(* levels of the managed topics, lowered and raised by calls that go       *)
(* through all topics in an order the heuristic gives, and the record of   *)
(* the time spent at each level that WASS is computed from.                *)
(*                                                                         *)
(* WASS weighs each level by its total time, so level_history is the       *)
(* function from levels to total recorded time.  The clock stands still    *)
(* while a call goes through the topics.  epoch_id is stored and neither   *)
(* read nor changed, and is left out; resource_pressure is never read.     *)
(*                                                                         *)
(* spent, the time a topic really was at each level since it was           *)
(* registered, finalized, and last, the last call, are history.            *)
(***************************************************************************)
EXTENDS SecurityLevels, FiniteSets, Sequences, SequencesExt

CONSTANTS Topics,
          Registrations,  \* records [priority, min, max, level] of register_topic
          MaxTime         \* where the clock stops

ASSUME RegistrationAssumption ==
  \A r \in Registrations : /\ r.priority \in Priorities
                           /\ {r.min, r.max} \subseteq Levels
                           /\ r.level \in r.min..r.max

ASSUME TimeAssumption == MaxTime \in Nat

VARIABLES heuristic,  \* "HPD-HPU" or "LPD-LPU"
          order,      \* the keys of _topics, in dictionary order
          topics,     \* _topics: topic -> TopicSecurityState, a partial map
          now,        \* time.monotonic()
          spent, finalized, last

vars == <<heuristic, order, topics, now, spent, finalized, last>>

NoTime == [l \in Levels |-> 0]
NoCall == [op |-> "none", changes |-> <<>>]

Init == /\ heuristic \in {"HPD-HPU", "LPD-LPU"}
        /\ order = <<>>
        /\ topics = [t \in {} |-> 0]
        /\ now = 0
        /\ spent = [t \in Topics |-> NoTime]
        /\ finalized = {}
        /\ last = NoCall

Tick == /\ now < MaxTime
        /\ now' = now + 1
        /\ spent' = [t \in Topics |->
             IF t \in DOMAIN topics
             THEN [spent[t] EXCEPT ![topics[t].level] = @ + 1] ELSE spent[t]]
        /\ last' = NoCall
        /\ UNCHANGED <<heuristic, order, topics, finalized>>

\* The history with the time since the last change added at the present level.
WithSegment(state) ==
  [state.history EXCEPT ![state.level] = @ + now - state.since]

\* get_wass: 0.0 also for a topic that is not registered.
GetWass(t) == IF t \in DOMAIN topics
              THEN WeightedAverageSecurityScore(DefaultWeights, WithSegment(topics[t]))
              ELSE Zero

\* A faulty variant of RegisterTopic: a topic that is registered again keeps its
\* history.
RegisterTopicKeepsHistory(t, r) ==
  /\ order' = IF t \in DOMAIN topics THEN order ELSE Append(order, t)
  /\ topics' = [u \in DOMAIN topics \cup {t} |->
       IF u # t THEN topics[u]
       ELSE [priority |-> r.priority, min |-> r.min, max |-> r.max, level |-> r.level,
             history |-> IF t \in DOMAIN topics THEN WithSegment(topics[t]) ELSE NoTime,
             since |-> now]]
  /\ spent' = [spent EXCEPT ![t] = NoTime]
  /\ finalized' = finalized \ {t}
  /\ last' = NoCall
  /\ UNCHANGED <<heuristic, now>>

\* register_topic: a topic that is registered again starts afresh and keeps its
\* place in the dictionary.
RegisterTopic(t, r) ==
  /\ order' = IF t \in DOMAIN topics THEN order ELSE Append(order, t)
  /\ topics' = [u \in DOMAIN topics \cup {t} |->
       IF u # t THEN topics[u]
       ELSE [priority |-> r.priority, min |-> r.min, max |-> r.max,
             level |-> r.level, history |-> NoTime, since |-> now]]
  /\ spent' = [spent EXCEPT ![t] = NoTime]
  /\ finalized' = finalized \ {t}
  /\ last' = NoCall
  /\ UNCHANGED <<heuristic, now>>

\* A faulty variant of RecordLevelChange: the time goes to the new level.
RecordLevelChangeAfter(state, level) ==
  [state EXCEPT !.history = [@ EXCEPT ![level] = @ + now - state.since],
                !.level = level, !.since = now]

\* record_level_change.
RecordLevelChange(state, level) ==
  [state EXCEPT !.history = WithSegment(state), !.level = level, !.since = now]

\* The heuristic puts t strictly in front of u.
Before(t, u) == IF heuristic = "HPD-HPU"
                THEN topics[t].priority > topics[u].priority
                ELSE topics[t].priority < topics[u].priority

Place(t) == CHOOSE i \in DOMAIN order : order[i] = t

\* sorted() by priority, which keeps topics of one priority in dictionary order
\* with reverse as well.
Sorted(S) == SetToSortSeq(S, LAMBDA t, u : \/ Before(t, u)
                                           \/ ~Before(u, t) /\ Place(t) < Place(u))

\* A faulty variant of ChangeLevels: the old level is read after the change.
ChangeLevelsThenRead(op, S, to) ==
  /\ topics' = [t \in DOMAIN topics |->
       IF t \in S THEN RecordLevelChange(topics[t], to[t]) ELSE topics[t]]
  /\ last' = [op |-> op,
              changes |-> [i \in 1..Len(Sorted(S)) |->
                 LET t == Sorted(S)[i]
                 IN [topic |-> t, old |-> to[t], new |-> to[t]]]]
  /\ UNCHANGED <<heuristic, order, now, spent, finalized>>

\* Every topic of S gets the level to[t]; the call returns what has changed.
ChangeLevels(op, S, to) ==
  /\ topics' = [t \in DOMAIN topics |->
       IF t \in S THEN RecordLevelChange(topics[t], to[t]) ELSE topics[t]]
  /\ last' = [op |-> op,
              changes |-> [i \in 1..Len(Sorted(S)) |->
                 LET t == Sorted(S)[i]
                 IN [topic |-> t, old |-> topics[t].level, new |-> to[t]]]]
  /\ UNCHANGED <<heuristic, order, now, spent, finalized>>

TriggerDowngrade ==
  LET S == {t \in DOMAIN topics : topics[t].level > topics[t].min}
  IN ChangeLevels("downgrade", S, [t \in S |-> topics[t].level - 1])

\* A faulty variant of TriggerUpgrade: the bound is the wrong one.
TriggerUpgradeUnbounded ==
  LET S == {t \in DOMAIN topics : topics[t].level > topics[t].min}
  IN ChangeLevels("upgrade", S, [t \in S |-> topics[t].level + 1])

TriggerUpgrade ==
  LET S == {t \in DOMAIN topics : topics[t].level < topics[t].max}
  IN ChangeLevels("upgrade", S, [t \in S |-> topics[t].level + 1])

\* finalize_all: the present segment goes into the history, and the time of the
\* last change stays what it was.
FinalizeAll ==
  /\ topics' = [t \in DOMAIN topics |->
       [topics[t] EXCEPT !.history = WithSegment(topics[t])]]
  /\ finalized' = finalized \cup DOMAIN topics
  /\ last' = NoCall
  /\ UNCHANGED <<heuristic, order, now, spent>>

Next == \/ Tick
        \/ \E t \in Topics, r \in Registrations : RegisterTopic(t, r)
        \/ TriggerDowngrade
        \/ TriggerUpgrade
        \/ FinalizeAll

Spec == Init /\ [][Next]_vars

------------------------------------------------------------------------------
States == [priority : Nat, min : Levels, max : Levels, level : Levels,
           history : [Levels -> Nat], since : 0..MaxTime]

\* The manager's table has its type and every topic stays in its range.
TypeOK == /\ DOMAIN topics \subseteq Topics
          /\ topics \in [DOMAIN topics -> States]
          /\ \A t \in DOMAIN topics : topics[t].level \in topics[t].min..topics[t].max
          /\ ToSet(order) = DOMAIN topics /\ Len(order) = Cardinality(ToSet(order))
          /\ spent \in [Topics -> [Levels -> Nat]]

\* What get_wass weighs is the time each topic really spent at each level since
\* it was registered, over any run of downgrades, upgrades, calls that change
\* nothing for it, and registrations, as long as it is not finalized.
WassCountsTimeSpent ==
  \A t \in DOMAIN topics \ finalized : WithSegment(topics[t]) = spent[t]

\* The same with no exception: finalize_history records the "final segment",
\* and get_wass is to "include current segment" once.
WassCountsTimeOnce ==
  \A t \in DOMAIN topics : WithSegment(topics[t]) = spent[t]

\* Once a topic has spent time since it was registered, its score lies between the
\* scores of its lowest and its highest level, whatever calls came before: a
\* registration with other levels starts the average afresh, and even the time
\* finalize_all counts twice was spent inside the range.  Until then get_wass
\* returns 0.0, which is below the score of the lowest level.
WassWithinRange ==
  \A t \in Topics :
    LET wass == GetWass(t)
    IN IF t \in DOMAIN topics /\ TotalTime(spent[t]) > 0
       THEN /\ Score(DefaultWeights, topics[t].min) * wass.den <= wass.num
            /\ wass.num <= Score(DefaultWeights, topics[t].max) * wass.den
       ELSE wass.num = 0

\* A call returns each topic whose level it changed, exactly once, with the old
\* and the new level, the topics that go first under the heuristic in front,
\* and nothing for the others.
ReturnsWhatChanged ==
  [][last'.op # "none" =>
       LET changes == last'.changes
           changed == {t \in DOMAIN topics : topics'[t].level # topics[t].level}
       IN /\ Len(changes) = Cardinality(changed)
          /\ {c.topic : c \in ToSet(changes)} = changed
          /\ \A i \in DOMAIN changes :
               /\ changes[i].old = topics[changes[i].topic].level
               /\ changes[i].new = topics'[changes[i].topic].level
               /\ \A j \in 1..i - 1 : ~Before(changes[i].topic, changes[j].topic)]_vars
=============================================================================
