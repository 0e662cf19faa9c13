------------------------ MODULE DynamicSecurityProofs ------------------------
(***************************************************************************)
(* Proofs about DynamicSecurity for any topics, registrations and runs.    *)
(*                                                                         *)
(* The time recorded and the time since the last change can be compared    *)
(* with the time spent only if the last change is not in the future, and   *)
(* the average score stays in the topic's range because a history has      *)
(* time at levels of that range only.                                      *)
(***************************************************************************)
EXTENDS DynamicSecurity, FiniteSetTheorems, TLAPS

ClockRuns == /\ now \in 0..MaxTime
             /\ \A t \in DOMAIN topics : topics[t].since <= now

Ordered == /\ order \in Seq(Topics) /\ IsFiniteSet(DOMAIN topics)
           /\ ToSet(order) = DOMAIN topics /\ Len(order) = Cardinality(DOMAIN topics)

Table == /\ DOMAIN topics \subseteq Topics
         /\ topics \in [DOMAIN topics -> States]
         /\ \A t \in DOMAIN topics : topics[t].level \in topics[t].min..topics[t].max
         /\ spent \in [Topics -> [Levels -> Nat]]

\* Time was recorded only at levels of the range.
HistoryInRange ==
  \A t \in DOMAIN topics : \A l \in Levels :
     topics[t].history[l] # 0 => l \in topics[t].min..topics[t].max

IInv == Table /\ Ordered /\ ClockRuns /\ HistoryInRange /\ WassCountsTimeSpent

------------------------------------------------------------------------------
\* The fields of a topic's state.
LEMMA StateFacts ==
  ASSUME NEW s \in States
  PROVE  /\ s.priority \in Nat /\ s.min \in Levels /\ s.max \in Levels /\ s.level \in Levels
         /\ s.history \in [Levels -> Nat] /\ s.since \in 0..MaxTime
         /\ Levels \subseteq Nat /\ s.since \in Nat
  BY TimeAssumption DEF States, Levels

\* A state made from fields of the right types.
LEMMA StateMade ==
  ASSUME NEW p \in Nat, NEW min \in Levels, NEW max \in Levels, NEW level \in Levels,
         NEW history \in [Levels -> Nat], NEW since \in 0..MaxTime
  PROVE  [priority |-> p, min |-> min, max |-> max, level |-> level,
          history |-> history, since |-> since] \in States
  BY DEF States

\* The time since the last change, at a given moment, goes to the present level.
SegmentAt(s, time) == [s.history EXCEPT ![s.level] = @ + time - s.since]

LEMMA SegmentFacts ==
  ASSUME NEW s \in States, NEW time \in Nat, s.since <= time
  PROVE  /\ SegmentAt(s, time) \in [Levels -> Nat]
         /\ \A l \in Levels : SegmentAt(s, time)[l] = IF l = s.level
                                                     THEN s.history[l] + (time - s.since)
                                                     ELSE s.history[l]
<1>1. s.history \in [Levels -> Nat] /\ s.level \in Levels /\ s.since \in Nat
  BY StateFacts
<1>2. \A l \in Levels : s.history[l] \in Nat
  BY <1>1
<1>3. time - s.since \in Nat
  BY <1>1
<1>4. s.history[s.level] + time - s.since = s.history[s.level] + (time - s.since)
  BY <1>1, <1>2
<1>5. s.history[s.level] + (time - s.since) \in Nat
  BY <1>1, <1>2, <1>3
<1>6. SegmentAt(s, time) = [s.history EXCEPT ![s.level] = s.history[s.level] + (time - s.since)]
  BY <1>4 DEF SegmentAt
<1> QED
  BY <1>1, <1>2, <1>5, <1>6

\* Nothing is recorded out of range by a segment.
LEMMA SegmentInRange ==
  ASSUME NEW s \in States, NEW time \in Nat, s.since <= time, s.level \in s.min..s.max,
         \A l \in Levels : s.history[l] # 0 => l \in s.min..s.max
  PROVE  \A l \in Levels : SegmentAt(s, time)[l] # 0 => l \in s.min..s.max
  BY SegmentFacts

\* A segment that starts now is empty.
LEMMA NewSegment ==
  ASSUME NEW s \in States
  PROVE  SegmentAt(s, s.since) = s.history
<1>1. s.history \in [Levels -> Nat] /\ s.since \in Nat /\ s.since <= s.since
  BY StateFacts
<1>2. \A l \in Levels : s.history[l] \in Nat /\ SegmentAt(s, s.since)[l] = s.history[l]
  <2> TAKE l \in Levels
  <2>1. s.history[l] \in Nat
    BY <1>1
  <2>2. SegmentAt(s, s.since)[l] = IF l = s.level THEN s.history[l] + (s.since - s.since)
                                   ELSE s.history[l]
    BY <1>1, SegmentFacts
  <2> QED
    BY <1>1, <2>1, <2>2
<1>3. SegmentAt(s, s.since) \in [Levels -> Nat]
  BY <1>1, SegmentFacts
<1> QED
  BY <1>1, <1>2, <1>3

\* What record_level_change makes of a state.
LEMMA RecordFacts ==
  ASSUME NEW s \in States, NEW level \in Levels, now \in 0..MaxTime, s.since <= now
  PROVE  LET r == RecordLevelChange(s, level)
         IN /\ r \in States
            /\ r.priority = s.priority /\ r.min = s.min /\ r.max = s.max
            /\ r.level = level /\ r.since = now
            /\ r.history = WithSegment(s)
<1>1. WithSegment(s) \in [Levels -> Nat]
  BY TimeAssumption, SegmentFacts DEF WithSegment, SegmentAt
<1> DEFINE h == WithSegment(s)
           r == [s EXCEPT !.history = h, !.level = level, !.since = now]
<1>2. RecordLevelChange(s, level) = r
  BY DEF RecordLevelChange
<1> HIDE DEF h
<1>3. /\ r.priority = s.priority /\ r.min = s.min /\ r.max = s.max
      /\ r.level = level /\ r.since = now /\ r.history = h
  BY DEF States
<1>4. r \in States
  BY <1>1 DEF States, h
<1> QED
  BY <1>2, <1>3, <1>4 DEF h

------------------------------------------------------------------------------
\* The initial state.
LEMMA InitInductive == Init => IInv
<1> SUFFICES ASSUME Init PROVE IInv
  OBVIOUS
<1>1. DOMAIN topics = {}
  BY DEF Init
<1>2. Table
  <2>1. topics \in [DOMAIN topics -> States]
    BY DEF Init
  <2>2. spent \in [Topics -> [Levels -> Nat]]
    BY DEF Init, NoTime
  <2> QED
    BY <1>1, <2>1, <2>2 DEF Table
<1>3. Ordered
  BY <1>1, FS_EmptySet DEF Ordered, Init, ToSet
<1>4. ClockRuns
  BY <1>1, TimeAssumption DEF ClockRuns, Init
<1> QED
  BY <1>1, <1>2, <1>3, <1>4 DEF IInv, HistoryInRange, WassCountsTimeSpent

\* The clock runs: the present segment and the time spent at the present level
\* grow by the same.
LEMMA TickInductive == IInv /\ Tick => IInv'
<1> SUFFICES ASSUME IInv, Tick PROVE IInv'
  OBVIOUS
<1> USE DEF IInv
<1>1. /\ topics' = topics /\ order' = order /\ finalized' = finalized
      /\ now \in Nat /\ now' = now + 1 /\ now' \in 0..MaxTime /\ now' \in Nat
  BY TimeAssumption DEF Tick, ClockRuns
<1>2. \A t \in DOMAIN topics : /\ topics[t] \in States /\ topics[t].level \in Levels
                              /\ topics[t].since \in Nat /\ topics[t].since <= now
  BY StateFacts DEF Table, ClockRuns
<1>3. spent' \in [Topics -> [Levels -> Nat]]
  <2>1. ASSUME NEW t \in DOMAIN topics
        PROVE  [spent[t] EXCEPT ![topics[t].level] = @ + 1] \in [Levels -> Nat]
    <3>1. spent[t] \in [Levels -> Nat] /\ topics[t].level \in Levels
      BY <1>2 DEF Table
    <3>2. ASSUME NEW f \in [Levels -> Nat], NEW l \in Levels
          PROVE  [f EXCEPT ![l] = @ + 1] \in [Levels -> Nat]
      OBVIOUS
    <3> QED
      BY <3>1, <3>2
  <2>2. \A t \in Topics : spent[t] \in [Levels -> Nat]
    BY DEF Table
  <2> QED
    BY <2>1, <2>2 DEF Tick
<1>4. Table'
  BY <1>1, <1>3 DEF Table
<1>5. Ordered' /\ HistoryInRange'
  BY <1>1 DEF Ordered, HistoryInRange
<1>6. ClockRuns'
  BY <1>1, <1>2 DEF ClockRuns
<1>7. ASSUME NEW t \in DOMAIN topics \ finalized
      PROVE  SegmentAt(topics[t], now') = spent'[t]
  <2>1. spent[t] = SegmentAt(topics[t], now)
    BY DEF WassCountsTimeSpent, WithSegment, SegmentAt
  <2>2. spent'[t] = [spent[t] EXCEPT ![topics[t].level] = @ + 1]
    BY DEF Tick, Table
  <2>3. topics[t].since <= now'
    BY <1>1, <1>2
  <2>4. ASSUME NEW l \in Levels PROVE SegmentAt(topics[t], now')[l] = spent'[t][l]
    <3>1. topics[t].history[l] \in Nat
      BY <1>2, StateFacts
    <3>2. SegmentAt(topics[t], now)[l] = IF l = topics[t].level
                                         THEN topics[t].history[l] + (now - topics[t].since)
                                         ELSE topics[t].history[l]
      BY <1>1, <1>2, SegmentFacts
    <3>3. SegmentAt(topics[t], now')[l] = IF l = topics[t].level
                                          THEN topics[t].history[l] + (now' - topics[t].since)
                                          ELSE topics[t].history[l]
      BY <1>1, <1>2, <2>3, SegmentFacts
    <3>4. spent'[t][l] = IF l = topics[t].level THEN spent[t][l] + 1 ELSE spent[t][l]
      BY <1>2, <2>2 DEF Table
    <3> QED
      BY <1>1, <1>2, <2>1, <3>1, <3>2, <3>3, <3>4
  <2>5. SegmentAt(topics[t], now') \in [Levels -> Nat]
    BY <1>1, <1>2, <2>3, SegmentFacts
  <2>6. spent'[t] \in [Levels -> Nat]
    BY <1>3 DEF Table
  <2> QED
    BY <2>4, <2>5, <2>6
<1>8. WassCountsTimeSpent'
  BY <1>1, <1>7 DEF WassCountsTimeSpent, WithSegment, SegmentAt
<1> QED
  BY <1>4, <1>5, <1>6, <1>8

\* register_topic: a fresh state with an empty history.
LEMMA RegisterInductive ==
  ASSUME IInv, NEW t \in Topics, NEW r \in Registrations, RegisterTopic(t, r)
  PROVE  IInv'
<1> USE DEF IInv
<1> DEFINE new == [priority |-> r.priority, min |-> r.min, max |-> r.max,
                   level |-> r.level, history |-> NoTime, since |-> now]
<1>1. /\ NoTime \in [Levels -> Nat] /\ \A l \in Levels : NoTime[l] = 0
      /\ now \in 0..MaxTime /\ now \in Nat /\ now' = now /\ now <= now
  BY TimeAssumption DEF NoTime, RegisterTopic, ClockRuns
<1>2. /\ r.priority \in Nat /\ r.min \in Levels /\ r.max \in Levels
      /\ r.level \in Levels /\ r.level \in r.min..r.max
  BY RegistrationAssumption DEF Priorities, Levels
<1>3. new \in States
  BY <1>1, <1>2, StateMade
<1>4. /\ DOMAIN topics' = DOMAIN topics \cup {t}
      /\ topics'[t] = new
      /\ \A u \in DOMAIN topics : u # t => topics'[u] = topics[u]
      /\ topics' = [u \in DOMAIN topics' |-> topics'[u]]
  BY DEF RegisterTopic
<1>5. \A u \in DOMAIN topics' : u = t \/ u \in DOMAIN topics
  BY <1>4
<1>6. /\ spent' \in [Topics -> [Levels -> Nat]] /\ spent'[t] = NoTime
      /\ \A u \in DOMAIN topics : u # t => spent'[u] = spent[u]
  BY <1>1 DEF RegisterTopic, Table
<1>7. Table'
  <2>1. \A u \in DOMAIN topics : /\ topics[u] \in States
                                /\ topics[u].level \in topics[u].min..topics[u].max
    BY DEF Table
  <2>2. \A u \in DOMAIN topics' : topics'[u] \in States
    BY <1>3, <1>4, <1>5, <2>1
  <2>3. \A u \in DOMAIN topics' : topics'[u].level \in topics'[u].min..topics'[u].max
    BY <1>2, <1>4, <1>5, <2>1
  <2>4. DOMAIN topics' \subseteq Topics
    BY <1>4 DEF Table
  <2>5. topics' \in [DOMAIN topics' -> States]
    BY <1>4, <2>2
  <2> QED
    BY <1>6, <2>3, <2>4, <2>5 DEF Table
<1>8. Ordered'
  <2>1. CASE t \in DOMAIN topics
    <3>1. order' = order /\ DOMAIN topics' = DOMAIN topics
      BY <2>1, <1>4 DEF RegisterTopic
    <3> QED
      BY <3>1 DEF Ordered
  <2>2. CASE t \notin DOMAIN topics
    <3>1. order' = Append(order, t) /\ order \in Seq(Topics)
      BY <2>2 DEF RegisterTopic, Ordered
    <3>2. order' \in Seq(Topics) /\ Len(order') = Len(order) + 1
      BY <3>1
    <3>3. ToSet(order') = ToSet(order) \cup {t}
      BY <3>1 DEF ToSet
    <3>4. /\ IsFiniteSet(DOMAIN topics \cup {t})
          /\ Cardinality(DOMAIN topics \cup {t}) = Cardinality(DOMAIN topics) + 1
      BY <2>2, FS_AddElement DEF Ordered
    <3> QED
      BY <1>4, <3>2, <3>3, <3>4 DEF Ordered
  <2> QED
    BY <2>1, <2>2
<1>9. ClockRuns'
  BY <1>1, <1>4, <1>5 DEF ClockRuns
<1>10. HistoryInRange'
  BY <1>1, <1>4, <1>5 DEF HistoryInRange
<1>11. WassCountsTimeSpent'
  <2> SUFFICES ASSUME NEW u \in DOMAIN topics' \ finalized'
               PROVE  SegmentAt(topics'[u], now') = spent'[u]
    BY DEF WassCountsTimeSpent, WithSegment, SegmentAt
  <2>1. CASE u = t
    BY <2>1, <1>1, <1>3, <1>4, <1>6, NewSegment
  <2>2. CASE u # t
    <3>1. u \in DOMAIN topics \ finalized
      BY <2>2, <1>5 DEF RegisterTopic
    <3> QED
      BY <2>2, <3>1, <1>1, <1>4, <1>6 DEF WassCountsTimeSpent, WithSegment, SegmentAt
  <2> QED
    BY <2>1, <2>2
<1> QED
  BY <1>7, <1>8, <1>9, <1>10, <1>11

\* What a call that moves the topics of S to other levels makes of them.
LEMMA ChangeFacts ==
  ASSUME IInv, NEW op, NEW S \in SUBSET DOMAIN topics, NEW to,
         \A t \in S : to[t] \in Levels,
         ChangeLevels(op, S, to),
         NEW t \in S
  PROVE  /\ topics'[t] \in States
         /\ topics'[t].min = topics[t].min /\ topics'[t].max = topics[t].max
         /\ topics'[t].level = to[t] /\ topics'[t].since = now
         /\ topics'[t].history = SegmentAt(topics[t], now)
<1>1. /\ topics[t] \in States /\ to[t] \in Levels /\ topics[t].since <= now
      /\ now \in 0..MaxTime
  BY DEF IInv, Table, ClockRuns
<1> DEFINE r == RecordLevelChange(topics[t], to[t])
<1>2. /\ r \in States /\ r.min = topics[t].min /\ r.max = topics[t].max
      /\ r.level = to[t] /\ r.since = now /\ r.history = WithSegment(topics[t])
  BY <1>1, RecordFacts
<1>3. topics'[t] = r
  BY DEF ChangeLevels
<1>4. WithSegment(topics[t]) = SegmentAt(topics[t], now)
  BY DEF WithSegment, SegmentAt
<1> HIDE DEF r
<1> QED
  BY <1>2, <1>3, <1>4

\* A call that moves the topics of S to other levels of their ranges closes the
\* present segment of each at the old level.
LEMMA ChangeInductive ==
  ASSUME IInv, NEW op, NEW S \in SUBSET DOMAIN topics, NEW to,
         \A t \in S : to[t] \in Levels /\ to[t] \in topics[t].min..topics[t].max,
         ChangeLevels(op, S, to)
  PROVE  IInv'
<1> USE DEF IInv
<1>1. /\ order' = order /\ spent' = spent /\ finalized' = finalized /\ now' = now
      /\ now \in Nat /\ now \in 0..MaxTime /\ now <= now
  BY TimeAssumption DEF ChangeLevels, ClockRuns
<1>2. /\ DOMAIN topics' = DOMAIN topics
      /\ topics' = [t \in DOMAIN topics |-> topics'[t]]
      /\ \A t \in S : topics'[t] = RecordLevelChange(topics[t], to[t])
      /\ \A t \in DOMAIN topics \ S : topics'[t] = topics[t]
  BY DEF ChangeLevels
<1>3. \A t \in DOMAIN topics :
         /\ topics[t] \in States /\ topics[t].since <= now
         /\ topics[t].level \in topics[t].min..topics[t].max
         /\ \A l \in Levels : topics[t].history[l] # 0 => l \in topics[t].min..topics[t].max
  BY DEF Table, ClockRuns, HistoryInRange
<1>4. ASSUME NEW t \in S
      PROVE  /\ topics'[t] \in States
             /\ topics'[t].min = topics[t].min /\ topics'[t].max = topics[t].max
             /\ topics'[t].level = to[t] /\ topics'[t].since = now
             /\ topics'[t].history = SegmentAt(topics[t], now)
  BY ChangeFacts
<1>5. Table'
  <2>1. \A t \in DOMAIN topics' :
           topics'[t] \in States /\ topics'[t].level \in topics'[t].min..topics'[t].max
    BY <1>2, <1>3, <1>4
  <2>2. topics' \in [DOMAIN topics' -> States]
    BY <1>2, <2>1
  <2> QED
    BY <1>1, <1>2, <2>1, <2>2 DEF Table
<1>6. Ordered'
  BY <1>1, <1>2 DEF Ordered
<1>7. ClockRuns'
  BY <1>1, <1>2, <1>3, <1>4 DEF ClockRuns
<1>8. HistoryInRange'
  <2> SUFFICES ASSUME NEW t \in DOMAIN topics
               PROVE  \A l \in Levels : topics'[t].history[l] # 0
                                        => l \in topics'[t].min..topics'[t].max
    BY <1>2 DEF HistoryInRange
  <2>1. CASE t \in S
    BY <2>1, <1>1, <1>3, <1>4, SegmentInRange
  <2>2. CASE t \notin S
    BY <2>2, <1>2, <1>3
  <2> QED
    BY <2>1, <2>2
<1>9. WassCountsTimeSpent'
  <2> SUFFICES ASSUME NEW t \in DOMAIN topics \ finalized
               PROVE  SegmentAt(topics'[t], now) = spent[t]
    BY <1>1, <1>2 DEF WassCountsTimeSpent, WithSegment, SegmentAt
  <2>1. SegmentAt(topics[t], now) = spent[t]
    BY DEF WassCountsTimeSpent, WithSegment, SegmentAt
  <2>2. CASE t \in S
    <3>1. SegmentAt(topics'[t], now) = topics'[t].history
      BY <2>2, <1>4, NewSegment
    <3> QED
      BY <2>1, <2>2, <3>1, <1>4
  <2>3. CASE t \notin S
    BY <2>1, <2>3, <1>2
  <2> QED
    BY <2>2, <2>3
<1> QED
  BY <1>5, <1>6, <1>7, <1>8, <1>9

\* What finalize_all makes of a topic.
LEMMA FinalizeFacts ==
  ASSUME IInv, FinalizeAll, NEW t \in DOMAIN topics
  PROVE  /\ topics'[t] \in States
         /\ topics'[t].min = topics[t].min /\ topics'[t].max = topics[t].max
         /\ topics'[t].level = topics[t].level /\ topics'[t].since = topics[t].since
         /\ topics'[t].history = SegmentAt(topics[t], now)
<1>1. topics[t] \in States /\ topics[t].since <= now /\ now \in Nat
  BY TimeAssumption DEF IInv, Table, ClockRuns
<1> DEFINE h == SegmentAt(topics[t], now)
<1>2. h \in [Levels -> Nat]
  BY <1>1, SegmentFacts
<1>3. topics'[t] = [topics[t] EXCEPT !.history = h]
  BY DEF FinalizeAll, WithSegment, SegmentAt
<1> HIDE DEF h
<1>4. /\ topics'[t].min = topics[t].min /\ topics'[t].max = topics[t].max
      /\ topics'[t].level = topics[t].level /\ topics'[t].since = topics[t].since
      /\ topics'[t].history = h
  BY <1>1, <1>3 DEF States
<1>5. topics'[t] \in States
  BY <1>1, <1>2, <1>3 DEF States
<1> QED
  BY <1>4, <1>5 DEF h

\* finalize_all: the present segment goes into the history; the topic is no longer
\* one whose average counts the time once.
LEMMA FinalizeInductive == IInv /\ FinalizeAll => IInv'
<1> SUFFICES ASSUME IInv, FinalizeAll PROVE IInv'
  OBVIOUS
<1> USE DEF IInv
<1>1. /\ order' = order /\ spent' = spent /\ now' = now
      /\ now \in Nat /\ DOMAIN topics' = DOMAIN topics
      /\ DOMAIN topics' \subseteq finalized'
      /\ topics' = [t \in DOMAIN topics |-> topics'[t]]
  BY TimeAssumption DEF FinalizeAll, ClockRuns
<1>2. \A t \in DOMAIN topics :
         /\ topics[t] \in States /\ topics[t].since <= now
         /\ topics[t].level \in topics[t].min..topics[t].max
         /\ \A l \in Levels : topics[t].history[l] # 0 => l \in topics[t].min..topics[t].max
  BY DEF Table, ClockRuns, HistoryInRange
<1>3. ASSUME NEW t \in DOMAIN topics
      PROVE  /\ topics'[t] \in States
             /\ topics'[t].min = topics[t].min /\ topics'[t].max = topics[t].max
             /\ topics'[t].level = topics[t].level /\ topics'[t].since = topics[t].since
             /\ topics'[t].history = SegmentAt(topics[t], now)
  BY FinalizeFacts
<1>4. Table'
  <2>1. topics' \in [DOMAIN topics' -> States]
    BY <1>1, <1>3
  <2> QED
    BY <1>1, <1>2, <1>3, <2>1 DEF Table
<1>5. Ordered' /\ ClockRuns'
  BY <1>1, <1>2, <1>3 DEF Ordered, ClockRuns
<1>6. HistoryInRange'
  BY <1>1, <1>2, <1>3, SegmentInRange DEF HistoryInRange
<1>7. WassCountsTimeSpent'
  BY <1>1 DEF WassCountsTimeSpent
<1> QED
  BY <1>4, <1>5, <1>6, <1>7

------------------------------------------------------------------------------
\* Every step keeps the invariant.
LEMMA NextInductive == IInv /\ [Next]_vars => IInv'
<1> SUFFICES ASSUME IInv, [Next]_vars PROVE IInv'
  OBVIOUS
<1>1. \A t \in DOMAIN topics : /\ topics[t] \in States
                              /\ topics[t].level \in topics[t].min..topics[t].max
                              /\ {topics[t].min, topics[t].max, topics[t].level} \subseteq Levels
  BY StateFacts DEF IInv, Table
<1>2. CASE Tick
  BY <1>2, TickInductive
<1>3. ASSUME NEW t \in Topics, NEW r \in Registrations, RegisterTopic(t, r) PROVE IInv'
  BY <1>3, RegisterInductive
<1>4. CASE TriggerDowngrade
  <2> DEFINE S == {t \in DOMAIN topics : topics[t].level > topics[t].min}
             to == [t \in S |-> topics[t].level - 1]
  <2>1. \A t \in S : to[t] \in Levels /\ to[t] \in topics[t].min..topics[t].max
    BY <1>1 DEF Levels
  <2>2. ChangeLevels("downgrade", S, to)
    BY <1>4 DEF TriggerDowngrade
  <2> HIDE DEF to
  <2>3. S \in SUBSET DOMAIN topics
    OBVIOUS
  <2> QED
    BY <2>1, <2>2, <2>3, ChangeInductive
<1>5. CASE TriggerUpgrade
  <2> DEFINE S == {t \in DOMAIN topics : topics[t].level < topics[t].max}
             to == [t \in S |-> topics[t].level + 1]
  <2>1. \A t \in S : to[t] \in Levels /\ to[t] \in topics[t].min..topics[t].max
    BY <1>1 DEF Levels
  <2>2. ChangeLevels("upgrade", S, to)
    BY <1>5 DEF TriggerUpgrade
  <2> HIDE DEF to
  <2>3. S \in SUBSET DOMAIN topics
    OBVIOUS
  <2> QED
    BY <2>1, <2>2, <2>3, ChangeInductive
<1>6. CASE FinalizeAll
  BY <1>6, FinalizeInductive
<1>7. CASE UNCHANGED vars
  BY <1>7 DEF vars, IInv, Table, Ordered, ClockRuns, HistoryInRange, WassCountsTimeSpent,
              WithSegment
<1> QED
  BY <1>2, <1>3, <1>4, <1>5, <1>6, <1>7 DEF Next

LEMMA Invariance == Spec => []IInv
<1>1. Init => IInv
  BY InitInductive
<1>2. IInv /\ [Next]_vars => IInv'
  BY NextInductive
<1> QED
  BY <1>1, <1>2, PTL DEF Spec

\* The manager's table has its type and every topic stays in its range, for any
\* registrations (register_topic, trigger_downgrade, trigger_upgrade).
THEOREM TypeCorrect == Spec => []TypeOK
<1>1. IInv => TypeOK
  BY DEF IInv, Table, Ordered, TypeOK
<1> QED
  BY <1>1, Invariance, PTL

\* What get_wass weighs is the time really spent at each level, as long as the
\* topic is not finalized (record_level_change, get_wass).
THEOREM TimeCountedOnce == Spec => []WassCountsTimeSpent
<1>1. IInv => WassCountsTimeSpent
  BY DEF IInv
<1> QED
  BY <1>1, Invariance, PTL

------------------------------------------------------------------------------
\* Time is recorded at a level exactly if the topic was there for some time, also
\* after finalize_all, which may record it twice.
TimeRecorded ==
  \A t \in DOMAIN topics : \A l \in Levels :
     SegmentAt(topics[t], now)[l] = 0 <=> spent[t][l] = 0

LEMMA RecordedTick == IInv /\ TimeRecorded /\ Tick => TimeRecorded'
<1> SUFFICES ASSUME IInv, TimeRecorded, Tick, NEW t \in DOMAIN topics, NEW l \in Levels
             PROVE  SegmentAt(topics[t], now')[l] = 0 <=> spent'[t][l] = 0
  BY DEF TimeRecorded, Tick, SegmentAt
<1>1. /\ topics[t] \in States /\ topics[t].since <= now /\ now \in Nat /\ now' = now + 1
      /\ spent[t] \in [Levels -> Nat] /\ t \in Topics
  BY TimeAssumption DEF IInv, Table, ClockRuns, Tick
<1>2. /\ topics[t].level \in Levels /\ topics[t].since \in Nat /\ topics[t].history[l] \in Nat
  BY <1>1, StateFacts
<1>3. SegmentAt(topics[t], now)[l] = IF l = topics[t].level
                                     THEN topics[t].history[l] + (now - topics[t].since)
                                     ELSE topics[t].history[l]
  BY <1>1, SegmentFacts
<1>4. SegmentAt(topics[t], now')[l] = IF l = topics[t].level
                                      THEN topics[t].history[l] + (now' - topics[t].since)
                                      ELSE topics[t].history[l]
  <2>1. topics[t].since <= now' /\ now' \in Nat
    BY <1>1, <1>2
  <2> QED
    BY <1>1, <2>1, SegmentFacts
<1>5. spent'[t][l] = IF l = topics[t].level THEN spent[t][l] + 1 ELSE spent[t][l]
  BY <1>1, <1>2 DEF Tick
<1>6. spent[t][l] \in Nat /\ (SegmentAt(topics[t], now)[l] = 0 <=> spent[t][l] = 0)
  BY <1>1 DEF TimeRecorded
<1> QED
  BY <1>1, <1>2, <1>3, <1>4, <1>5, <1>6

LEMMA RecordedRegister ==
  ASSUME IInv, TimeRecorded, NEW t \in Topics, NEW r \in Registrations, RegisterTopic(t, r)
  PROVE  TimeRecorded'
<1> SUFFICES ASSUME NEW u \in DOMAIN topics', NEW l \in Levels
             PROVE  SegmentAt(topics'[u], now')[l] = 0 <=> spent'[u][l] = 0
  BY DEF TimeRecorded, SegmentAt
<1>1. now' = now /\ DOMAIN topics \subseteq Topics /\ spent \in [Topics -> [Levels -> Nat]]
  BY DEF IInv, Table, RegisterTopic
<1>2. CASE u = t
  <2>1. topics'[t] \in States
    BY RegisterInductive, <1>2 DEF IInv, Table
  <2>2. topics'[t].since = now /\ topics'[t].history = NoTime /\ spent'[t] = NoTime
    BY <1>1 DEF RegisterTopic
  <2> QED
    BY <1>1, <1>2, <2>1, <2>2, NewSegment
<1>3. CASE u # t
  <2>1. u \in DOMAIN topics /\ topics'[u] = topics[u] /\ spent'[u] = spent[u]
    BY <1>1, <1>3 DEF RegisterTopic
  <2> QED
    BY <1>1, <2>1 DEF TimeRecorded
<1> QED
  BY <1>2, <1>3

LEMMA RecordedChange ==
  ASSUME IInv, TimeRecorded, NEW op, NEW S \in SUBSET DOMAIN topics, NEW to,
         \A t \in S : to[t] \in Levels,
         ChangeLevels(op, S, to)
  PROVE  TimeRecorded'
<1>1. now' = now /\ spent' = spent /\ DOMAIN topics' = DOMAIN topics
  BY DEF ChangeLevels
<1>2. ASSUME NEW t \in DOMAIN topics
      PROVE  SegmentAt(topics'[t], now) = SegmentAt(topics[t], now)
  <2>1. CASE t \in S
    BY <2>1, ChangeFacts, NewSegment
  <2>2. CASE t \notin S
    BY <2>2 DEF ChangeLevels
  <2> QED
    BY <2>1, <2>2
<1>3. TimeRecorded' <=> \A t \in DOMAIN topics : \A l \in Levels :
                          SegmentAt(topics'[t], now)[l] = 0 <=> spent[t][l] = 0
  BY <1>1 DEF TimeRecorded, SegmentAt
<1> QED
  BY <1>2, <1>3 DEF TimeRecorded

LEMMA RecordedFinalize == IInv /\ TimeRecorded /\ FinalizeAll => TimeRecorded'
<1> SUFFICES ASSUME IInv, TimeRecorded, FinalizeAll, NEW t \in DOMAIN topics, NEW l \in Levels
             PROVE  SegmentAt(topics'[t], now)[l] = 0 <=> spent[t][l] = 0
  BY DEF TimeRecorded, FinalizeAll, SegmentAt
<1>1. topics[t] \in States /\ topics[t].since <= now /\ now \in Nat
  BY TimeAssumption DEF IInv, Table, ClockRuns
<1>2. topics[t].history[l] \in Nat /\ topics[t].since \in Nat
  BY <1>1, StateFacts
<1>3. SegmentAt(topics[t], now)[l] = IF l = topics[t].level
                                     THEN topics[t].history[l] + (now - topics[t].since)
                                     ELSE topics[t].history[l]
  BY <1>1, SegmentFacts
<1> DEFINE s == topics'[t]
<1>4. /\ s \in States /\ s.since = topics[t].since /\ s.level = topics[t].level
      /\ s.history = SegmentAt(topics[t], now)
  BY FinalizeFacts
<1> HIDE DEF s
<1>5. SegmentAt(s, now)[l] = IF l = s.level THEN s.history[l] + (now - s.since) ELSE s.history[l]
  BY <1>1, <1>4, SegmentFacts
<1>6. SegmentAt(s, now)[l] = 0 <=> SegmentAt(topics[t], now)[l] = 0
  BY <1>1, <1>2, <1>3, <1>4, <1>5
<1> QED
  BY <1>6 DEF TimeRecorded, s

LEMMA RecordedInvariance == Spec => []TimeRecorded
<1>1. Init => TimeRecorded
  BY DEF Init, TimeRecorded
<1>2. IInv /\ TimeRecorded /\ [Next]_vars => TimeRecorded'
  <2> SUFFICES ASSUME IInv, TimeRecorded, [Next]_vars PROVE TimeRecorded'
    OBVIOUS
  <2>1. \A t \in DOMAIN topics : /\ {topics[t].min, topics[t].max, topics[t].level} \subseteq Levels
    BY StateFacts DEF IInv, Table
  <2>2. CASE TriggerDowngrade
    <3> DEFINE S == {t \in DOMAIN topics : topics[t].level > topics[t].min}
               to == [t \in S |-> topics[t].level - 1]
    <3>1. \A t \in S : to[t] \in Levels
      BY <2>1 DEF Levels
    <3>2. ChangeLevels("downgrade", S, to)
      BY <2>2 DEF TriggerDowngrade
    <3>3. S \in SUBSET DOMAIN topics
      OBVIOUS
    <3> HIDE DEF S, to
    <3> QED
      BY <3>1, <3>2, <3>3, RecordedChange
  <2>3. CASE TriggerUpgrade
    <3> DEFINE S == {t \in DOMAIN topics : topics[t].level < topics[t].max}
               to == [t \in S |-> topics[t].level + 1]
    <3>1. \A t \in S : to[t] \in Levels
      BY <2>1 DEF Levels
    <3>2. ChangeLevels("upgrade", S, to)
      BY <2>3 DEF TriggerUpgrade
    <3>3. S \in SUBSET DOMAIN topics
      OBVIOUS
    <3> HIDE DEF S, to
    <3> QED
      BY <3>1, <3>2, <3>3, RecordedChange
  <2>4. CASE UNCHANGED vars
    BY <2>4 DEF vars, TimeRecorded, SegmentAt
  <2> QED
    BY <2>2, <2>3, <2>4, RecordedTick, RecordedRegister, RecordedFinalize DEF Next
<1> QED
  BY <1>1, <1>2, Invariance, PTL DEF Spec

------------------------------------------------------------------------------
\* The scores of the levels under equal weights, in hundredths of a part: no level
\* scores less than a lower one.
LEMMA Scores ==
  /\ Score(DefaultWeights, 0) = 0 /\ Score(DefaultWeights, 1) = 190
  /\ Score(DefaultWeights, 2) = 190 /\ Score(DefaultWeights, 3) = 265
  /\ Score(DefaultWeights, 4) = 310 /\ Score(DefaultWeights, 5) = 400
<1>1. /\ Phi[0] = 0 /\ Phi[1] = 20 /\ Phi[2] = 20 /\ Phi[3] = 60 /\ Phi[4] = 60 /\ Phi[5] = 100
  BY DEF Phi, ByLevel, Levels
<1>2. /\ Psi[0] = 0 /\ Psi[1] = 40 /\ Psi[2] = 40 /\ Psi[3] = 40 /\ Psi[4] = 60 /\ Psi[5] = 100
  BY DEF Psi, ByLevel, Levels
<1>3. /\ Omega[0] = 0 /\ Omega[1] = 50 /\ Omega[2] = 50 /\ Omega[3] = 75
      /\ Omega[4] = 100 /\ Omega[5] = 100
  BY DEF Omega, ByLevel, Levels
<1>4. /\ Gamma[0] = 0 /\ Gamma[1] = 80 /\ Gamma[2] = 80 /\ Gamma[3] = 90
      /\ Gamma[4] = 90 /\ Gamma[5] = 100
  BY DEF Gamma, ByLevel, Levels
<1> QED
  BY <1>1, <1>2, <1>3, <1>4 DEF Score, DefaultWeights

\* An average over times at levels of a range lies between the scores of its ends.
LEMMA AverageInRange ==
  ASSUME NEW time \in [Levels -> Nat], NEW min \in Levels, NEW max \in Levels,
         \A l \in Levels : time[l] # 0 => l \in min..max
  PROVE  /\ Score(DefaultWeights, min) * TotalTime(time) <= WeightedTime(DefaultWeights, time)
         /\ WeightedTime(DefaultWeights, time) <= Score(DefaultWeights, max) * TotalTime(time)
<1> DEFINE t0 == time[0]  t1 == time[1]  t2 == time[2]
           t3 == time[3]  t4 == time[4]  t5 == time[5]
           weighted == 190 * t1 + 190 * t2 + 265 * t3 + 310 * t4 + 400 * t5
           total == t0 + t1 + t2 + t3 + t4 + t5
<1>1. {t0, t1, t2, t3, t4, t5} \subseteq Nat
  BY DEF Levels
<1>2. /\ min > 0 \/ max < 0 => t0 = 0
      /\ min > 1 \/ max < 1 => t1 = 0
      /\ min > 2 \/ max < 2 => t2 = 0
      /\ min > 3 \/ max < 3 => t3 = 0
      /\ min > 4 \/ max < 4 => t4 = 0
      /\ max < 5 => t5 = 0
  BY DEF Levels
<1>3. TotalTime(time) = total
  BY DEF TotalTime
<1>4. WeightedTime(DefaultWeights, time) = 0 * t0 + weighted
  BY <1>1, Scores DEF WeightedTime
<1> HIDE DEF t0, t1, t2, t3, t4, t5
<1>5. WeightedTime(DefaultWeights, time) = weighted
  BY <1>1, <1>4
<1>6. Score(DefaultWeights, min) * total <= weighted
  <2>1. CASE min = 0
    BY <2>1, <1>1, Scores
  <2>2. CASE min = 1
    BY <2>2, <1>1, <1>2, Scores
  <2>3. CASE min = 2
    BY <2>3, <1>1, <1>2, Scores
  <2>4. CASE min = 3
    BY <2>4, <1>1, <1>2, Scores
  <2>5. CASE min = 4
    BY <2>5, <1>1, <1>2, Scores
  <2>6. CASE min = 5
    BY <2>6, <1>1, <1>2, Scores
  <2> QED
    BY <2>1, <2>2, <2>3, <2>4, <2>5, <2>6 DEF Levels
<1>7. weighted <= Score(DefaultWeights, max) * total
  <2>1. CASE max = 0
    BY <2>1, <1>1, <1>2, Scores
  <2>2. CASE max = 1
    BY <2>2, <1>1, <1>2, Scores
  <2>3. CASE max = 2
    BY <2>3, <1>1, <1>2, Scores
  <2>4. CASE max = 3
    BY <2>4, <1>1, <1>2, Scores
  <2>5. CASE max = 4
    BY <2>5, <1>1, <1>2, Scores
  <2>6. CASE max = 5
    BY <2>6, <1>1, Scores
  <2> QED
    BY <2>1, <2>2, <2>3, <2>4, <2>5, <2>6 DEF Levels
<1> QED
  BY <1>3, <1>5, <1>6, <1>7

\* No time in all is no time at any level.
LEMMA NoTimeAtAll ==
  ASSUME NEW time \in [Levels -> Nat]
  PROVE  /\ TotalTime(time) \in Nat
         /\ TotalTime(time) = 0 <=> \A l \in Levels : time[l] = 0
<1> DEFINE t0 == time[0]  t1 == time[1]  t2 == time[2]
           t3 == time[3]  t4 == time[4]  t5 == time[5]
<1>1. {t0, t1, t2, t3, t4, t5} \subseteq Nat
  BY DEF Levels
<1>2. (\A l \in Levels : time[l] = 0)
        <=> t0 = 0 /\ t1 = 0 /\ t2 = 0 /\ t3 = 0 /\ t4 = 0 /\ t5 = 0
  BY DEF Levels
<1>3. TotalTime(time) = t0 + t1 + t2 + t3 + t4 + t5
  BY DEF TotalTime
<1> HIDE DEF t0, t1, t2, t3, t4, t5
<1>4. t0 + t1 + t2 + t3 + t4 + t5 \in Nat
  BY <1>1
<1>5. t0 + t1 + t2 + t3 + t4 + t5 = 0
        <=> t0 = 0 /\ t1 = 0 /\ t2 = 0 /\ t3 = 0 /\ t4 = 0 /\ t5 = 0
  <2>1. ASSUME NEW a \in Nat, NEW b \in Nat PROVE a + b = 0 <=> a = 0 /\ b = 0
    OBVIOUS
  <2>2. /\ t0 + t1 \in Nat /\ t0 + t1 + t2 \in Nat /\ t0 + t1 + t2 + t3 \in Nat
        /\ t0 + t1 + t2 + t3 + t4 \in Nat
        /\ t0 \in Nat /\ t1 \in Nat /\ t2 \in Nat /\ t3 \in Nat /\ t4 \in Nat /\ t5 \in Nat
    BY <1>1
  <2>3. t0 + t1 = 0 <=> t0 = 0 /\ t1 = 0
    BY <2>1, <2>2
  <2>4. t0 + t1 + t2 = 0 <=> t0 + t1 = 0 /\ t2 = 0
    BY <2>1, <2>2
  <2>5. t0 + t1 + t2 + t3 = 0 <=> t0 + t1 + t2 = 0 /\ t3 = 0
    BY <2>1, <2>2
  <2>6. t0 + t1 + t2 + t3 + t4 = 0 <=> t0 + t1 + t2 + t3 = 0 /\ t4 = 0
    BY <2>1, <2>2
  <2>7. t0 + t1 + t2 + t3 + t4 + t5 = 0 <=> t0 + t1 + t2 + t3 + t4 = 0 /\ t5 = 0
    BY <2>1, <2>2
  <2> QED
    BY <2>3, <2>4, <2>5, <2>6, <2>7
<1> QED
  BY <1>2, <1>3, <1>4, <1>5

\* The weighted average score of a topic that has spent time since it was registered
\* lies between the scores of the lowest and the highest level of its range, finalized
\* or not, and any other topic scores 0.0 (get_wass, SLSI).
THEOREM AverageStaysInRange == Spec => []WassWithinRange
<1>1. IInv /\ TimeRecorded => WassWithinRange
  <2> SUFFICES ASSUME IInv, TimeRecorded, NEW t \in Topics
               PROVE  LET wass == GetWass(t)
                      IN IF t \in DOMAIN topics /\ TotalTime(spent[t]) > 0
                         THEN /\ Score(DefaultWeights, topics[t].min) * wass.den <= wass.num
                              /\ wass.num <= Score(DefaultWeights, topics[t].max) * wass.den
                         ELSE wass.num = 0
    BY DEF WassWithinRange
  <2>1. CASE t \notin DOMAIN topics
    BY <2>1 DEF GetWass, Zero
  <2>2. CASE t \in DOMAIN topics
    <3> DEFINE time == WithSegment(topics[t])
    <3>1. /\ topics[t] \in States /\ topics[t].since <= now /\ now \in Nat
          /\ topics[t].level \in topics[t].min..topics[t].max
          /\ \A l \in Levels : topics[t].history[l] # 0 => l \in topics[t].min..topics[t].max
          /\ spent[t] \in [Levels -> Nat]
      BY <2>2, TimeAssumption DEF IInv, Table, ClockRuns, HistoryInRange
    <3>2. time = SegmentAt(topics[t], now)
      BY DEF WithSegment, SegmentAt
    <3>3. /\ time \in [Levels -> Nat]
          /\ \A l \in Levels : time[l] # 0 => l \in topics[t].min..topics[t].max
          /\ \A l \in Levels : time[l] = 0 <=> spent[t][l] = 0
      BY <2>2, <3>1, <3>2, SegmentFacts, SegmentInRange DEF TimeRecorded
    <3>4. topics[t].min \in Levels /\ topics[t].max \in Levels
      BY <3>1, StateFacts
    <3>5. GetWass(t) = IF TotalTime(time) = 0
                       THEN Zero
                       ELSE [num |-> WeightedTime(DefaultWeights, time), den |-> TotalTime(time)]
      BY <2>2 DEF GetWass, WeightedAverageSecurityScore
    <3> HIDE DEF time
    <3>6. TotalTime(time) = 0 <=> TotalTime(spent[t]) = 0
      BY <3>1, <3>3, NoTimeAtAll
    <3>7. CASE TotalTime(time) = 0
      <4>1. ~(TotalTime(spent[t]) > 0)
        BY <3>6, <3>7
      <4> QED
        BY <3>5, <3>7, <4>1 DEF Zero
    <3>8. CASE TotalTime(time) # 0
      <4>1. TotalTime(spent[t]) > 0
        BY <3>1, <3>6, <3>8, NoTimeAtAll
      <4> QED
        BY <2>2, <3>3, <3>4, <3>5, <3>8, <4>1, AverageInRange
    <3> QED
      BY <3>7, <3>8
  <2> QED
    BY <2>1, <2>2
<1> QED
  BY <1>1, Invariance, RecordedInvariance, PTL
=============================================================================
