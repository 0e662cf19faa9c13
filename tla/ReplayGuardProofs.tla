-------------------------- MODULE ReplayGuardProofs --------------------------
(***************************************************************************)
(* Proofs about ReplayGuard for every set of publishers and epochs, every  *)
(* counter range and every window size.                                    *)
(*                                                                         *)
(* The inductive invariant says, key by key, that the table entry e and    *)
(* the history h of the key match: the highest counter was accepted once,  *)
(* nothing above it was, and inside the window a bit is set exactly for    *)
(* the accepted counters.  Matches is about values, not states, so that    *)
(* the arithmetic of the bitmap is proved once, apart from the actions.    *)
(***************************************************************************)
EXTENDS ReplayGuard, TLAPS

Histories == [Counters -> Nat]

Matches(e, h) ==
  /\ h[e.max] = 1
  /\ \A d \in Counters :
       /\ h[d] \in {0, 1}
       /\ d > e.max => h[d] = 0
       /\ (d < e.max /\ e.max - d < WindowSize)
             => (e.max - d - 1 \in e.bitmap <=> h[d] = 1)

HistoryExact ==
  /\ \A k \in Keys \ Tracked, c \in Counters : accepts[k][c] = 0
  /\ \A k \in Tracked : Matches(guard[k], accepts[k])

IInv == TypeOK /\ HistoryExact /\ RejectsOnlyWithCause

------------------------------------------------------------------------------
(* Values: the history and the bitmap.                                     *)

\* Recording an acceptance changes one count.
LEMMA CountFacts ==
  ASSUME NEW h \in Histories, NEW c \in Counters
  PROVE  /\ Counted(h, c) \in Histories
         /\ Counted(h, c)[c] = h[c] + 1
         /\ \A d \in Counters : d # c => Counted(h, c)[d] = h[d]
  BY DEF Histories, Counted

\* A key's first message matches a history that holds it alone.
LEMMA FirstMatches ==
  ASSUME NEW h \in Histories, NEW c \in Counters,
         \A d \in Counters : h[d] = 0
  PROVE  Matches([max |-> c, bitmap |-> {}], Counted(h, c))
  <1> DEFINE hh == Counted(h, c)
  <1>1. hh[c] = 1 /\ \A d \in Counters : d # c => hh[d] = 0
    BY CountFacts
  <1>2. c \in Nat /\ \A d \in Counters : d \in Nat
    BY CounterAssumption DEF Counters
  <1> HIDE DEF hh
  <1>3. Matches([max |-> c, bitmap |-> {}], hh)
    BY <1>1, <1>2 DEF Matches
  <1> QED
    BY <1>3 DEF hh

\* The bits of a shifted bitmap are the old bits moved up, and the old highest
\* counter.
LEMMA ShiftedBits ==
  ASSUME NEW bitmap \in SUBSET Nat, NEW n \in Nat \ {0}
  PROVE  /\ Shifted(bitmap, n) \in SUBSET Nat
         /\ \A b \in Nat : b \in Shifted(bitmap, n)
                              <=> b = n - 1 \/ (b >= n /\ b - n \in bitmap)
  <1>1. Shifted(bitmap, n) \in SUBSET Nat
    BY DEF Shifted
  <1>2. ASSUME NEW b \in Nat, b \in Shifted(bitmap, n)
        PROVE  b = n - 1 \/ (b >= n /\ b - n \in bitmap)
    BY <1>2 DEF Shifted
  <1>3. ASSUME NEW b \in Nat, b >= n, b - n \in bitmap
        PROVE  b \in Shifted(bitmap, n)
    <2>1. b = (b - n) + n
      BY <1>3
    <2> QED
      BY <1>3, <2>1 DEF Shifted
  <1>4. n - 1 \in Shifted(bitmap, n)
    BY DEF Shifted
  <1> QED
    BY <1>1, <1>2, <1>3, <1>4

\* The entry NewHigh stores.
Raised(e, c) ==
  [max |-> c,
   bitmap |-> IF c - e.max < WindowSize THEN Shifted(e.bitmap, c - e.max)
                                        ELSE {}]

\* A raised entry is an entry, and its window bits are those of the counters
\* that had a bit, and of the old highest counter.
LEMMA RaisedBits ==
  ASSUME NEW e \in Entries, NEW c \in Counters, c > e.max
  PROVE  /\ Raised(e, c) \in Entries
         /\ Raised(e, c).max = c
         /\ \A d \in Counters :
              (d < c /\ c - d < WindowSize) =>
                 (c - d - 1 \in Raised(e, c).bitmap
                    <=> \/ d = e.max
                        \/ d < e.max /\ e.max - d - 1 \in e.bitmap)
  <1> DEFINE n == c - e.max
  <1>1. n \in Nat \ {0} /\ e.max \in Nat /\ c \in Nat /\ e.bitmap \in SUBSET Nat
    BY CounterAssumption DEF Entries, Counters
  <1>2. Shifted(e.bitmap, n) \in SUBSET Nat
    BY <1>1, ShiftedBits
  <1>3. Raised(e, c) \in Entries /\ Raised(e, c).max = c
    BY <1>2 DEF Raised, Entries
  <1>4. ASSUME NEW d \in Counters, d < c, c - d < WindowSize
        PROVE  c - d - 1 \in Raised(e, c).bitmap
                  <=> d = e.max \/ (d < e.max /\ e.max - d - 1 \in e.bitmap)
    <2>1. d \in Nat /\ WindowSize \in Nat
      BY WindowAssumption, CounterAssumption DEF Counters
    <2>2. CASE n < WindowSize
      <3>1. Raised(e, c).bitmap = Shifted(e.bitmap, n)
        BY <2>2 DEF Raised
      <3>2. c - d - 1 \in Nat
        BY <1>1, <1>4, <2>1
      <3>3. c - d - 1 \in Shifted(e.bitmap, n)
               <=> \/ c - d - 1 = n - 1
                   \/ c - d - 1 >= n /\ (c - d - 1) - n \in e.bitmap
        BY <1>1, <3>2, ShiftedBits
      <3>4. /\ (c - d - 1) - n = e.max - d - 1
            /\ c - d - 1 = n - 1 <=> d = e.max
            /\ c - d - 1 >= n <=> d < e.max
        BY <1>1, <2>1
      <3> QED
        BY <3>1, <3>3, <3>4
    <2>3. CASE ~(n < WindowSize)
      <3>1. Raised(e, c).bitmap = {}
        BY <2>3 DEF Raised
      <3>2. d > e.max
        BY <1>1, <1>4, <2>1, <2>3
      <3> QED
        BY <1>1, <2>1, <3>1, <3>2
    <2> QED
      BY <2>2, <2>3
  <1> QED
    BY <1>3, <1>4

\* A raised entry matches the history with the new counter accepted, which
\* had not been accepted before.
LEMMA RaisedMatches ==
  ASSUME NEW e \in Entries, NEW h \in Histories, NEW c \in Counters,
         Matches(e, h), c > e.max
  PROVE  Matches(Raised(e, c), Counted(h, c))
  <1> DEFINE hh == Counted(h, c)
             r == Raised(e, c)
  <1>0. e.max \in Nat /\ e.max \in Counters /\ c \in Nat /\ WindowSize \in Nat
    BY CounterAssumption, WindowAssumption DEF Entries, Counters
  <1>1. h[c] = 0
    BY DEF Matches
  <1>2. hh[c] = 1 /\ \A d \in Counters : d # c => hh[d] = h[d]
    BY <1>1, CountFacts
  <1>3. r.max = c
    BY RaisedBits
  <1>4. ASSUME NEW d \in Counters
        PROVE  /\ hh[d] \in {0, 1}
               /\ d > c => hh[d] = 0
    <2>1. d \in Nat
      BY CounterAssumption DEF Counters
    <2>2. h[d] \in {0, 1} /\ (d > e.max => h[d] = 0)
      BY DEF Matches
    <2> QED
      BY <1>0, <1>2, <2>1, <2>2
  <1>5. ASSUME NEW d \in Counters, d < c, c - d < WindowSize
        PROVE  c - d - 1 \in r.bitmap <=> hh[d] = 1
    <2>1. d \in Nat /\ d # c
      BY <1>0, <1>5, CounterAssumption DEF Counters
    <2>2. c - d - 1 \in r.bitmap
             <=> d = e.max \/ (d < e.max /\ e.max - d - 1 \in e.bitmap)
      BY <1>5, RaisedBits
    <2>3. hh[d] = h[d]
      BY <1>2, <2>1
    <2>4. CASE d = e.max
      BY <2>2, <2>3, <2>4 DEF Matches
    <2>5. CASE d > e.max
      <3>1. h[d] = 0
        BY <2>5 DEF Matches
      <3> QED
        BY <1>0, <2>1, <2>2, <2>3, <2>5, <3>1
    <2>6. CASE d < e.max
      <3>1. e.max - d < WindowSize
        BY <1>0, <1>5, <2>1
      <3>2. e.max - d - 1 \in e.bitmap <=> h[d] = 1
        BY <2>6, <3>1 DEF Matches
      <3> QED
        BY <1>0, <2>1, <2>2, <2>3, <2>6, <3>2
    <2> QED
      BY <1>0, <2>1, <2>4, <2>5, <2>6
  <1> QED
    BY <1>2, <1>3, <1>4, <1>5 DEF Matches

\* The entry LateArrival stores.
Marked(e, c) == [max |-> e.max, bitmap |-> e.bitmap \cup {e.max - c - 1}]

\* Marking a late counter keeps the entry and the history matched.
LEMMA MarkedMatches ==
  ASSUME NEW e \in Entries, NEW h \in Histories, NEW c \in Counters,
         Matches(e, h), c < e.max, e.max - c < WindowSize,
         e.max - c - 1 \notin e.bitmap
  PROVE  /\ Marked(e, c) \in Entries
         /\ Matches(Marked(e, c), Counted(h, c))
  <1> DEFINE hh == Counted(h, c)
  <1>1. e.max \in Nat /\ e.max \in Counters /\ c \in Nat /\ e.bitmap \in SUBSET Nat
    BY CounterAssumption DEF Entries, Counters
  <1>2. h[c] = 0
    BY DEF Matches
  <1>3. hh[c] = 1 /\ \A d \in Counters : d # c => hh[d] = h[d]
    BY <1>2, CountFacts
  <1>4. Marked(e, c) \in Entries
    <2>1. e.max - c - 1 \in Nat
      BY <1>1
    <2> QED
      BY <1>1, <2>1 DEF Marked, Entries
  <1>5. ASSUME NEW d \in Counters
        PROVE  /\ hh[d] \in {0, 1}
               /\ d > e.max => hh[d] = 0
               /\ (d < e.max /\ e.max - d < WindowSize)
                    => (e.max - d - 1 \in Marked(e, c).bitmap <=> hh[d] = 1)
    <2>1. d \in Nat
      BY CounterAssumption DEF Counters
    <2>2. CASE d = c
      BY <1>1, <1>3, <2>2 DEF Marked
    <2>3. CASE d # c
      <3>1. e.max - d - 1 # e.max - c - 1
        BY <1>1, <2>1, <2>3
      <3>2. e.max - d - 1 \in Marked(e, c).bitmap <=> e.max - d - 1 \in e.bitmap
        BY <3>1 DEF Marked
      <3> QED
        BY <1>3, <2>3, <3>2 DEF Matches
    <2> QED
      BY <2>2, <2>3
  <1>6. hh[e.max] = 1
    BY <1>1, <1>3 DEF Matches
  <1> QED
    BY <1>4, <1>5, <1>6 DEF Matches, Marked

------------------------------------------------------------------------------
(* States: the invariant.                                                  *)

\* Initially no key is tracked and nothing was accepted.
LEMMA InitInv == Init => IInv
  <1> SUFFICES ASSUME Init PROVE IInv
    OBVIOUS
  <1>1. Tracked = {}
    BY DEF Init, Tracked
  <1>2. TypeOK
    BY <1>1 DEF Init, TypeOK
  <1>3. HistoryExact
    BY <1>1, CounterAssumption DEF Init, HistoryExact, Counters
  <1>4. RejectsOnlyWithCause
    BY DEF Init, RejectsOnlyWithCause, NoCall
  <1> QED
    BY <1>2, <1>3, <1>4 DEF IInv

\* Storing an entry that matches the new history of its key, and counting the
\* acceptance, preserves the invariant: the three accepting branches.
LEMMA StoreInv ==
  ASSUME IInv, NEW k \in Keys, NEW c \in Counters, NEW e \in Entries,
         guard' = Put(guard, k, e), Accepted(k, c),
         Matches(e, Counted(accepts[k], c))
  PROVE  IInv'
  <1>1. accepts[k] \in Histories /\ Counted(accepts[k], c) \in Histories
    BY CountFacts DEF Histories, IInv, TypeOK
  <1>2. /\ accepts' \in [Keys -> Histories]
        /\ accepts'[k] = Counted(accepts[k], c)
        /\ \A j \in Keys : j # k => accepts'[j] = accepts[j]
    BY <1>1 DEF Accepted, Histories, IInv, TypeOK
  <1>3. /\ Tracked' = Tracked \cup {k}
        /\ guard'[k] = e
        /\ \A j \in Tracked : j # k => guard'[j] = guard[j]
    <2>1. /\ DOMAIN Put(guard, k, e) = DOMAIN guard \cup {k}
          /\ Put(guard, k, e)[k] = e
          /\ \A j \in DOMAIN guard : j # k => Put(guard, k, e)[j] = guard[j]
      BY DEF Put
    <2> QED
      BY <2>1 DEF Tracked
  <1>4. guard' \in [Tracked' -> Entries]
    BY <1>3 DEF Put, Tracked, IInv, TypeOK
  <1>5. reply' = Answer(k, c, "accept")
    BY DEF Accepted
  <1>6. TypeOK'
    BY <1>2, <1>3, <1>4, <1>5 DEF Answer, Histories, IInv, TypeOK
  <1>7. HistoryExact'
    <2>1. ASSUME NEW j \in Keys \ Tracked', NEW d \in Counters
          PROVE  accepts'[j][d] = 0
      BY <1>2, <1>3 DEF HistoryExact, IInv, TypeOK
    <2>2. ASSUME NEW j \in Tracked'
          PROVE  Matches(guard'[j], accepts'[j])
      BY <1>2, <1>3 DEF HistoryExact, IInv, TypeOK
    <2> QED
      BY <2>1, <2>2 DEF HistoryExact, Matches, Counters, Keys
  <1>8. RejectsOnlyWithCause'
    BY <1>5 DEF RejectsOnlyWithCause, Answer
  <1> QED
    BY <1>6, <1>7, <1>8 DEF IInv

\* A rejection that has a cause preserves the invariant.
LEMMA RejectInv ==
  ASSUME IInv, NEW k \in Keys, NEW c \in Counters, Rejected(k, c),
         \/ accepts[k][c] = 1
         \/ \E d \in Counters : accepts[k][d] = 1 /\ d - c >= WindowSize
  PROVE  IInv'
  <1> USE DEF IInv
  <1>1. reply' = Answer(k, c, "reject") /\ UNCHANGED <<guard, accepts>>
    BY DEF Rejected
  <1>2. TypeOK'
    BY <1>1 DEF TypeOK, Tracked, Answer
  <1>3. HistoryExact'
    BY <1>1 DEF HistoryExact, Tracked, Matches
  <1>4. RejectsOnlyWithCause'
    BY <1>1 DEF RejectsOnlyWithCause, Answer
  <1> QED
    BY <1>2, <1>3, <1>4

\* Flushing keys removes their entries and their history together.
LEMMA FlushInv ==
  ASSUME IInv, NEW K \in SUBSET Keys, Flush(K)
  PROVE  IInv'
  <1> USE DEF IInv, TypeOK
  <1>1. /\ Tracked' = Tracked \ K
        /\ guard' \in [Tracked' -> Entries]
        /\ \A j \in Tracked' : guard'[j] = guard[j]
    BY DEF Flush, Drop, Tracked
  <1>2. /\ accepts' \in [Keys -> [Counters -> Nat]]
        /\ \A j \in Keys, d \in Counters : j \in K => accepts'[j][d] = 0
        /\ \A j \in Keys : j \notin K => accepts'[j] = accepts[j]
    BY DEF Flush
  <1>3. reply' = NoCall
    BY DEF Flush
  <1>4. TypeOK'
    BY <1>1, <1>2, <1>3
  <1>5. HistoryExact'
    BY <1>1, <1>2 DEF HistoryExact, Matches
  <1>6. RejectsOnlyWithCause'
    BY <1>3 DEF RejectsOnlyWithCause, NoCall
  <1> QED
    BY <1>4, <1>5, <1>6

\* Every branch of check_and_accept preserves the invariant.
LEMMA CheckInv ==
  ASSUME IInv, NEW k \in Keys, NEW c \in Counters, CheckAndAccept(k, c)
  PROVE  IInv'
  <1>0. /\ accepts[k] \in Histories
        /\ k \in Tracked => guard[k] \in Entries /\ Matches(guard[k], accepts[k])
        /\ k \notin Tracked => \A d \in Counters : accepts[k][d] = 0
    BY DEF IInv, TypeOK, HistoryExact, Histories
  <1>n. c \in Nat /\ (k \in Tracked => guard[k].max \in Nat /\ guard[k].max \in Counters)
    BY <1>0, CounterAssumption DEF Entries, Counters
  <1>1. CASE FirstMessage(k, c)
    <2>1. [max |-> c, bitmap |-> {}] \in Entries
      BY DEF Entries
    <2>2. Matches([max |-> c, bitmap |-> {}], Counted(accepts[k], c))
      BY <1>0, <1>1, FirstMatches DEF FirstMessage
    <2> QED
      BY <1>1, <2>1, <2>2, StoreInv DEF FirstMessage
  <1>2. CASE NewHigh(k, c)
    <2>1. k \in Tracked /\ c > guard[k].max
      BY <1>2 DEF NewHigh
    <2>2. guard' = Put(guard, k, Raised(guard[k], c)) /\ Accepted(k, c)
      BY <1>2 DEF NewHigh, Raised
    <2>3. Raised(guard[k], c) \in Entries
      BY <1>0, <2>1, RaisedBits
    <2>4. Matches(Raised(guard[k], c), Counted(accepts[k], c))
      BY <1>0, <2>1, RaisedMatches
    <2> QED
      BY <2>2, <2>3, <2>4, StoreInv
  <1>3. CASE ExactReplay(k, c)
    BY <1>0, <1>3, RejectInv DEF ExactReplay, Matches
  <1>4. CASE TooOld(k, c)
    <2>1. /\ k \in Tracked /\ Rejected(k, c)
          /\ guard[k].max - c >= WindowSize
          /\ accepts[k][guard[k].max] = 1
      BY <1>0, <1>4 DEF TooOld, Matches
    <2> QED
      BY <1>n, <2>1, RejectInv
  <1>5. CASE AlreadySeen(k, c)
    BY <1>0, <1>5, RejectInv DEF AlreadySeen, Late, BitOf, Matches
  <1>6. CASE LateArrival(k, c)
    <2>1. /\ k \in Tracked /\ c < guard[k].max
          /\ guard[k].max - c < WindowSize
          /\ guard[k].max - c - 1 \notin guard[k].bitmap
      BY <1>6 DEF LateArrival, Late, BitOf
    <2>2. guard' = Put(guard, k, Marked(guard[k], c)) /\ Accepted(k, c)
      BY <1>6 DEF LateArrival, Marked, BitOf
    <2>3. /\ Marked(guard[k], c) \in Entries
          /\ Matches(Marked(guard[k], c), Counted(accepts[k], c))
      BY <1>0, <2>1, MarkedMatches
    <2> QED
      BY <2>2, <2>3, StoreInv
  <1> QED
    BY <1>1, <1>2, <1>3, <1>4, <1>5, <1>6 DEF CheckAndAccept

LEMMA StepInv == IInv /\ [Next]_vars => IInv'
  <1> SUFFICES ASSUME IInv, [Next]_vars PROVE IInv'
    OBVIOUS
  <1>1. ASSUME NEW k \in Keys, NEW c \in Counters, CheckAndAccept(k, c)
        PROVE  IInv'
    BY <1>1, CheckInv
  <1>2. ASSUME NEW p \in PublisherIds, NEW e \in EpochIds, FlushEpoch(p, e)
        PROVE  IInv'
    <2>1. {<<p, e>>} \in SUBSET Keys
      BY DEF Keys
    <2> QED
      BY <1>2, <2>1, FlushInv DEF FlushEpoch
  <1>3. CASE FlushAll
    BY <1>3, FlushInv DEF FlushAll
  <1>4. CASE UNCHANGED vars
    BY <1>4 DEF vars, IInv, TypeOK, HistoryExact, RejectsOnlyWithCause,
                Tracked, Matches
  <1> QED
    BY <1>1, <1>2, <1>3, <1>4 DEF Next

\* The table and its history match in every reachable state.
THEOREM InductiveInvariant == Spec => []IInv
  BY InitInv, StepInv, PTL DEF Spec

\* The variables keep their types.
THEOREM TypeCorrect == Spec => []TypeOK
  <1>1. IInv => TypeOK
    BY DEF IInv
  <1> QED
    BY <1>1, InductiveInvariant, PTL

\* check_and_accept accepts no counter of a key twice between two flushes.
THEOREM NeverAcceptedTwice == Spec => []NoDoubleAccept
  <1>1. IInv => NoDoubleAccept
    <2> SUFFICES ASSUME IInv, NEW k \in Keys, NEW c \in Counters
                 PROVE  accepts[k][c] <= 1
      BY DEF NoDoubleAccept
    <2>1. accepts[k][c] \in {0, 1}
      BY DEF IInv, HistoryExact, Matches
    <2> QED
      BY <2>1
  <1> QED
    BY <1>1, InductiveInvariant, PTL

\* Inside the window the bitmap records exactly the accepted counters.
THEOREM BitmapExact == Spec => []WindowExact
  <1>1. IInv => WindowExact
    BY DEF IInv, HistoryExact, Matches, WindowExact, Late, BitOf
  <1> QED
    BY <1>1, InductiveInvariant, PTL

\* A counter is rejected only if it was accepted before or is too old.
THEOREM NoFreshMessageLost == Spec => []RejectsOnlyWithCause
  <1>1. IInv => RejectsOnlyWithCause
    BY DEF IInv
  <1> QED
    BY <1>1, InductiveInvariant, PTL

\* The highest counter of a tracked key never moves back.
THEOREM MaxMonotone == Spec => MaxNeverDecreases
  <1>1. ASSUME IInv, [Next]_vars, NEW j \in Tracked, j \in DOMAIN guard'
        PROVE  guard'[j].max >= guard[j].max
    <2>0. guard[j].max \in Nat /\ j \in Keys
      BY <1>1, CounterAssumption DEF IInv, TypeOK, Entries, Counters
    <2>1. ASSUME NEW k \in Keys, NEW c \in Counters, CheckAndAccept(k, c)
          PROVE  guard'[j].max >= guard[j].max
      <3>0. c \in Nat
        BY CounterAssumption DEF Counters
      <3>1. ASSUME NEW e, guard' = Put(guard, k, e),
                   k = j => e.max >= guard[j].max
            PROVE  guard'[j].max >= guard[j].max
        <4>1. guard'[j] = IF j = k THEN e ELSE guard[j]
          BY <3>1 DEF Put, Tracked
        <4> QED
          BY <2>0, <3>1, <4>1
      <3>2. CASE FirstMessage(k, c)
        BY <1>1, <3>1, <3>2 DEF FirstMessage
      <3>3. CASE NewHigh(k, c)
        <4>1. guard' = Put(guard, k, Raised(guard[k], c)) /\ c > guard[k].max
          BY <3>3 DEF NewHigh, Raised
        <4>2. Raised(guard[k], c).max = c
          BY DEF Raised
        <4> QED
          BY <2>0, <3>0, <3>1, <4>1, <4>2
      <3>4. CASE LateArrival(k, c)
        BY <2>0, <3>1, <3>4 DEF LateArrival
      <3>5. CASE Rejected(k, c)
        BY <2>0, <3>5 DEF Rejected
      <3> QED
        BY <2>1, <3>2, <3>3, <3>4, <3>5
           DEF CheckAndAccept, ExactReplay, TooOld, AlreadySeen
    <2>2. ASSUME NEW K, Flush(K)
          PROVE  guard'[j].max >= guard[j].max
      BY <1>1, <2>0, <2>2 DEF Flush, Drop
    <2>3. CASE UNCHANGED vars
      BY <2>0, <2>3 DEF vars
    <2> QED
      BY <1>1, <2>1, <2>2, <2>3 DEF Next, FlushEpoch, FlushAll
  <1>2. IInv /\ [Next]_vars =>
          [\A k \in Tracked :
             k \in DOMAIN guard' => guard'[k].max >= guard[k].max]_vars
    BY <1>1
  <1> QED
    BY <1>2, InductiveInvariant, PTL DEF Spec, MaxNeverDecreases

------------------------------------------------------------------------------
(* Refinement: the table stands for a sliding window of counters.          *)

\* The window an entry stands for.
WindowSet(e) ==
  {c \in Counters : \/ c = e.max
                    \/ /\ c < e.max
                       /\ e.max - c < WindowSize
                       /\ e.max - c - 1 \in e.bitmap}

LEMMA WindowOfKey ==
  ASSUME NEW k
  PROVE  WindowOf(k) = IF k \in Tracked THEN WindowSet(guard[k]) ELSE {}
  BY DEF WindowOf, WindowSet, Late, BitOf

\* A counter is fresh for the window of an entry exactly when check_and_accept
\* finds it above the highest counter, or inside the window without a bit.
LEMMA FreshForEntry ==
  ASSUME NEW e \in Entries, NEW c \in Counters
  PROVE  Abstract!Fresh(WindowSet(e), c)
            <=> \/ c > e.max
                \/ /\ c < e.max
                   /\ e.max - c < WindowSize
                   /\ e.max - c - 1 \notin e.bitmap
  <1>1. e.max \in Counters /\ e.max \in Nat /\ c \in Nat /\ WindowSize \in Nat \ {0}
    BY CounterAssumption, WindowAssumption DEF Entries, Counters
  <1>2. \A d \in WindowSet(e) : d \in Nat /\ d <= e.max
    BY <1>1, CounterAssumption DEF WindowSet, Counters
  <1>3. Abstract!Recent(WindowSet(e), c) <=> e.max - c < WindowSize
    <2>1. e.max \in WindowSet(e)
      BY <1>1 DEF WindowSet
    <2> QED
      BY <1>1, <1>2, <2>1 DEF Abstract!Recent
  <1>4. c \in WindowSet(e) <=> \/ c = e.max
                              \/ /\ c < e.max
                                 /\ e.max - c < WindowSize
                                 /\ e.max - c - 1 \in e.bitmap
    BY DEF WindowSet
  <1> QED
    BY <1>1, <1>3, <1>4 DEF Abstract!Fresh

\* A new high slides the window up to the new counter.
LEMMA RaisedWindow ==
  ASSUME NEW e \in Entries, NEW c \in Counters, c > e.max
  PROVE  WindowSet(Raised(e, c)) = Abstract!Slide(WindowSet(e) \cup {c})
  <1> DEFINE S == WindowSet(e) \cup {c}
  <1>1. e.max \in Nat /\ e.max \in Counters /\ c \in Nat /\ WindowSize \in Nat \ {0}
    BY CounterAssumption, WindowAssumption DEF Entries, Counters
  <1>2. \A d \in S : d \in Nat /\ d <= c /\ d \in Counters
    BY <1>1, CounterAssumption DEF WindowSet, Counters
  <1>3. \A d \in S : Abstract!Recent(S, d) <=> c - d < WindowSize
    BY <1>1, <1>2 DEF Abstract!Recent
  <1>4. ASSUME NEW d \in Counters
        PROVE  d \in WindowSet(Raised(e, c)) <=> d \in S /\ c - d < WindowSize
    <2>1. d \in Nat
      BY CounterAssumption DEF Counters
    <2>2. Raised(e, c).max = c
      BY RaisedBits
    <2>3. d < c /\ c - d < WindowSize =>
            (c - d - 1 \in Raised(e, c).bitmap
               <=> d = e.max \/ (d < e.max /\ e.max - d - 1 \in e.bitmap))
      BY RaisedBits
    <2>4. d \in WindowSet(Raised(e, c))
            <=> \/ d = c
                \/ /\ d < c /\ c - d < WindowSize
                   /\ d = e.max \/ (d < e.max /\ e.max - d - 1 \in e.bitmap)
      BY <2>2, <2>3 DEF WindowSet
    <2>5. d \in S
            <=> \/ d = c
                \/ d = e.max
                \/ /\ d < e.max /\ e.max - d < WindowSize
                   /\ e.max - d - 1 \in e.bitmap
      BY DEF WindowSet
    <2> QED
      BY <1>1, <2>1, <2>4, <2>5
  <1>5. Abstract!Slide(S) = {d \in S : c - d < WindowSize}
    BY <1>3 DEF Abstract!Slide
  <1>6. WindowSet(Raised(e, c)) \subseteq Counters
    BY DEF WindowSet
  <1> QED
    BY <1>2, <1>4, <1>5, <1>6

\* A late arrival joins the window, which does not slide.
LEMMA MarkedWindow ==
  ASSUME NEW e \in Entries, NEW c \in Counters,
         c < e.max, e.max - c < WindowSize
  PROVE  WindowSet(Marked(e, c)) = Abstract!Slide(WindowSet(e) \cup {c})
  <1> DEFINE S == WindowSet(e) \cup {c}
  <1>1. e.max \in Nat /\ e.max \in Counters /\ c \in Nat /\ WindowSize \in Nat \ {0}
    BY CounterAssumption, WindowAssumption DEF Entries, Counters
  <1>2. \A d \in S : d \in Nat /\ d <= e.max /\ e.max - d < WindowSize
    BY <1>1, CounterAssumption DEF WindowSet, Counters
  <1>3. Abstract!Slide(S) = S
    BY <1>1, <1>2 DEF Abstract!Slide, Abstract!Recent
  <1>4. ASSUME NEW d \in Counters
        PROVE  d \in WindowSet(Marked(e, c)) <=> d \in S
    <2>1. d \in Nat
      BY CounterAssumption DEF Counters
    <2>2. e.max - d - 1 = e.max - c - 1 <=> d = c
      BY <1>1, <2>1
    <2> QED
      BY <1>1, <2>1, <2>2 DEF WindowSet, Marked
  <1>5. WindowSet(Marked(e, c)) \subseteq Counters /\ S \subseteq Counters
    BY DEF WindowSet
  <1> QED
    BY <1>3, <1>4, <1>5

\* The mapped window after storing entry e under key k.
LEMMA StoreWindow ==
  ASSUME TypeOK, NEW k \in Keys, NEW e, guard' = Put(guard, k, e)
  PROVE  [j \in Keys |-> WindowOf(j)]' =
         [[j \in Keys |-> WindowOf(j)] EXCEPT ![k] = WindowSet(e)]
  <1>1. /\ Tracked' = Tracked \cup {k}
        /\ guard'[k] = e
        /\ \A j \in Tracked : j # k => guard'[j] = guard[j]
    <2>1. /\ DOMAIN Put(guard, k, e) = DOMAIN guard \cup {k}
          /\ Put(guard, k, e)[k] = e
          /\ \A j \in DOMAIN guard : j # k => Put(guard, k, e)[j] = guard[j]
      BY DEF Put
    <2> QED
      BY <2>1 DEF Tracked
  <1>2. ASSUME NEW j \in Keys
        PROVE  WindowOf(j)' = IF j = k THEN WindowSet(e) ELSE WindowOf(j)
    <2>1. WindowOf(j)' = IF j \in Tracked' THEN WindowSet(guard'[j]) ELSE {}
      BY DEF WindowOf, WindowSet, Late, BitOf
    <2> QED
      BY <1>1, <2>1, WindowOfKey
  <1> QED
    BY <1>2

\* An accepting call is an accepting call of the abstract window.
LEMMA AcceptRefines ==
  ASSUME TypeOK, NEW k \in Keys, NEW c \in Counters, NEW e,
         guard' = Put(guard, k, e), Accepted(k, c),
         Abstract!Fresh(WindowOf(k), c),
         WindowSet(e) = Abstract!Slide(WindowOf(k) \cup {c})
  PROVE  Abstract!Accept(k, c)
  BY StoreWindow DEF Abstract!Accept, Accepted, Answer, Abstract!Answer

\* A rejecting call is a rejecting call of the abstract window.
LEMMA RejectRefines ==
  ASSUME NEW k \in Keys, NEW c \in Counters, Rejected(k, c),
         ~Abstract!Fresh(WindowOf(k), c)
  PROVE  Abstract!Reject(k, c)
  <1>1. [j \in Keys |-> WindowOf(j)]' = [j \in Keys |-> WindowOf(j)]
    BY DEF Rejected, WindowOf, Late, BitOf, Tracked
  <1> QED
    BY <1>1 DEF Rejected, Abstract!Reject, Answer, Abstract!Answer

\* Every branch of check_and_accept answers as the abstract window does.
LEMMA CheckRefines ==
  ASSUME TypeOK, NEW k \in Keys, NEW c \in Counters, CheckAndAccept(k, c)
  PROVE  Abstract!Accept(k, c) \/ Abstract!Reject(k, c)
  <1>0. k \in Tracked => /\ guard[k] \in Entries
                         /\ WindowOf(k) = WindowSet(guard[k])
    BY WindowOfKey DEF TypeOK
  <1>n. /\ c \in Nat /\ WindowSize \in Nat \ {0}
        /\ k \in Tracked => guard[k].max \in Nat
    BY <1>0, CounterAssumption, WindowAssumption DEF Entries, Counters
  <1>f. k \in Tracked =>
          (Abstract!Fresh(WindowOf(k), c)
             <=> \/ c > guard[k].max
                 \/ /\ c < guard[k].max
                    /\ guard[k].max - c < WindowSize
                    /\ guard[k].max - c - 1 \notin guard[k].bitmap)
    BY <1>0, FreshForEntry
  <1>1. CASE FirstMessage(k, c)
    <2>1. WindowOf(k) = {}
      BY <1>1, WindowOfKey DEF FirstMessage
    <2>2. Abstract!Fresh(WindowOf(k), c)
      BY <2>1 DEF Abstract!Fresh, Abstract!Recent
    <2>3. Abstract!Slide(WindowOf(k) \cup {c}) = {c}
      BY <1>n, <2>1 DEF Abstract!Slide, Abstract!Recent
    <2>4. WindowSet([max |-> c, bitmap |-> {}]) = {c}
      BY DEF WindowSet
    <2> QED
      BY <1>1, <2>2, <2>3, <2>4, AcceptRefines DEF FirstMessage
  <1>2. CASE NewHigh(k, c)
    <2>1. k \in Tracked /\ c > guard[k].max
      BY <1>2 DEF NewHigh
    <2>2. guard' = Put(guard, k, Raised(guard[k], c)) /\ Accepted(k, c)
      BY <1>2 DEF NewHigh, Raised
    <2>3. WindowSet(Raised(guard[k], c)) = Abstract!Slide(WindowOf(k) \cup {c})
      BY <1>0, <2>1, RaisedWindow
    <2> QED
      BY <1>f, <2>1, <2>2, <2>3, AcceptRefines
  <1>3. CASE ExactReplay(k, c)
    <2>1. ~Abstract!Fresh(WindowOf(k), c)
      BY <1>3, <1>n, <1>f DEF ExactReplay
    <2> QED
      BY <1>3, <2>1, RejectRefines DEF ExactReplay
  <1>4. CASE TooOld(k, c)
    <2>1. ~Abstract!Fresh(WindowOf(k), c)
      BY <1>4, <1>n, <1>f DEF TooOld
    <2> QED
      BY <1>4, <2>1, RejectRefines DEF TooOld
  <1>5. CASE AlreadySeen(k, c)
    <2>1. ~Abstract!Fresh(WindowOf(k), c)
      BY <1>5, <1>n, <1>f DEF AlreadySeen, Late, BitOf
    <2> QED
      BY <1>5, <2>1, RejectRefines DEF AlreadySeen
  <1>6. CASE LateArrival(k, c)
    <2>1. /\ k \in Tracked /\ c < guard[k].max
          /\ guard[k].max - c < WindowSize
          /\ guard[k].max - c - 1 \notin guard[k].bitmap
      BY <1>6 DEF LateArrival, Late, BitOf
    <2>2. guard' = Put(guard, k, Marked(guard[k], c)) /\ Accepted(k, c)
      BY <1>6 DEF LateArrival, Marked, BitOf
    <2>3. WindowSet(Marked(guard[k], c)) = Abstract!Slide(WindowOf(k) \cup {c})
      BY <1>0, <2>1, MarkedWindow
    <2> QED
      BY <1>f, <2>1, <2>2, <2>3, AcceptRefines
  <1> QED
    BY <1>1, <1>2, <1>3, <1>4, <1>5, <1>6 DEF CheckAndAccept

\* Flushing forgets the windows of the flushed keys.
LEMMA FlushRefines ==
  ASSUME TypeOK, NEW K \in SUBSET Keys, Flush(K)
  PROVE  Abstract!Forget(K)
  <1>1. /\ Tracked' = Tracked \ K
        /\ \A j \in Tracked' : guard'[j] = guard[j]
    BY DEF Flush, Drop, Tracked
  <1>2. ASSUME NEW j \in Keys
        PROVE  WindowOf(j)' = IF j \in K THEN {} ELSE WindowOf(j)
    <2>1. WindowOf(j)' = IF j \in Tracked' THEN WindowSet(guard'[j]) ELSE {}
      BY DEF WindowOf, WindowSet, Late, BitOf
    <2> QED
      BY <1>1, <2>1, WindowOfKey
  <1>3. [j \in Keys |-> WindowOf(j)]' =
        [j \in Keys |-> IF j \in K THEN {} ELSE [i \in Keys |-> WindowOf(i)][j]]
    BY <1>2
  <1> QED
    BY <1>3 DEF Flush, Abstract!Forget, NoCall, Abstract!NoCall

\* The bitmap guard implements the abstract sliding window, answers included.
THEOREM Refinement == Spec => ImplementsSlidingWindow
  <1>1. Init => Abstract!Init
    <2> SUFFICES ASSUME Init PROVE Abstract!Init
      OBVIOUS
    <2>1. \A k \in Keys : WindowOf(k) = {}
      BY DEF Init, WindowOf, Tracked
    <2> QED
      BY <2>1 DEF Init, Abstract!Init, NoCall, Abstract!NoCall
  <1>2. IInv /\ [Next]_vars => [Abstract!Next]_(Abstract!wvars)
    <2> SUFFICES ASSUME TypeOK, [Next]_vars
                 PROVE  [Abstract!Next]_(Abstract!wvars)
      BY DEF IInv
    <2>1. ASSUME NEW k \in Keys, NEW c \in Counters, CheckAndAccept(k, c)
          PROVE  Abstract!Next
      BY <2>1, CheckRefines DEF Abstract!Next, Counters, Abstract!Counters
    <2>2. ASSUME NEW K \in SUBSET Keys, Flush(K)
          PROVE  Abstract!Next
      BY <2>2, FlushRefines DEF Abstract!Next
    <2>3. ASSUME NEW p \in PublisherIds, NEW e \in EpochIds, FlushEpoch(p, e)
          PROVE  Abstract!Next
      <3>1. {<<p, e>>} \in SUBSET Keys
        BY DEF Keys
      <3> QED
        BY <2>2, <2>3, <3>1 DEF FlushEpoch
    <2>4. CASE FlushAll
      BY <2>2, <2>4 DEF FlushAll
    <2>5. CASE UNCHANGED vars
      <3>1. [k \in Keys |-> WindowOf(k)]' = [k \in Keys |-> WindowOf(k)]
        BY <2>5 DEF vars, WindowOf, Late, BitOf, Tracked
      <3> QED
        BY <2>5, <3>1 DEF vars, Abstract!wvars
    <2> QED
      BY <2>1, <2>3, <2>4, <2>5 DEF Next
  <1> QED
    BY <1>1, <1>2, InductiveInvariant, PTL
       DEF Spec, ImplementsSlidingWindow, Abstract!Spec
=============================================================================
