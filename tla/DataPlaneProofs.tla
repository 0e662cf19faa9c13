--------------------------- MODULE DataPlaneProofs ---------------------------
(***************************************************************************)
(* Proofs about DataPlane for any level, number of epochs, counter range,  *)
(* window, and number of associations, rotations, reboots and faults.      *)
(*                                                                         *)
(* The registry's and the guard's inductive invariants are those of their  *)
(* own proofs, which are used here by INSTANCE: an action of DataPlane     *)
(* takes one of their steps or leaves their variables alone.               *)
(***************************************************************************)
EXTENDS DataPlane, FiniteSetTheorems, TLAPS

RegistryProofs == INSTANCE TopicRegistryProofs WITH
  Topics <- {Topic}, LevelRanges <- {<<Level, Level>>}, InitialEpochs <- {FirstEpoch}

GuardProofs == INSTANCE ReplayGuardProofs WITH
  PublisherIds <- 1..PublisherIdMax, EpochIds <- 0..EpochCount - 1

------------------------------------------------------------------------------
(* The components.                                                         *)

\* The assumptions of the components' proofs hold of what DataPlane gives them.
LEMMA ComponentAssumptions ==
  /\ RegistryProofs!RangeAssumption
  /\ RegistryProofs!EpochAssumption
  /\ RegistryProofs!PublisherIdAssumption
  /\ GuardProofs!CounterAssumption
  /\ GuardProofs!WindowAssumption
  BY LevelAssumption, EpochAssumption, PublisherIdAssumption, WindowAssumption
     DEF RegistryProofs!RangeAssumption, RegistryProofs!EpochAssumption,
         RegistryProofs!PublisherIdAssumption, GuardProofs!CounterAssumption,
         GuardProofs!WindowAssumption

\* What the registry does, in the words of its proofs.
LEMMA RegistryAsProved ==
  /\ Registry!Init => RegistryProofs!Init
  /\ RegistryProofs!TypeOK => Registry!TypeOK
  /\ Registry!CreateTopicAssociation(Topic, Level, Level, Level, FirstEpoch)
       => RegistryProofs!CreateTopicAssociation(Topic, Level, Level, Level, FirstEpoch)
  /\ Registry!RotateEpoch(Topic) => RegistryProofs!RotateEpoch(Topic)
  <1>1. Registry!Init => RegistryProofs!Init
    BY DEF Registry!Init, RegistryProofs!Init
  <1>2. RegistryProofs!TypeOK => Registry!TypeOK
    BY DEF RegistryProofs!TypeOK, RegistryProofs!EntryOK, RegistryProofs!ConfigOK,
           RegistryProofs!IsTable, RegistryProofs!Epochs, RegistryProofs!Levels,
           RegistryProofs!Seeds, RegistryProofs!Keys, RegistryProofs!NoPublisher,
           Registry!TypeOK, Registry!EntryOK, Registry!ConfigOK,
           Registry!IsTable, Registry!Epochs, Registry!Levels,
           Registry!Seeds, Registry!Keys, Registry!NoPublisher
  <1>3. Registry!CreateTopicAssociation(Topic, Level, Level, Level, FirstEpoch)
          => RegistryProofs!CreateTopicAssociation(Topic, Level, Level, Level, FirstEpoch)
    BY DEF Registry!CreateTopicAssociation, Registry!IdSpaceExhausted,
           Registry!TakePublisherId, Registry!Put, Registry!DeriveAll,
           Registry!Derive, Registry!FreshSeeds, Registry!FreshSaltSeed,
           Registry!Secured, Registry!NewEntry, Registry!PublisherConfig,
           RegistryProofs!CreateTopicAssociation, RegistryProofs!IdSpaceExhausted,
           RegistryProofs!TakePublisherId, RegistryProofs!Put,
           RegistryProofs!DeriveAll, RegistryProofs!Derive,
           RegistryProofs!FreshSeeds, RegistryProofs!FreshSaltSeed,
           RegistryProofs!Secured, RegistryProofs!NewEntry,
           RegistryProofs!PublisherConfig
  <1>4. Registry!RotateEpoch(Topic) => RegistryProofs!RotateEpoch(Topic)
    BY DEF Registry!RotateEpoch, Registry!Put, Registry!DeriveAll, Registry!Derive,
           RegistryProofs!RotateEpoch, RegistryProofs!Put,
           RegistryProofs!DeriveAll, RegistryProofs!Derive
  <1> QED
    BY <1>1, <1>2, <1>3, <1>4

\* What the guard does, in the words of its proofs.
LEMMA GuardAsProved ==
  /\ Guard!Init => GuardProofs!Init
  /\ GuardProofs!TypeOK => Guard!TypeOK
  /\ \A k, c : Guard!CheckAndAccept(k, c) => GuardProofs!CheckAndAccept(k, c)
  /\ Guard!FlushAll => GuardProofs!FlushAll
  /\ Guard!NoCall = GuardProofs!NoCall
  <1>1. Guard!Init => GuardProofs!Init
    BY DEF Guard!Init, Guard!Keys, Guard!Counters, Guard!NoCall,
           GuardProofs!Init, GuardProofs!Keys, GuardProofs!Counters,
           GuardProofs!NoCall
  <1>2. GuardProofs!TypeOK => Guard!TypeOK
    BY DEF Guard!TypeOK, Guard!Keys, Guard!Counters, Guard!NoCall, Guard!Tracked,
           Guard!Entries,
           GuardProofs!TypeOK, GuardProofs!Keys, GuardProofs!Counters,
           GuardProofs!NoCall, GuardProofs!Tracked, GuardProofs!Entries
  <1>3. ASSUME NEW k, NEW c, Guard!CheckAndAccept(k, c)
        PROVE  GuardProofs!CheckAndAccept(k, c)
    BY <1>3
       DEF Guard!CheckAndAccept, Guard!FirstMessage, Guard!NewHigh,
           Guard!ExactReplay, Guard!TooOld, Guard!AlreadySeen, Guard!LateArrival,
           Guard!Tracked, Guard!Put, Guard!Accepted, Guard!Rejected,
           Guard!Counted, Guard!Answer, Guard!Shifted, Guard!Late, Guard!BitOf,
           GuardProofs!CheckAndAccept, GuardProofs!FirstMessage,
           GuardProofs!NewHigh, GuardProofs!ExactReplay, GuardProofs!TooOld,
           GuardProofs!AlreadySeen, GuardProofs!LateArrival,
           GuardProofs!Tracked, GuardProofs!Put, GuardProofs!Accepted,
           GuardProofs!Rejected, GuardProofs!Counted, GuardProofs!Answer,
           GuardProofs!Shifted, GuardProofs!Late, GuardProofs!BitOf
  <1>4. Guard!FlushAll => GuardProofs!FlushAll
    BY DEF Guard!FlushAll, Guard!Flush, Guard!Drop, Guard!Keys, Guard!Counters,
           Guard!NoCall,
           GuardProofs!FlushAll, GuardProofs!Flush, GuardProofs!Drop,
           GuardProofs!Keys, GuardProofs!Counters, GuardProofs!NoCall
  <1>5. Guard!NoCall = GuardProofs!NoCall
    BY DEF Guard!NoCall, GuardProofs!NoCall
  <1> QED
    BY <1>1, <1>2, <1>3, <1>4, <1>5

------------------------------------------------------------------------------
(* The registry: what it holds is one entry, of one level.                 *)

RegistryInv ==
  /\ RegistryProofs!IInv
  /\ Topic \in DOMAIN topics =>
       /\ topics[Topic].levelMin = Level
       /\ topics[Topic].levelMax = Level
       /\ topics[Topic].currentLevel = Level

\* The publisher's DataFrameContext.
Publishers == [id : 1..PublisherIdMax, counter : 0..CounterMax + 1,
               epoch : Registry!Epochs, key : Registry!Keys, salt : Registry!Keys]

\* x holds the key and the salt that the seeds of the k-th dictionary give for
\* the epoch of x.
OfAssociation(x, k) ==
  /\ x.epoch \in Registry!Epochs
  /\ x.key = Registry!Derive(<<k, Level>>, x.epoch)
  /\ x.salt = Registry!Derive(<<k, 0>>, x.epoch)

\* The context handed out now is of the topic's present association.
ContextCurrent ==
  /\ topics[Topic].keys \in 0..objects - 1
  /\ CurrentContext.epoch = topics[Topic].epoch
  /\ OfAssociation(CurrentContext, topics[Topic].keys)
  /\ CurrentContext \in Contexts

LEMMA ContextOfTopic ==
  RegistryInv /\ Topic \in DOMAIN topics => ContextCurrent
  <1> SUFFICES ASSUME RegistryInv, Topic \in DOMAIN topics
               PROVE  ContextCurrent
    OBVIOUS
  <1> DEFINE entry == topics[Topic]
  <1>1. /\ RegistryProofs!TypeOK /\ RegistryProofs!EntriesCurrent
        /\ RegistryProofs!References
        /\ entry.levelMin = Level /\ entry.levelMax = Level /\ entry.currentLevel = Level
    BY DEF RegistryInv, RegistryProofs!IInv
  <1>2. /\ entry.keys \in 0..objects - 1 /\ objects \in Nat
        /\ entry.epoch \in Registry!Epochs
    BY <1>1 DEF RegistryProofs!TypeOK, RegistryProofs!EntryOK,
                RegistryProofs!Epochs, Registry!Epochs
  <1>3. /\ entry.saltSeed = <<entry.keys, 0>>
        /\ \A l \in DOMAIN entry.seeds : entry.seeds[l] = <<entry.keys, l>>
    BY <1>1 DEF RegistryProofs!References
  <1>4. /\ heap[entry.keys] = RegistryProofs!DeriveAll(entry.seeds, entry.epoch)
        /\ entry.salt = RegistryProofs!Derive(entry.saltSeed, entry.epoch)
        /\ DOMAIN entry.seeds = RegistryProofs!Secured(Level, Level)
    BY <1>1 DEF RegistryProofs!EntriesCurrent, RegistryProofs!KeysOf
  <1>5. Level \in DOMAIN entry.seeds
    BY <1>4, LevelAssumption DEF RegistryProofs!Secured
  <1>6. heap[entry.keys][Level] = Registry!Derive(<<entry.keys, Level>>, entry.epoch)
    BY <1>3, <1>4, <1>5
       DEF RegistryProofs!DeriveAll, RegistryProofs!Derive, Registry!Derive
  <1>7. entry.salt = Registry!Derive(<<entry.keys, 0>>, entry.epoch)
    BY <1>3, <1>4 DEF RegistryProofs!Derive, Registry!Derive
  <1>8. CurrentContext = [epoch |-> entry.epoch,
                          key |-> Registry!Derive(<<entry.keys, Level>>, entry.epoch),
                          salt |-> Registry!Derive(<<entry.keys, 0>>, entry.epoch)]
    BY <1>1, <1>6, <1>7 DEF CurrentContext, Registry!KeysOf
  <1>9. CurrentContext \in Contexts
    <2>1. entry.keys \in Nat /\ Level \in Nat
      BY <1>2, LevelAssumption
    <2> HIDE DEF entry
    <2> QED
      BY <1>2, <1>8, <2>1 DEF Contexts, Registry!Keys, Registry!Derive,
                               Registry!Seeds, Registry!Levels
  <1>10. OfAssociation(CurrentContext, entry.keys)
    BY <1>2, <1>8 DEF OfAssociation
  <1> QED
    BY <1>2, <1>8, <1>9, <1>10 DEF ContextCurrent

\* The same of the next state.
LEMMA ContextOfTopicNext ==
  (RegistryInv /\ Topic \in DOMAIN topics => ContextCurrent)'
  BY ContextOfTopic, PTL

\* An association creates the topic's entry, or replaces it, with a dictionary
\* of its own, in the first epoch.
LEMMA AssociateRegistry ==
  ASSUME RegistryInv,
         Registry!CreateTopicAssociation(Topic, Level, Level, Level, FirstEpoch)
  PROVE  /\ RegistryInv'
         /\ Topic \in DOMAIN topics'
         /\ topics'[Topic].keys = objects
         /\ topics'[Topic].epoch = FirstEpoch
         /\ nextPublisherId \in 1..PublisherIdMax
         /\ objects \in Nat /\ objects' = objects + 1
  <1>1. RegistryProofs!IInv'
    <2>1. /\ Level \in Nat /\ Level \in Level..Level /\ Topic \in {Topic}
          /\ FirstEpoch \in {FirstEpoch}
      BY LevelAssumption
    <2> QED
      BY <2>1, ComponentAssumptions, RegistryAsProved, RegistryProofs!CreateInv
         DEF RegistryInv
  <1>2. /\ topics' = Registry!Put(topics, Topic,
                        Registry!NewEntry(Level, Level, Level, FirstEpoch))
        /\ objects' = objects + 1
        /\ ~(nextPublisherId + 1 > PublisherIdMax)
    BY DEF Registry!CreateTopicAssociation, Registry!IdSpaceExhausted
  <1>3. /\ Topic \in DOMAIN topics'
        /\ topics'[Topic] = Registry!NewEntry(Level, Level, Level, FirstEpoch)
    BY <1>2 DEF Registry!Put
  <1>4. /\ topics'[Topic].keys = objects /\ topics'[Topic].epoch = FirstEpoch
        /\ topics'[Topic].levelMin = Level /\ topics'[Topic].levelMax = Level
        /\ topics'[Topic].currentLevel = Level
    BY <1>3 DEF Registry!NewEntry
  <1>5. nextPublisherId \in Nat \ {0} /\ objects \in Nat
    BY DEF RegistryInv, RegistryProofs!IInv, RegistryProofs!TypeOK,
           RegistryProofs!NoPublisher
  <1> QED
    BY <1>1, <1>2, <1>3, <1>4, <1>5, PublisherIdAssumption DEF RegistryInv

\* A rotation moves the entry to the next epoch and keeps its dictionary.
LEMMA RotateRegistry ==
  ASSUME RegistryInv, Registry!RotateEpoch(Topic)
  PROVE  /\ RegistryInv'
         /\ Topic \in DOMAIN topics /\ Topic \in DOMAIN topics'
         /\ topics'[Topic].keys = topics[Topic].keys
         /\ topics'[Topic].epoch = (topics[Topic].epoch + 1) % EpochCount
         /\ objects' = objects
  <1>1. RegistryProofs!IInv' /\ RegistryProofs!IInv
    BY ComponentAssumptions, RegistryAsProved, RegistryProofs!RotateInv
       DEF RegistryInv
  <1>2. /\ Topic \in DOMAIN topics /\ DOMAIN topics' = DOMAIN topics
        /\ topics'[Topic].epoch = (topics[Topic].epoch + 1) % EpochCount
        /\ UNCHANGED objects
        /\ \E epoch, salt :
             topics'[Topic] = [topics[Topic] EXCEPT !.epoch = epoch, !.salt = salt]
    BY <1>1, ComponentAssumptions, RegistryAsProved, RegistryProofs!RotateFacts
  <1>3. /\ topics'[Topic].levelMin = topics[Topic].levelMin
        /\ topics'[Topic].levelMax = topics[Topic].levelMax
        /\ topics'[Topic].currentLevel = topics[Topic].currentLevel
        /\ topics'[Topic].keys = topics[Topic].keys
    <2>1. PICK epoch, salt :
            topics'[Topic] = [topics[Topic] EXCEPT !.epoch = epoch, !.salt = salt]
      BY <1>2
    <2> QED
      BY <2>1
  <1> QED
    BY <1>1, <1>2, <1>3 DEF RegistryInv

\* Steps that leave the registry alone.
LEMMA IdleRegistry == RegistryInv /\ UNCHANGED registry => RegistryInv'
  <1>1. RegistryProofs!IInv /\ UNCHANGED RegistryProofs!vars => RegistryProofs!IInv'
    BY ComponentAssumptions, RegistryProofs!StepInv
  <1> QED
    BY <1>1 DEF RegistryInv, registry, RegistryProofs!vars

------------------------------------------------------------------------------
(* The guard.                                                              *)

GuardInv == GuardProofs!IInv

\* Ending the history of the last call disturbs nothing.
LEMMA IdleGuard ==
  ASSUME GuardInv, GuardIdle
  PROVE  GuardInv' /\ accepts' = accepts /\ reply' = Guard!NoCall
  <1>1. /\ GuardProofs!TypeOK /\ GuardProofs!HistoryExact
        /\ reply' = GuardProofs!NoCall /\ UNCHANGED <<guard, accepts>>
    BY GuardAsProved DEF GuardInv, GuardProofs!IInv, GuardIdle
  <1>2. GuardProofs!TypeOK'
    BY <1>1 DEF GuardProofs!TypeOK, GuardProofs!Tracked, GuardProofs!NoCall
  <1>3. GuardProofs!HistoryExact'
    BY <1>1 DEF GuardProofs!HistoryExact, GuardProofs!Tracked, GuardProofs!Matches
  <1>4. GuardProofs!RejectsOnlyWithCause'
    BY <1>1 DEF GuardProofs!RejectsOnlyWithCause, GuardProofs!NoCall
  <1> QED
    BY <1>1, <1>2, <1>3, <1>4, GuardAsProved DEF GuardInv, GuardProofs!IInv

GuardKeys == (1..PublisherIdMax) \X (0..EpochCount - 1)

\* The guard accepts a counter that was not accepted since its key was
\* flushed, or rejects it and changes no history.
LEMMA CheckGuard ==
  ASSUME GuardInv, NEW k \in GuardKeys, NEW c \in 0..CounterMax,
         Guard!CheckAndAccept(k, c)
  PROVE  /\ GuardInv'
         /\ reply'.key = k /\ reply'.counter = c
         /\ \/ /\ reply'.result = "accept"
               /\ accepts[k][c] = 0 /\ accepts'[k][c] = 1
               /\ \A j \in GuardKeys, d \in 0..CounterMax :
                    <<j, d>> # <<k, c>> => accepts'[j][d] = accepts[j][d]
            \/ reply'.result = "reject" /\ accepts' = accepts
  <1>1. /\ k \in GuardProofs!Keys /\ c \in GuardProofs!Counters
        /\ GuardProofs!CheckAndAccept(k, c)
    BY GuardAsProved DEF GuardKeys, GuardProofs!Keys, GuardProofs!Counters
  <1>2. GuardInv'
    BY <1>1, ComponentAssumptions, GuardProofs!CheckInv DEF GuardInv
  <1>3. GuardProofs!Accepted(k, c) \/ GuardProofs!Rejected(k, c)
    BY <1>1 DEF GuardProofs!CheckAndAccept, GuardProofs!FirstMessage,
                GuardProofs!NewHigh, GuardProofs!ExactReplay, GuardProofs!TooOld,
                GuardProofs!AlreadySeen, GuardProofs!LateArrival
  <1>4. CASE GuardProofs!Rejected(k, c)
    BY <1>2, <1>4 DEF GuardProofs!Rejected, GuardProofs!Answer
  <1>5. CASE GuardProofs!Accepted(k, c)
    <2>1. /\ accepts \in [GuardProofs!Keys -> [GuardProofs!Counters -> Nat]]
          /\ GuardProofs!HistoryExact /\ GuardProofs!HistoryExact'
      BY <1>2 DEF GuardInv, GuardProofs!IInv, GuardProofs!TypeOK
    <2>2. accepts' = [accepts EXCEPT
                        ![k] = [accepts[k] EXCEPT ![c] = accepts[k][c] + 1]]
      BY <1>5 DEF GuardProofs!Accepted, GuardProofs!Counted
    <2>3. accepts'[k][c] = accepts[k][c] + 1 /\ accepts[k][c] \in Nat
      BY <1>1, <2>1, <2>2
    <2>4. \A j \in GuardProofs!Keys, d \in GuardProofs!Counters :
            <<j, d>> # <<k, c>> => accepts'[j][d] = accepts[j][d]
      BY <1>1, <2>1, <2>2
    <2>5. accepts'[k][c] \in {0, 1}
      BY <1>1, <2>1 DEF GuardProofs!HistoryExact, GuardProofs!Matches
    <2>6. accepts[k][c] = 0 /\ accepts'[k][c] = 1
      BY <2>3, <2>5
    <2>7. /\ reply'.key = k /\ reply'.counter = c /\ reply'.result = "accept"
      BY <1>5 DEF GuardProofs!Accepted, GuardProofs!Answer
    <2> QED
      BY <1>2, <2>4, <2>6, <2>7 DEF GuardKeys, GuardProofs!Keys, GuardProofs!Counters
  <1> QED
    BY <1>3, <1>4, <1>5

\* A reboot forgets every key and its history.
LEMMA FlushGuard ==
  ASSUME GuardInv, Guard!FlushAll
  PROVE  /\ GuardInv' /\ reply' = Guard!NoCall
         /\ \A k \in GuardKeys, c \in 0..CounterMax : accepts'[k][c] = 0
  <1>1. GuardProofs!Keys \in SUBSET GuardProofs!Keys
    OBVIOUS
  <1>2. GuardProofs!Flush(GuardProofs!Keys)
    BY GuardAsProved DEF GuardProofs!FlushAll
  <1>3. GuardInv'
    BY <1>1, <1>2, ComponentAssumptions, GuardProofs!FlushInv DEF GuardInv
  <1>4. \A k \in GuardKeys, c \in 0..CounterMax : accepts'[k][c] = 0
    BY <1>2 DEF GuardProofs!Flush, GuardKeys, GuardProofs!Keys, GuardProofs!Counters
  <1>5. reply' = Guard!NoCall
    BY <1>2, GuardAsProved DEF GuardProofs!Flush
  <1> QED
    BY <1>3, <1>4, <1>5

------------------------------------------------------------------------------
(* The inductive invariant.                                                *)

\* The topic's epoch after i rotations.
EpochAt(i) == (FirstEpoch + i) % EpochCount

\* The topic has been in the epoch e.
HasBeen(e) == \E i \in 0..rotations : e = EpochAt(i)

\* The context x is of some association, and of an epoch the topic has been in.
Genuine(x) == /\ \E k \in 0..objects - 1 : OfAssociation(x, k)
              /\ HasBeen(x.epoch)

BoundsOK == /\ associations \in 0..MaxAssociations
            /\ rotations \in 0..MaxRotations
            /\ outstanding \in 0..MaxOutstanding
            /\ paused \in BOOLEAN

ContextsGenuine ==
  /\ \A c \in responses : c \in Contexts /\ Genuine(c)
  /\ subscriber # None => subscriber \in Contexts /\ Genuine(subscriber)

FramesGenuine ==
  \A f \in frames : /\ f.id \in 1..PublisherIdMax
                    /\ f.counter \in 0..CounterMax - 1
                    /\ Genuine(f)

\* Payloads number the frames.
FramesNumbered ==
  /\ IsFiniteSet(frames)
  /\ \A f \in frames : f.payload \in 0..Cardinality(frames) - 1
  /\ \A f, g \in frames : f.payload = g.payload => f = g

\* Of the present association, R rotations were made and the publisher is in
\* the epoch after the r-th; m is the number of contexts it had before this one.
\* No frame of the association is of a later epoch than the publisher's.
Progress(r, R, m) ==
  /\ r <= R /\ R <= rotations
  /\ m + (R - r) < rotations + associations
  /\ topics[Topic].epoch = EpochAt(R)
  /\ publisher.epoch = EpochAt(r)
  /\ Cardinality(frames) <= CounterMax * m + publisher.counter
  /\ Cardinality(frames) <= CounterMax * m + CounterMax
  /\ \A f \in frames :
       OfAssociation(f, topics[Topic].keys) => \E i \in 0..r : f.epoch = EpochAt(i)

PublisherAssociated ==
  Topic \in DOMAIN topics =>
    /\ publisher \in Publishers
    /\ OfAssociation(publisher, topics[Topic].keys)
    /\ \E r, R, m \in Nat : Progress(r, R, m)

NothingBefore ==
  Topic \notin DOMAIN topics =>
    /\ publisher = None /\ frames = {}
    /\ responses = {} /\ subscriber = None
    /\ rotations = 0

\* A payload handed up had its counter accepted by the guard.
DeliveredAccepted ==
  /\ delivered \in [frames -> {0, 1}]
  /\ \A f \in frames :
       delivered[f] = 1 => accepts[<<f.id, f.epoch>>][f.counter] = 1

IInv == /\ RegistryInv /\ GuardInv /\ BoundsOK
        /\ ContextsGenuine /\ FramesGenuine /\ FramesNumbered
        /\ PublisherAssociated /\ NothingBefore
        /\ DeliveredAccepted

------------------------------------------------------------------------------
(* Arithmetic.                                                             *)

LEMMA Division ==
  ASSUME NEW a \in Nat, NEW n \in Nat \ {0}
  PROVE  /\ a % n \in 0..n - 1 /\ a \div n \in Nat
         /\ a = (n * (a \div n)) + (a % n)
  OBVIOUS

LEMMA Remainder ==
  ASSUME NEW n \in Nat \ {0}, NEW q \in Nat, NEW r \in 0..n - 1
  PROVE  ((n * q) + r) % n = r
  OBVIOUS

\* Wrapping before the next rotation makes no difference.
LEMMA WrapOnce ==
  ASSUME NEW a \in Nat, NEW n \in Nat \ {0}
  PROVE  ((a % n) + 1) % n = (a + 1) % n
  <1> DEFINE q == a \div n
             r == a % n
  <1>1. r \in 0..n - 1 /\ a = (n * q) + r /\ q \in Nat
    BY Division
  <1> HIDE DEF q, r
  <1>2. CASE r + 1 < n
    <2>1. a + 1 = (n * q) + (r + 1) /\ r + 1 \in 0..n - 1
      BY <1>1, <1>2
    <2>2. (a + 1) % n = r + 1
      BY <1>1, <2>1, Remainder
    <2>3. (r + 1) % n = r + 1
      BY <1>1, <1>2
    <2> QED
      BY <2>2, <2>3 DEF r
  <1>3. CASE r + 1 = n
    <2>1. a + 1 = (n * (q + 1)) + 0 /\ 0 \in 0..n - 1 /\ q + 1 \in Nat
      BY <1>1, <1>3
    <2>2. (a + 1) % n = 0
      BY <1>1, <2>1, Remainder
    <2>3. (r + 1) % n = 0
      BY <1>1, <1>3
    <2> QED
      BY <2>2, <2>3 DEF r
  <1> QED
    BY <1>1, <1>2, <1>3

\* Fewer rotations than epochs do not come back to an epoch.
LEMMA NoWrap ==
  ASSUME NEW n \in Nat \ {0}, NEW f \in 0..n - 1,
         NEW i \in 0..n - 1, NEW j \in 0..n - 1, (f + i) % n = (f + j) % n
  PROVE  i = j
  OBVIOUS

LEMMA Product ==
  ASSUME NEW c \in Nat, NEW a \in Nat, NEW b \in Nat, a <= b
  PROVE  /\ c * a <= c * b /\ c * a \in Nat
         /\ c * (a + 1) = (c * a) + c
  OBVIOUS

LEMMA Subrange ==
  ASSUME NEW a \in Nat, NEW b \in Nat, a <= b
  PROVE  /\ \A k \in 0..a : k \in 0..b
         /\ \A k \in 0..a - 1 : k \in 0..b - 1
  OBVIOUS

LEMMA EpochFacts ==
  ASSUME NEW i \in Nat
  PROVE  /\ EpochAt(i) \in Registry!Epochs
         /\ EpochAt(i + 1) = (EpochAt(i) + 1) % EpochCount
         /\ EpochAt(0) = FirstEpoch
  <1>1. /\ FirstEpoch \in Nat /\ FirstEpoch < EpochCount
        /\ EpochCount \in Nat \ {0} /\ FirstEpoch + i \in Nat
    BY EpochAssumption
  <1>2. EpochAt(i) \in Registry!Epochs
    BY <1>1, Division DEF EpochAt, Registry!Epochs
  <1>3. EpochAt(i + 1) = (EpochAt(i) + 1) % EpochCount
    <2>1. (((FirstEpoch + i) % EpochCount) + 1) % EpochCount
            = ((FirstEpoch + i) + 1) % EpochCount
      BY <1>1, WrapOnce
    <2>2. FirstEpoch + (i + 1) = (FirstEpoch + i) + 1
      BY <1>1
    <2> QED
      BY <2>1, <2>2 DEF EpochAt
  <1>4. EpochAt(0) = FirstEpoch
    BY <1>1 DEF EpochAt
  <1> QED
    BY <1>2, <1>3, <1>4

------------------------------------------------------------------------------
(* Conjuncts that a step does not disturb.                                 *)

\* Associations and rotations take nothing away from a context.
LEMMA StaysGenuine ==
  ASSUME IInv, objects' \in Nat, objects <= objects',
         rotations' \in Nat, rotations <= rotations'
  PROVE  \A x : Genuine(x) => Genuine(x)'
  <1>1. objects \in Nat /\ rotations \in Nat
    BY BoundAssumption
       DEF IInv, RegistryInv, RegistryProofs!IInv, RegistryProofs!TypeOK, BoundsOK
  <1>2. \A k \in 0..objects - 1 : k \in 0..objects' - 1
    BY <1>1, Subrange
  <1>3. \A i \in 0..rotations : i \in 0..rotations'
    BY <1>1, Subrange
  <1> SUFFICES ASSUME NEW x, Genuine(x) PROVE Genuine(x)'
    OBVIOUS
  <1> QED
    BY <1>2, <1>3 DEF Genuine, HasBeen, OfAssociation

LEMMA SameContexts ==
  ASSUME IInv, UNCHANGED <<responses, subscriber>>, \A x : Genuine(x) => Genuine(x)'
  PROVE  ContextsGenuine'
  BY DEF IInv, ContextsGenuine, Genuine, HasBeen, OfAssociation

LEMMA SameFrames ==
  ASSUME IInv, UNCHANGED frames, \A x : Genuine(x) => Genuine(x)'
  PROVE  FramesGenuine' /\ FramesNumbered'
  BY DEF IInv, FramesGenuine, FramesNumbered, Genuine, HasBeen, OfAssociation

LEMMA SamePublisher ==
  ASSUME IInv, UNCHANGED <<topics, publisher, frames, rotations, associations>>
  PROVE  PublisherAssociated'
  BY DEF IInv, PublisherAssociated, Progress, OfAssociation

LEMMA SameDelivery ==
  ASSUME IInv, UNCHANGED <<frames, delivered, accepts>>
  PROVE  DeliveredAccepted'
  BY DEF IInv, DeliveredAccepted

\* The types of the counts, for the arithmetic below.
LEMMA Counts ==
  ASSUME IInv
  PROVE  /\ objects \in Nat /\ nextPublisherId \in Nat
         /\ associations \in Nat /\ rotations \in Nat
         /\ IsFiniteSet(frames) /\ Cardinality(frames) \in Nat
         /\ CounterMax \in Nat
  BY WindowAssumption, BoundAssumption, FS_CardinalityType
     DEF IInv, RegistryInv, RegistryProofs!IInv, RegistryProofs!TypeOK,
         RegistryProofs!NoPublisher, BoundsOK, FramesNumbered

\* A context is of one association.
LEMMA OneAssociation ==
  ASSUME NEW x, NEW k, NEW l, OfAssociation(x, k), OfAssociation(x, l)
  PROVE  k = l
  BY DEF OfAssociation, Registry!Derive

\* A new DataFrameContext is one of the contexts there are.
LEMMA FreshContextFacts ==
  ASSUME NEW i \in 1..PublisherIdMax, NEW c \in Contexts
  PROVE  /\ FreshContext(i, c) \in Publishers
         /\ FreshContext(i, c).counter = 0
         /\ FreshContext(i, c).epoch = c.epoch
         /\ \A k : OfAssociation(c, k) => OfAssociation(FreshContext(i, c), k)
  <1>1. 0 \in 0..CounterMax + 1
    BY WindowAssumption
  <1>2. c.epoch \in Registry!Epochs /\ c.key \in Registry!Keys /\ c.salt \in Registry!Keys
    BY DEF Contexts
  <1>3. FreshContext(i, c) \in Publishers
    BY <1>1, <1>2 DEF FreshContext, Publishers
  <1> QED
    BY <1>3 DEF FreshContext, OfAssociation

------------------------------------------------------------------------------
(* One lemma per action.                                                   *)

LEMMA InitInv == Init => IInv
  <1> SUFFICES ASSUME Init PROVE IInv
    OBVIOUS
  <1>1. /\ RegistryProofs!IInv /\ GuardProofs!IInv
        /\ topics = [t \in {} |-> 0]
    BY ComponentAssumptions, RegistryAsProved, GuardAsProved,
       RegistryProofs!InitInv, GuardProofs!InitInv
       DEF Init, Registry!Init
  <1>2. RegistryInv /\ GuardInv
    BY <1>1 DEF RegistryInv, GuardInv
  <1>3. BoundsOK
    <2>1. MaxAssociations \in Nat /\ MaxRotations \in Nat /\ MaxOutstanding \in Nat
      BY BoundAssumption
    <2>2. paused \in BOOLEAN
      BY DEF Init
    <2>3. associations = 0 /\ rotations = 0 /\ outstanding = 0
      BY DEF Init
    <2> QED
      BY <2>1, <2>2, <2>3 DEF BoundsOK
  <1>4. ContextsGenuine /\ FramesGenuine /\ DeliveredAccepted
    BY DEF Init, ContextsGenuine, FramesGenuine, DeliveredAccepted
  <1>5. FramesNumbered
    BY FS_EmptySet DEF Init, FramesNumbered
  <1>6. PublisherAssociated /\ NothingBefore
    BY <1>1 DEF Init, PublisherAssociated, NothingBefore
  <1> QED
    BY <1>2, <1>3, <1>4, <1>5, <1>6 DEF IInv

\* No frame is of an association that is still to come.
LEMMA NoFrameBefore ==
  ASSUME IInv
  PROVE  \A f \in frames : ~OfAssociation(f, objects)
  BY Counts, OneAssociation DEF IInv, FramesGenuine, Genuine

\* An association gives the publisher a context of a new dictionary, of which
\* there is no frame yet.
LEMMA AssociateInv ==
  ASSUME IInv, Associate
  PROVE  IInv'
  <1> USE DEF IInv
  <1>1. /\ RegistryInv' /\ Topic \in DOMAIN topics'
        /\ topics'[Topic].keys = objects
        /\ topics'[Topic].epoch = FirstEpoch
        /\ nextPublisherId \in 1..PublisherIdMax
        /\ objects' = objects + 1
    BY AssociateRegistry DEF Associate
  <1>2. GuardInv' /\ accepts' = accepts
    BY IdleGuard DEF Associate
  <1>3. /\ associations < MaxAssociations /\ associations' = associations + 1
        /\ publisher' = FreshContext(nextPublisherId, CurrentContext')
        /\ UNCHANGED <<subscriber, paused, outstanding, responses, rotations,
                       frames, delivered>>
    BY DEF Associate, phase5
  <1>4. /\ objects \in Nat /\ associations \in Nat /\ rotations \in Nat
        /\ Cardinality(frames) \in Nat /\ CounterMax \in Nat
    BY Counts
  <1>5. ContextCurrent'
    BY <1>1, ContextOfTopicNext
  <1>6. /\ publisher' \in Publishers /\ publisher'.counter = 0
        /\ publisher'.epoch = FirstEpoch
        /\ OfAssociation(publisher', objects)
    <2>1. /\ CurrentContext' \in Contexts /\ CurrentContext'.epoch = FirstEpoch
          /\ OfAssociation(CurrentContext', objects)
      BY <1>1, <1>5 DEF ContextCurrent, Contexts, Registry!Epochs, Registry!Keys,
                        Registry!Seeds, Registry!Levels, OfAssociation, Registry!Derive
    <2> QED
      BY <1>1, <1>3, <2>1, FreshContextFacts
  <1>7. \A x : Genuine(x) => Genuine(x)'
    BY <1>1, <1>3, <1>4, StaysGenuine
  <1>8. BoundsOK'
    BY <1>3, <1>4, BoundAssumption DEF BoundsOK
  <1>9. ContextsGenuine' /\ FramesGenuine' /\ FramesNumbered' /\ DeliveredAccepted'
    BY <1>2, <1>3, <1>7, SameContexts, SameFrames, SameDelivery
  <1>10. PublisherAssociated'
    <2>1. \A f \in frames : ~OfAssociation(f, objects)
      BY NoFrameBefore
    <2>2. PICK m \in Nat : /\ m < rotations + associations'
                           /\ Cardinality(frames) <= CounterMax * m
      <3>1. CASE Topic \in DOMAIN topics
        <4>1. PICK r \in Nat, R \in Nat, m \in Nat : Progress(r, R, m)
          BY <3>1 DEF PublisherAssociated
        <4>2. /\ m + 1 \in Nat /\ m + 1 < rotations + associations'
          BY <1>3, <1>4, <4>1 DEF Progress
        <4>3. Cardinality(frames) <= CounterMax * (m + 1)
          BY <1>4, <4>1, Product DEF Progress
        <4> QED
          BY <4>2, <4>3
      <3>2. CASE Topic \notin DOMAIN topics
        <4>1. Cardinality(frames) = 0
          BY <3>2, FS_EmptySet DEF NothingBefore
        <4>2. CounterMax * 0 = 0
          BY <1>4
        <4> QED
          BY <1>3, <1>4, <4>1, <4>2
      <3> QED
        BY <3>1, <3>2
    <2>3. Progress(0, 0, m)'
      <3>1. CounterMax * m \in Nat
        BY <1>4, Product
      <3>2. EpochAt(0) = FirstEpoch
        BY EpochFacts
      <3> QED
        BY <1>1, <1>3, <1>4, <1>6, <2>1, <2>2, <3>1, <3>2
           DEF Progress, EpochAt, OfAssociation
    <2> QED
      BY <1>1, <1>6, <2>3 DEF PublisherAssociated, OfAssociation
  <1>11. NothingBefore'
    BY <1>1 DEF NothingBefore
  <1> QED
    BY <1>1, <1>2, <1>8, <1>9, <1>10, <1>11

\* A rotation moves the topic, and no context, to the next epoch.
LEMMA RotateInv ==
  ASSUME IInv, Rotate
  PROVE  IInv'
  <1> USE DEF IInv
  <1>1. /\ RegistryInv'
        /\ Topic \in DOMAIN topics /\ Topic \in DOMAIN topics'
        /\ topics'[Topic].keys = topics[Topic].keys
        /\ topics'[Topic].epoch = (topics[Topic].epoch + 1) % EpochCount
        /\ objects' = objects
    BY RotateRegistry DEF Rotate
  <1>2. GuardInv' /\ accepts' = accepts
    BY IdleGuard DEF Rotate
  <1>3. /\ rotations < MaxRotations /\ rotations' = rotations + 1
        /\ UNCHANGED <<subscriber, paused, outstanding, responses, associations,
                       publisher, frames, delivered>>
    BY DEF Rotate, phase5
  <1>4. /\ objects \in Nat /\ associations \in Nat /\ rotations \in Nat
    BY Counts
  <1>5. \A x : Genuine(x) => Genuine(x)'
    BY <1>1, <1>3, <1>4, StaysGenuine
  <1>6. BoundsOK'
    BY <1>3, <1>4, BoundAssumption DEF BoundsOK
  <1>7. ContextsGenuine' /\ FramesGenuine' /\ FramesNumbered' /\ DeliveredAccepted'
    BY <1>2, <1>3, <1>5, SameContexts, SameFrames, SameDelivery
  <1>8. PublisherAssociated'
    <2>1. PICK r \in Nat, R \in Nat, m \in Nat : Progress(r, R, m)
      BY <1>1 DEF PublisherAssociated
    <2>2. topics'[Topic].epoch = EpochAt(R + 1)
      BY <1>1, <2>1, EpochFacts DEF Progress
    <2>3. /\ R + 1 \in Nat /\ r <= R + 1 /\ R + 1 <= rotations'
          /\ m + ((R + 1) - r) < rotations' + associations'
      BY <1>3, <1>4, <2>1 DEF Progress
    <2>4. Progress(r, R + 1, m)'
      BY <1>1, <1>3, <2>1, <2>2, <2>3 DEF Progress, EpochAt, OfAssociation
    <2> QED
      BY <1>1, <1>3, <2>3, <2>4 DEF PublisherAssociated, OfAssociation
  <1>9. NothingBefore'
    BY <1>1 DEF NothingBefore
  <1> QED
    BY <1>1, <1>2, <1>6, <1>7, <1>8, <1>9

\* What a step of the publisher leaves alone.
LEMMA PublisherStep ==
  ASSUME IInv, PublisherOnly
  PROVE  /\ RegistryInv' /\ GuardInv' /\ BoundsOK' /\ ContextsGenuine'
         /\ accepts' = accepts
         /\ UNCHANGED <<topics, objects, rotations, associations, responses, subscriber>>
         /\ \A x : Genuine(x) => Genuine(x)'
  <1> USE DEF IInv
  <1>1. /\ UNCHANGED <<topics, objects, rotations, associations, outstanding,
                       responses, subscriber, paused>>
        /\ UNCHANGED registry
    BY DEF PublisherOnly, registry, phase5, bounds
  <1>2. RegistryInv' /\ GuardInv' /\ accepts' = accepts
    BY <1>1, IdleRegistry, IdleGuard DEF PublisherOnly
  <1>3. \A x : Genuine(x) => Genuine(x)'
    BY <1>1, Counts, StaysGenuine
  <1> QED
    BY <1>1, <1>2, <1>3, SameContexts DEF BoundsOK

\* A publisher re-keys only when the topic has moved on.
LEMMA RekeyInv ==
  ASSUME IInv, PublisherRekey
  PROVE  IInv'
  <1> USE DEF IInv
  <1>1. /\ RegistryInv' /\ GuardInv' /\ BoundsOK' /\ ContextsGenuine'
        /\ accepts' = accepts
        /\ UNCHANGED <<topics, objects, rotations, associations, responses, subscriber>>
        /\ \A x : Genuine(x) => Genuine(x)'
    BY PublisherStep DEF PublisherRekey
  <1>2. /\ publisher # None /\ publisher.epoch # topics[Topic].epoch
        /\ publisher' = FreshContext(publisher.id, CurrentContext)
        /\ UNCHANGED <<frames, delivered>>
    BY DEF PublisherRekey
  <1>3. Topic \in DOMAIN topics
    BY <1>2 DEF NothingBefore
  <1>4. /\ associations \in Nat /\ rotations \in Nat
        /\ Cardinality(frames) \in Nat /\ CounterMax \in Nat
    BY Counts
  <1>5. /\ publisher' \in Publishers /\ publisher'.counter = 0
        /\ publisher'.epoch = topics[Topic].epoch
        /\ OfAssociation(publisher', topics[Topic].keys)
    <2>1. ContextCurrent /\ publisher.id \in 1..PublisherIdMax
      BY <1>3, ContextOfTopic DEF PublisherAssociated, Publishers
    <2> QED
      BY <1>2, <2>1, FreshContextFacts DEF ContextCurrent
  <1>6. FramesGenuine' /\ FramesNumbered' /\ DeliveredAccepted'
    BY <1>1, <1>2, SameFrames, SameDelivery
  <1>7. PublisherAssociated'
    <2>1. PICK r \in Nat, R \in Nat, m \in Nat : Progress(r, R, m)
      BY <1>3 DEF PublisherAssociated
    <2>2. r < R
      BY <1>2, <2>1 DEF Progress
    <2>3. m + 1 \in Nat /\ m + 1 + (R - R) < rotations + associations
      BY <1>4, <2>1, <2>2 DEF Progress
    <2>4. /\ Cardinality(frames) <= CounterMax * (m + 1) + 0
          /\ Cardinality(frames) <= CounterMax * (m + 1) + CounterMax
      BY <1>4, <2>1, Product DEF Progress
    <2>5. \A i \in 0..r : i \in 0..R
      BY <2>2
    <2>6. Progress(R, R, m + 1)'
      BY <1>1, <1>2, <1>5, <2>1, <2>3, <2>4, <2>5 DEF Progress, EpochAt, OfAssociation
    <2> QED
      BY <1>1, <1>5, <2>3, <2>6 DEF PublisherAssociated, OfAssociation
  <1>8. NothingBefore'
    BY <1>1, <1>3 DEF NothingBefore
  <1> QED
    BY <1>1, <1>6, <1>7, <1>8

\* The counter moves; nothing else of the context does.
LEMMA NextCounterFacts ==
  ASSUME publisher \in Publishers, publisher.counter <= CounterMax, NextCounter
  PROVE  /\ publisher' \in Publishers
         /\ publisher'.counter = publisher.counter + 1
         /\ publisher'.epoch = publisher.epoch
         /\ \A k : OfAssociation(publisher, k) => OfAssociation(publisher', k)
  <1>1. publisher.counter \in 0..CounterMax + 1 /\ CounterMax \in Nat
    BY WindowAssumption DEF Publishers
  <1>2. publisher.counter + 1 \in 0..CounterMax + 1
    BY <1>1
  <1>3. publisher' = [publisher EXCEPT !.counter = publisher.counter + 1]
    BY DEF NextCounter
  <1>4. publisher' \in Publishers
    BY <1>2, <1>3 DEF Publishers
  <1>5. /\ publisher'.counter = publisher.counter + 1
        /\ publisher'.epoch = publisher.epoch /\ publisher'.key = publisher.key
        /\ publisher'.salt = publisher.salt
    BY <1>3 DEF Publishers
  <1> QED
    BY <1>4, <1>5 DEF OfAssociation

\* next_counter that raises: one count more, and no frame.
LEMMA OverflowInv ==
  ASSUME IInv, CounterOverflow
  PROVE  IInv'
  <1> USE DEF IInv
  <1>1. /\ RegistryInv' /\ GuardInv' /\ BoundsOK' /\ ContextsGenuine'
        /\ accepts' = accepts
        /\ UNCHANGED <<topics, objects, rotations, associations, responses, subscriber>>
        /\ \A x : Genuine(x) => Genuine(x)'
    BY PublisherStep DEF CounterOverflow
  <1>2. /\ publisher # None /\ publisher.counter <= CounterMax /\ NextCounter
        /\ UNCHANGED <<frames, delivered>>
    BY DEF CounterOverflow
  <1>3. Topic \in DOMAIN topics
    BY <1>2 DEF NothingBefore
  <1>4. FramesGenuine' /\ FramesNumbered' /\ DeliveredAccepted'
    BY <1>1, <1>2, SameFrames, SameDelivery
  <1>5. /\ publisher' \in Publishers /\ publisher'.epoch = publisher.epoch
        /\ publisher'.counter = publisher.counter + 1
        /\ OfAssociation(publisher', topics[Topic].keys)
    BY <1>2, <1>3, NextCounterFacts DEF PublisherAssociated
  <1>6. PublisherAssociated'
    <2>1. PICK r \in Nat, R \in Nat, m \in Nat : Progress(r, R, m)
      BY <1>3 DEF PublisherAssociated
    <2>2. Cardinality(frames) <= CounterMax * m + publisher'.counter
      <3>1. /\ CounterMax * m \in Nat /\ Cardinality(frames) \in Nat
            /\ publisher.counter \in Nat
        BY <1>3, <2>1, Counts, Product DEF PublisherAssociated, Publishers
      <3> QED
        BY <1>5, <2>1, <3>1 DEF Progress
    <2>3. Progress(r, R, m)'
      BY <1>1, <1>2, <1>5, <2>1, <2>2 DEF Progress, EpochAt, OfAssociation
    <2> QED
      BY <1>1, <1>5, <2>3 DEF PublisherAssociated, OfAssociation
  <1>7. NothingBefore'
    BY <1>1, <1>3 DEF NothingBefore
  <1> QED
    BY <1>1, <1>4, <1>6, <1>7

\* A frame's payload is a number no frame has.
LEMMA NewFrameFacts ==
  ASSUME IInv, Topic \in DOMAIN topics, ~CounterExhausted
  PROVE  /\ NewFrame \notin frames
         /\ NewFrame.id \in 1..PublisherIdMax
         /\ NewFrame.counter = publisher.counter
         /\ NewFrame.counter \in 0..CounterMax - 1
         /\ NewFrame.epoch = publisher.epoch
         /\ NewFrame.payload = Cardinality(frames)
         /\ \A k : OfAssociation(publisher, k) => OfAssociation(NewFrame, k)
         /\ Genuine(NewFrame)
  <1> USE DEF IInv
  <1>1. /\ publisher \in Publishers
        /\ OfAssociation(publisher, topics[Topic].keys)
    BY DEF PublisherAssociated
  <1>2. /\ NewFrame.id = publisher.id /\ NewFrame.counter = publisher.counter
        /\ NewFrame.epoch = publisher.epoch /\ NewFrame.key = publisher.key
        /\ NewFrame.salt = publisher.salt /\ NewFrame.payload = Cardinality(frames)
    BY DEF NewFrame
  <1>3. NewFrame \notin frames
    <2>1. \A f \in frames : f.payload # Cardinality(frames)
      BY Counts DEF FramesNumbered
    <2> QED
      BY <1>2, <2>1
  <1>4. NewFrame.counter \in 0..CounterMax - 1
    BY <1>1, <1>2, WindowAssumption DEF CounterExhausted, Publishers
  <1>5. \A k : OfAssociation(publisher, k) => OfAssociation(NewFrame, k)
    BY <1>2 DEF OfAssociation
  <1>6. Genuine(NewFrame)
    <2>1. topics[Topic].keys \in 0..objects - 1
      BY ContextOfTopic DEF ContextCurrent
    <2>2. HasBeen(NewFrame.epoch)
      <3>1. PICK r \in Nat, R \in Nat, m \in Nat : Progress(r, R, m)
        BY DEF PublisherAssociated
      <3>2. r \in 0..rotations /\ NewFrame.epoch = EpochAt(r)
        BY <1>2, <3>1, Counts DEF Progress
      <3> QED
        BY <3>2 DEF HasBeen
    <2> QED
      BY <1>1, <1>5, <2>1, <2>2 DEF Genuine
  <1> QED
    BY <1>1, <1>2, <1>3, <1>4, <1>5, <1>6 DEF Publishers

\* A new frame is of the publisher's epoch, and delivered to nobody.
LEMMA CreateInv ==
  ASSUME IInv, CreateDataFrame
  PROVE  IInv'
  <1> USE DEF IInv
  <1> DEFINE new == NewFrame
  <1>1. /\ RegistryInv' /\ GuardInv' /\ BoundsOK' /\ ContextsGenuine'
        /\ accepts' = accepts
        /\ UNCHANGED <<topics, objects, rotations, associations, responses, subscriber>>
        /\ \A x : Genuine(x) => Genuine(x)'
    BY PublisherStep DEF CreateDataFrame
  <1>2. /\ publisher # None /\ ~CounterExhausted /\ NextCounter
        /\ frames' = frames \cup {new}
        /\ delivered' = [f \in frames' |-> IF f = new THEN 0 ELSE delivered[f]]
    BY DEF CreateDataFrame
  <1>3. Topic \in DOMAIN topics
    BY <1>2 DEF NothingBefore
  <1>4. /\ new \notin frames /\ new.id \in 1..PublisherIdMax
        /\ new.counter = publisher.counter /\ new.counter \in 0..CounterMax - 1
        /\ new.epoch = publisher.epoch /\ new.payload = Cardinality(frames)
        /\ \A k : OfAssociation(publisher, k) => OfAssociation(new, k)
        /\ Genuine(new)
    BY <1>2, <1>3, NewFrameFacts
  <1> HIDE DEF new
  <1>5. /\ IsFiniteSet(frames) /\ IsFiniteSet(frames')
        /\ Cardinality(frames) \in Nat
        /\ Cardinality(frames') = Cardinality(frames) + 1
    BY <1>2, <1>4, Counts, FS_AddElement
  <1>6. FramesGenuine'
    <2>1. ASSUME NEW f \in frames'
          PROVE  f.id \in 1..PublisherIdMax /\ f.counter \in 0..CounterMax - 1 /\ Genuine(f)
      BY <1>2, <1>4 DEF FramesGenuine
    <2> QED
      BY <1>1, <2>1 DEF FramesGenuine
  <1>7. FramesNumbered'
    <2>1. \A f \in frames : f.payload \in 0..Cardinality(frames) - 1
      BY DEF FramesNumbered
    <2>2. ASSUME NEW f \in frames'
          PROVE  f.payload \in 0..Cardinality(frames') - 1
      <3>1. CASE f = new
        BY <1>4, <1>5, <3>1
      <3>2. CASE f \in frames
        BY <1>5, <2>1, <3>2
      <3> QED
        BY <1>2, <3>1, <3>2
    <2>3. ASSUME NEW f \in frames
          PROVE  f.payload # new.payload
      BY <1>4, <1>5, <2>1
    <2>4. ASSUME NEW f \in frames', NEW g \in frames', f.payload = g.payload
          PROVE  f = g
      BY <1>2, <2>3, <2>4 DEF FramesNumbered
    <2> QED
      BY <1>5, <2>2, <2>4 DEF FramesNumbered
  <1>8. DeliveredAccepted'
    <2>1. /\ delivered' \in [frames' -> {0, 1}]
          /\ delivered'[new] = 0
          /\ \A f \in frames : delivered'[f] = delivered[f]
      BY <1>2, <1>4 DEF DeliveredAccepted
    <2> QED
      BY <1>1, <1>2, <2>1 DEF DeliveredAccepted
  <1>9. /\ publisher' \in Publishers /\ publisher'.epoch = publisher.epoch
        /\ publisher'.counter = publisher.counter + 1
        /\ OfAssociation(publisher', topics[Topic].keys)
    <2>1. publisher.counter <= CounterMax
      BY <1>4, WindowAssumption
    <2> QED
      BY <1>2, <1>3, <2>1, NextCounterFacts DEF PublisherAssociated
  <1>10. PublisherAssociated'
    <2>1. PICK r \in Nat, R \in Nat, m \in Nat : Progress(r, R, m)
      BY <1>3 DEF PublisherAssociated
    <2>2. /\ Cardinality(frames') <= CounterMax * m + publisher'.counter
          /\ Cardinality(frames') <= CounterMax * m + CounterMax
      <3>1. /\ CounterMax * m \in Nat /\ CounterMax \in Nat
            /\ publisher.counter \in 0..CounterMax - 1
        BY <1>4, <2>1, Counts, Product
      <3> QED
        BY <1>5, <1>9, <2>1, <3>1 DEF Progress
    <2>3. new.epoch = EpochAt(r) /\ r \in 0..r
      BY <1>4, <2>1 DEF Progress
    <2>4. Progress(r, R, m)'
      BY <1>1, <1>2, <1>9, <2>1, <2>2, <2>3 DEF Progress, EpochAt, OfAssociation
    <2> QED
      BY <1>1, <1>9, <2>4 DEF PublisherAssociated, OfAssociation
  <1>11. NothingBefore'
    BY <1>1, <1>3 DEF NothingBefore
  <1> QED
    BY <1>1, <1>6, <1>7, <1>8, <1>10, <1>11

\* Requests and answers, in time, late, lost or repeated, bring the subscriber
\* no context but one the TTA has made.
LEMMA RetrievalInv ==
  ASSUME IInv, RetrievalOnly,
         outstanding' \in 0..MaxOutstanding, paused' \in BOOLEAN,
         responses' \subseteq
            responses \cup (IF Topic \in DOMAIN topics THEN {CurrentContext} ELSE {}),
         subscriber' = subscriber \/ subscriber' \in responses
  PROVE  IInv'
  <1> USE DEF IInv
  <1>1. /\ UNCHANGED <<topics, objects, publisher, frames, delivered,
                       associations, rotations>>
        /\ UNCHANGED registry
    BY DEF RetrievalOnly, registry
  <1>2. RegistryInv' /\ GuardInv' /\ accepts' = accepts
    BY <1>1, IdleRegistry, IdleGuard DEF RetrievalOnly
  <1>3. \A x : Genuine(x) => Genuine(x)'
    BY <1>1, Counts, StaysGenuine
  <1>4. /\ FramesGenuine' /\ FramesNumbered' /\ DeliveredAccepted'
        /\ PublisherAssociated'
    BY <1>1, <1>2, <1>3, SameFrames, SameDelivery, SamePublisher
  <1>5. ContextsGenuine'
    <2>1. \A c \in responses : c \in Contexts /\ Genuine(c)
      BY DEF ContextsGenuine
    <2>2. Topic \in DOMAIN topics => CurrentContext \in Contexts /\ Genuine(CurrentContext)
      <3> SUFFICES ASSUME Topic \in DOMAIN topics
                   PROVE  CurrentContext \in Contexts /\ Genuine(CurrentContext)
        OBVIOUS
      <3>1. ContextCurrent
        BY ContextOfTopic
      <3>2. HasBeen(CurrentContext.epoch)
        <4>1. PICK r \in Nat, R \in Nat, m \in Nat : Progress(r, R, m)
          BY DEF PublisherAssociated
        <4>2. R \in 0..rotations /\ topics[Topic].epoch = EpochAt(R)
          BY <4>1, Counts DEF Progress
        <4> QED
          BY <3>1, <4>2 DEF HasBeen, ContextCurrent
      <3> QED
        BY <3>1, <3>2 DEF ContextCurrent, Genuine
    <2>3. ASSUME NEW c \in responses'
          PROVE  c \in Contexts /\ Genuine(c)'
      <3>1. c \in responses \/ (Topic \in DOMAIN topics /\ c = CurrentContext)
        OBVIOUS
      <3>2. c \in Contexts /\ Genuine(c)
        BY <2>1, <2>2, <3>1
      <3> QED
        BY <1>3, <3>2
    <2>4. subscriber' # None => subscriber' \in Contexts /\ Genuine(subscriber)'
      BY <1>3, <2>1 DEF ContextsGenuine, Genuine, HasBeen, OfAssociation
    <2> QED
      BY <2>3, <2>4 DEF ContextsGenuine, Contexts, Registry!Epochs, Registry!Keys,
                        Registry!Seeds, Registry!Levels
  <1>6. NothingBefore'
    BY <1>1 DEF NothingBefore
  <1>7. BoundsOK'
    BY <1>1 DEF BoundsOK
  <1> QED
    BY <1>2, <1>4, <1>5, <1>6, <1>7

\* The branches of a step of the key retrieval.
LEMMA RetrievalSteps ==
  ASSUME IInv,
         \/ RequestKey \/ AnswerKeyRequest \/ LoseRequest \/ LoseResponse
         \/ \E r \in responses : ApplyKeyResponse(r)
         \/ \E r \in responses : RepeatResponse(r)
  PROVE  IInv'
  <1>1. paused \in BOOLEAN /\ outstanding \in 0..MaxOutstanding /\ MaxOutstanding \in Nat
    BY BoundAssumption DEF IInv, BoundsOK
  <1>2. CASE RequestKey
    <2>1. outstanding' \in 0..MaxOutstanding
      BY <1>1, <1>2 DEF RequestKey
    <2> QED
      BY <1>1, <1>2, <2>1, RetrievalInv DEF RequestKey
  <1>3. CASE AnswerKeyRequest
    <2>1. outstanding' \in 0..MaxOutstanding
      BY <1>1, <1>3 DEF AnswerKeyRequest
    <2> QED
      BY <1>1, <1>3, <2>1, RetrievalInv DEF AnswerKeyRequest
  <1>4. CASE LoseRequest
    <2>1. outstanding' \in 0..MaxOutstanding
      BY <1>1, <1>4 DEF LoseRequest
    <2> QED
      BY <1>1, <1>4, <2>1, RetrievalInv DEF LoseRequest
  <1>5. CASE LoseResponse
    BY <1>1, <1>5, RetrievalInv DEF LoseResponse
  <1>6. ASSUME NEW r \in responses, ApplyKeyResponse(r)
        PROVE  IInv'
    BY <1>1, <1>6, RetrievalInv DEF ApplyKeyResponse, Use
  <1>7. ASSUME NEW r \in responses, RepeatResponse(r)
        PROVE  IInv'
    BY <1>1, <1>7, RetrievalInv DEF RepeatResponse, Use
  <1> QED
    BY <1>2, <1>3, <1>4, <1>5, <1>6, <1>7

\* What a received frame leaves alone.
LEMMA ReceiverStep ==
  ASSUME IInv, ReceiverOnly, paused' \in BOOLEAN
  PROVE  /\ RegistryInv' /\ BoundsOK' /\ ContextsGenuine'
         /\ FramesGenuine' /\ FramesNumbered'
         /\ PublisherAssociated' /\ NothingBefore'
  <1> USE DEF IInv
  <1>1. /\ UNCHANGED <<topics, objects, publisher, frames, associations, rotations,
                       outstanding, responses, subscriber>>
        /\ UNCHANGED registry
    BY DEF ReceiverOnly, registry, bounds
  <1>2. RegistryInv'
    BY <1>1, IdleRegistry
  <1>3. \A x : Genuine(x) => Genuine(x)'
    BY <1>1, Counts, StaysGenuine
  <1>4. /\ ContextsGenuine' /\ FramesGenuine' /\ FramesNumbered'
        /\ PublisherAssociated'
    BY <1>1, <1>3, SameContexts, SameFrames, SamePublisher
  <1>5. NothingBefore' /\ BoundsOK'
    BY <1>1 DEF NothingBefore, BoundsOK
  <1> QED
    BY <1>2, <1>4, <1>5

LEMMA MismatchInv ==
  ASSUME IInv, NEW f \in frames, ReceiveMismatch(f)
  PROVE  IInv'
  <1> USE DEF IInv
  <1>1. GuardInv' /\ accepts' = accepts
    BY IdleGuard DEF ReceiveMismatch
  <1>2. paused' \in BOOLEAN /\ ReceiverOnly /\ UNCHANGED <<frames, delivered>>
    BY DEF ReceiveMismatch, ReceiverOnly
  <1> QED
    BY <1>1, <1>2, ReceiverStep, SameDelivery

\* What the guard says of a frame, in terms of the frame.
LEMMA MatchFacts ==
  ASSUME IInv, NEW f \in frames, ReceiveMatch(f)
  PROVE  /\ GuardInv'
         /\ <<f.id, f.epoch>> \in GuardKeys /\ f.counter \in 0..CounterMax
         /\ reply'.key = <<f.id, f.epoch>> /\ reply'.counter = f.counter
         /\ \/ /\ reply'.result = "accept"
               /\ accepts[<<f.id, f.epoch>>][f.counter] = 0
               /\ accepts'[<<f.id, f.epoch>>][f.counter] = 1
               /\ \A j \in GuardKeys, d \in 0..CounterMax :
                    <<j, d>> # <<<<f.id, f.epoch>>, f.counter>>
                      => accepts'[j][d] = accepts[j][d]
            \/ reply'.result = "reject" /\ accepts' = accepts
  <1>1. /\ f.id \in 1..PublisherIdMax /\ f.counter \in 0..CounterMax - 1
        /\ f.epoch \in Registry!Epochs
    BY DEF IInv, FramesGenuine, Genuine, OfAssociation
  <1>2. <<f.id, f.epoch>> \in GuardKeys /\ f.counter \in 0..CounterMax
    BY <1>1, WindowAssumption DEF GuardKeys, Registry!Epochs
  <1> QED
    BY <1>2, CheckGuard DEF IInv, ReceiveMatch

\* The frames' places in the guard's history.
LEMMA FramePlaces ==
  ASSUME IInv, NEW f \in frames
  PROVE  <<f.id, f.epoch>> \in GuardKeys /\ f.counter \in 0..CounterMax
  <1>1. /\ f.id \in 1..PublisherIdMax /\ f.counter \in 0..CounterMax - 1
        /\ f.epoch \in Registry!Epochs
    BY DEF IInv, FramesGenuine, Genuine, OfAssociation
  <1> QED
    BY <1>1, WindowAssumption DEF GuardKeys, Registry!Epochs

\* A payload is handed up only with its counter's first acceptance.
LEMMA MatchInv ==
  ASSUME IInv, NEW f \in frames, ReceiveMatch(f)
  PROVE  IInv'
  <1> USE DEF IInv
  <1>1. paused' \in BOOLEAN /\ ReceiverOnly /\ frames' = frames
    BY DEF ReceiveMatch, ReceiverOnly, BoundsOK
  <1>2. /\ delivered \in [frames -> {0, 1}]
        /\ \A g \in frames :
             delivered[g] = 1 => accepts[<<g.id, g.epoch>>][g.counter] = 1
    BY DEF DeliveredAccepted
  <1>3. DeliveredAccepted'
    <2>1. CASE /\ reply'.result = "accept"
               /\ accepts[<<f.id, f.epoch>>][f.counter] = 0
               /\ accepts'[<<f.id, f.epoch>>][f.counter] = 1
               /\ \A j \in GuardKeys, d \in 0..CounterMax :
                    <<j, d>> # <<<<f.id, f.epoch>>, f.counter>>
                      => accepts'[j][d] = accepts[j][d]
      <3>1. delivered[f] = 0
        BY <1>2, <2>1
      <3>2. delivered' = delivered \/ delivered' = [delivered EXCEPT ![f] = 1]
        <4>1. delivered' = delivered \/ delivered' = [delivered EXCEPT ![f] = delivered[f] + 1]
          BY DEF ReceiveMatch
        <4> QED
          BY <3>1, <4>1
      <3>3. /\ delivered' \in [frames -> {0, 1}]
            /\ \A g \in frames : g # f => delivered'[g] = delivered[g]
        BY <1>2, <3>2
      <3>4. ASSUME NEW g \in frames, delivered'[g] = 1
            PROVE  accepts'[<<g.id, g.epoch>>][g.counter] = 1
        <4>1. CASE <<<<g.id, g.epoch>>, g.counter>> = <<<<f.id, f.epoch>>, f.counter>>
          BY <2>1, <4>1
        <4>2. CASE <<<<g.id, g.epoch>>, g.counter>> # <<<<f.id, f.epoch>>, f.counter>>
          <5>1. accepts[<<g.id, g.epoch>>][g.counter] = 1
            BY <1>2, <3>3, <3>4, <4>2
          <5> QED
            BY <2>1, <4>2, <5>1, FramePlaces
        <4> QED
          BY <4>1, <4>2
      <3> QED
        BY <1>1, <3>3, <3>4 DEF DeliveredAccepted
    <2>2. CASE reply'.result = "reject" /\ accepts' = accepts
      <3>1. delivered' = delivered
        BY <2>2 DEF ReceiveMatch
      <3> QED
        BY <1>1, <2>2, <3>1, SameDelivery
    <2> QED
      BY <2>1, <2>2, MatchFacts
  <1> QED
    BY <1>1, <1>3, MatchFacts, ReceiverStep

\* After a reboot nothing was handed up, and the guard knows no counter.
LEMMA RebootInv ==
  ASSUME IInv, Reboot
  PROVE  IInv'
  <1> USE DEF IInv
  <1>1. /\ UNCHANGED <<topics, objects, publisher, frames, associations, rotations,
                       outstanding, responses>>
        /\ UNCHANGED registry
        /\ subscriber' = None /\ paused' = FALSE
        /\ delivered' = [f \in frames |-> 0]
    BY DEF Reboot, registry
  <1>2. RegistryInv' /\ GuardInv'
    BY <1>1, IdleRegistry, FlushGuard DEF Reboot
  <1>3. \A x : Genuine(x) => Genuine(x)'
    BY <1>1, Counts, StaysGenuine
  <1>4. FramesGenuine' /\ FramesNumbered' /\ PublisherAssociated'
    BY <1>1, <1>3, SameFrames, SamePublisher
  <1>5. ContextsGenuine'
    BY <1>1, <1>3 DEF ContextsGenuine, Genuine, HasBeen, OfAssociation
  <1>6. NothingBefore' /\ BoundsOK'
    BY <1>1 DEF NothingBefore, BoundsOK
  <1>7. DeliveredAccepted'
    BY <1>1 DEF DeliveredAccepted
  <1> QED
    BY <1>2, <1>4, <1>5, <1>6, <1>7

LEMMA StutterInv ==
  ASSUME IInv, UNCHANGED vars
  PROVE  IInv'
  <1> USE DEF IInv
  <1>1. /\ UNCHANGED <<topics, objects, publisher, frames, associations, rotations,
                       outstanding, responses, subscriber, paused, delivered,
                       guard, accepts, reply>>
        /\ UNCHANGED registry
    BY DEF vars, registry, replay, phase5, bounds
  <1>2. RegistryInv'
    BY <1>1, IdleRegistry
  <1>3. GuardInv'
    <2>1. UNCHANGED GuardProofs!vars
      BY <1>1 DEF GuardProofs!vars
    <2> QED
      BY <2>1, ComponentAssumptions, GuardProofs!StepInv DEF GuardInv
  <1>4. \A x : Genuine(x) => Genuine(x)'
    BY <1>1, Counts, StaysGenuine
  <1>5. /\ ContextsGenuine' /\ FramesGenuine' /\ FramesNumbered'
        /\ PublisherAssociated' /\ DeliveredAccepted'
    BY <1>1, <1>4, SameContexts, SameFrames, SamePublisher, SameDelivery
  <1>6. NothingBefore' /\ BoundsOK'
    BY <1>1 DEF NothingBefore, BoundsOK
  <1> QED
    BY <1>2, <1>3, <1>5, <1>6

LEMMA StepInv == IInv /\ [Next]_vars => IInv'
  <1> SUFFICES ASSUME IInv, [Next]_vars PROVE IInv'
    OBVIOUS
  <1>1. CASE Associate \/ Rotate
    BY <1>1, AssociateInv, RotateInv
  <1>2. CASE PublisherRekey \/ CreateDataFrame \/ CounterOverflow
    BY <1>2, RekeyInv, CreateInv, OverflowInv
  <1>3. CASE \/ RequestKey \/ AnswerKeyRequest \/ LoseRequest \/ LoseResponse
             \/ \E r \in responses : ApplyKeyResponse(r)
             \/ \E r \in responses : RepeatResponse(r)
    BY <1>3, RetrievalSteps
  <1>4. ASSUME NEW f \in frames, ReceiveMismatch(f) \/ ReceiveMatch(f)
        PROVE  IInv'
    BY <1>4, MismatchInv, MatchInv
  <1>5. CASE Reboot
    BY <1>5, RebootInv
  <1>6. CASE UNCHANGED vars
    BY <1>6, StutterInv
  <1> QED
    BY <1>1, <1>2, <1>3, <1>4, <1>5, <1>6 DEF Next

------------------------------------------------------------------------------
(* Any number of associations, rotations, reboots and faults.              *)

\* The components' invariants and the data plane's own hold in every state.
THEOREM InductiveInvariant == Spec => []IInv
  BY InitInv, StepInv, PTL DEF Spec

\* The parties' states keep their types.
THEOREM TypeCorrect == Spec => []TypeOK
  <1>1. IInv => TypeOK
    <2> SUFFICES ASSUME IInv PROVE TypeOK
      OBVIOUS
    <2>1. Registry!TypeOK /\ Guard!TypeOK
      BY RegistryAsProved, GuardAsProved
         DEF IInv, RegistryInv, GuardInv, RegistryProofs!IInv, GuardProofs!IInv
    <2>2. \/ publisher = None
          \/ /\ publisher.id \in 1..PublisherIdMax
             /\ publisher.counter \in 0..CounterMax + 1
             /\ [epoch |-> publisher.epoch, key |-> publisher.key,
                 salt |-> publisher.salt] \in Contexts
      BY DEF IInv, PublisherAssociated, NothingBefore, Publishers, Contexts
    <2>3. \A f \in frames : f.counter < CounterMax
      BY WindowAssumption DEF IInv, FramesGenuine
    <2>4. subscriber \in Contexts \cup {None} /\ responses \subseteq Contexts
      BY DEF IInv, ContextsGenuine
    <2>5. paused \in BOOLEAN /\ outstanding \in 0..MaxOutstanding
      BY DEF IInv, BoundsOK
    <2>6. DOMAIN delivered = frames
      BY DEF IInv, DeliveredAccepted
    <2> QED
      BY <2>1, <2>2, <2>3, <2>4, <2>5, <2>6 DEF TypeOK
  <1> QED
    BY <1>1, InductiveInvariant, PTL

\* A payload is handed up at most once between two boots, also when the topic
\* is associated again and when the epoch ids wrap around.
THEOREM HandedUpAtMostOnce == Spec => []AtMostOnce
  <1>1. IInv => AtMostOnce
    <2> SUFFICES ASSUME IInv, NEW f \in frames PROVE delivered[f] <= 1
      BY DEF AtMostOnce
    <2>1. delivered[f] \in {0, 1}
      BY DEF IInv, DeliveredAccepted
    <2> QED
      BY <2>1
  <1> QED
    BY <1>1, InductiveInvariant, PTL

------------------------------------------------------------------------------
(* Fewer rotations than epochs, so that no epoch id comes back.            *)

\* The publisher's counter is above those of the frames of its context.
CountersAhead ==
  Topic \in DOMAIN topics =>
    \A f \in frames :
      (OfAssociation(f, topics[Topic].keys) /\ f.epoch = publisher.epoch)
         => f.counter < publisher.counter

NonceInv == CountersAhead /\ NonceUsedOnce

\* Steps that make no frame and leave the publisher in its context.
LEMMA NonceSame ==
  ASSUME NonceInv, UNCHANGED <<publisher, frames>>,
         Topic \in DOMAIN topics' =>
           Topic \in DOMAIN topics /\ topics'[Topic].keys = topics[Topic].keys
  PROVE  NonceInv'
  BY DEF NonceInv, CountersAhead, NonceUsedOnce, OfAssociation

\* A topic that comes to a new epoch finds no frame of it.
LEMMA NonceRekey ==
  ASSUME MaxRotations < EpochCount, IInv, NonceInv, PublisherRekey
  PROVE  NonceInv'
  <1>1. /\ publisher # None /\ publisher.epoch # topics[Topic].epoch
        /\ publisher' = FreshContext(publisher.id, CurrentContext)
        /\ UNCHANGED <<frames, topics>>
    BY DEF PublisherRekey, PublisherOnly, registry
  <1>2. Topic \in DOMAIN topics
    BY <1>1 DEF IInv, NothingBefore
  <1>3. PICK r \in Nat, R \in Nat, m \in Nat : Progress(r, R, m)
    BY <1>2 DEF IInv, PublisherAssociated
  <1>4. r < R /\ R \in 0..EpochCount - 1
    <2>1. rotations \in 0..MaxRotations /\ MaxRotations \in Nat /\ EpochCount \in Nat
      BY BoundAssumption, EpochAssumption DEF IInv, BoundsOK
    <2> QED
      BY <1>1, <1>3, <2>1 DEF Progress
  <1>5. publisher'.epoch = EpochAt(R)
    <2>1. ContextCurrent
      BY <1>2, ContextOfTopic DEF IInv
    <2> QED
      BY <1>1, <1>3, <2>1 DEF FreshContext, ContextCurrent, Progress
  <1>6. ASSUME NEW f \in frames, OfAssociation(f, topics[Topic].keys)
        PROVE  f.epoch # publisher'.epoch
    <2>1. PICK i \in 0..r : f.epoch = EpochAt(i)
      BY <1>3, <1>6 DEF Progress
    <2>2. i \in 0..EpochCount - 1 /\ i # R /\ EpochCount \in Nat \ {0}
      BY <1>4, EpochAssumption
    <2>3. EpochAt(i) # EpochAt(R)
      BY <1>4, <2>2, NoWrap, EpochAssumption DEF EpochAt
    <2> QED
      BY <1>5, <2>1, <2>3
  <1>7. CountersAhead'
    BY <1>1, <1>6 DEF CountersAhead, OfAssociation
  <1>8. NonceUsedOnce'
    BY <1>1 DEF NonceInv, NonceUsedOnce
  <1> QED
    BY <1>7, <1>8 DEF NonceInv

\* A new frame has a counter no frame of its key has.
LEMMA NonceCreate ==
  ASSUME IInv, NonceInv, CreateDataFrame
  PROVE  NonceInv'
  <1> DEFINE new == NewFrame
  <1>1. /\ publisher # None /\ ~CounterExhausted /\ NextCounter
        /\ frames' = frames \cup {new}
        /\ UNCHANGED topics
    BY DEF CreateDataFrame, PublisherOnly, registry
  <1>2. Topic \in DOMAIN topics
    BY <1>1 DEF IInv, NothingBefore
  <1>3. /\ publisher \in Publishers
        /\ OfAssociation(publisher, topics[Topic].keys)
    BY <1>2 DEF IInv, PublisherAssociated
  <1>4. /\ new.counter = publisher.counter
        /\ new.epoch = publisher.epoch
        /\ publisher.counter \in 0..CounterMax - 1
        /\ OfAssociation(new, topics[Topic].keys)
    BY <1>1, <1>2, <1>3, NewFrameFacts
  <1>5. publisher'.counter = publisher.counter + 1 /\ publisher'.epoch = publisher.epoch
    <2>1. publisher.counter <= CounterMax
      BY <1>4, WindowAssumption
    <2> QED
      BY <1>1, <1>3, <2>1, NextCounterFacts
  <1> HIDE DEF new
  <1>6. \A f \in frames :
          (OfAssociation(f, topics[Topic].keys) /\ f.epoch = publisher.epoch)
            => f.counter \in Nat /\ f.counter < publisher.counter
    BY <1>2 DEF NonceInv, CountersAhead, IInv, FramesGenuine
  <1>7. CountersAhead'
    <2>1. ASSUME NEW f \in frames', OfAssociation(f, topics[Topic].keys),
                 f.epoch = publisher.epoch
          PROVE  f.counter < publisher.counter + 1
      <3>1. CASE f = new
        BY <1>4, <3>1
      <3>2. CASE f \in frames
        BY <1>4, <1>6, <2>1, <3>2
      <3> QED
        BY <1>1, <3>1, <3>2
    <2> QED
      BY <1>1, <1>5, <2>1 DEF CountersAhead, OfAssociation
  <1>8. ASSUME NEW f \in frames
        PROVE  <<f.key, f.salt, f.id, f.counter>> # <<new.key, new.salt, new.id, new.counter>>
    <2>1. PICK k : OfAssociation(f, k)
      BY DEF IInv, FramesGenuine, Genuine
    <2>2. f.key = new.key => /\ OfAssociation(f, topics[Topic].keys)
                             /\ f.epoch = publisher.epoch
      BY <1>4, <2>1 DEF OfAssociation, Registry!Derive
    <2>3. f.key = new.key => f.counter # new.counter
      BY <1>4, <1>6, <2>2
    <2> QED
      BY <2>3
  <1>9. NonceUsedOnce'
    BY <1>1, <1>8 DEF NonceInv, NonceUsedOnce
  <1> QED
    BY <1>7, <1>9 DEF NonceInv

\* An overflow moves the counter further ahead.
LEMMA NonceOverflow ==
  ASSUME IInv, NonceInv, CounterOverflow
  PROVE  NonceInv'
  <1>1. /\ publisher # None /\ publisher.counter <= CounterMax /\ NextCounter
        /\ UNCHANGED <<frames, topics>>
    BY DEF CounterOverflow, PublisherOnly, registry
  <1>2. Topic \in DOMAIN topics
    BY <1>1 DEF IInv, NothingBefore
  <1>3. publisher \in Publishers
    BY <1>2 DEF IInv, PublisherAssociated
  <1>4. publisher'.counter = publisher.counter + 1 /\ publisher'.epoch = publisher.epoch
    BY <1>1, <1>3, NextCounterFacts
  <1>5. publisher.counter \in Nat /\ \A f \in frames : f.counter \in Nat
    BY <1>3 DEF Publishers, IInv, FramesGenuine
  <1>6. CountersAhead'
    BY <1>1, <1>4, <1>5 DEF NonceInv, CountersAhead, OfAssociation
  <1>7. NonceUsedOnce'
    BY <1>1 DEF NonceInv, NonceUsedOnce
  <1> QED
    BY <1>6, <1>7 DEF NonceInv

\* A new association finds no frame of its dictionary.
LEMMA NonceAssociate ==
  ASSUME IInv, NonceInv, Associate
  PROVE  NonceInv'
  <1>1. topics'[Topic].keys = objects /\ UNCHANGED frames
    BY AssociateRegistry DEF IInv, Associate
  <1>2. \A f \in frames : ~OfAssociation(f, objects)
    BY NoFrameBefore
  <1>3. CountersAhead'
    BY <1>1, <1>2 DEF CountersAhead, OfAssociation
  <1>4. NonceUsedOnce'
    BY <1>1 DEF NonceInv, NonceUsedOnce
  <1> QED
    BY <1>3, <1>4 DEF NonceInv

LEMMA NonceStep ==
  ASSUME MaxRotations < EpochCount
  PROVE  IInv /\ NonceInv /\ [Next]_vars => NonceInv'
  <1> SUFFICES ASSUME IInv, NonceInv, [Next]_vars PROVE NonceInv'
    OBVIOUS
  <1>1. CASE Associate
    BY <1>1, NonceAssociate
  <1>2. CASE Rotate
    <2>1. UNCHANGED <<publisher, frames>>
      BY <1>2 DEF Rotate
    <2>2. Topic \in DOMAIN topics /\ topics'[Topic].keys = topics[Topic].keys
      BY <1>2, RotateRegistry DEF Rotate, IInv
    <2> QED
      BY <2>1, <2>2, NonceSame
  <1>3. CASE PublisherRekey \/ CreateDataFrame \/ CounterOverflow
    BY <1>3, NonceRekey, NonceCreate, NonceOverflow
  <1>4. CASE UNCHANGED <<topics, publisher, frames>>
    BY <1>4, NonceSame
  <1>5. ASSUME \/ RequestKey \/ AnswerKeyRequest \/ LoseRequest \/ LoseResponse
               \/ \E r \in responses : ApplyKeyResponse(r)
               \/ \E r \in responses : RepeatResponse(r)
               \/ \E f \in frames : ReceiveMismatch(f)
               \/ \E f \in frames : ReceiveMatch(f)
               \/ Reboot \/ UNCHANGED vars
        PROVE  UNCHANGED <<topics, publisher, frames>>
    BY <1>5 DEF RequestKey, AnswerKeyRequest, LoseRequest, LoseResponse,
                ApplyKeyResponse, RepeatResponse, RetrievalOnly,
                ReceiveMismatch, ReceiveMatch, ReceiverOnly, Reboot,
                registry, vars
  <1> QED
    BY <1>1, <1>2, <1>3, <1>4, <1>5 DEF Next

\* As long as the epoch ids have not wrapped around, no nonce is used twice
\* with a key, however often the topic is associated again.
THEOREM NoncesUnique ==
  ASSUME MaxRotations < EpochCount
  PROVE  Spec => []NonceUsedOnce
  <1>1. Init => NonceInv
    BY DEF Init, Registry!Init, NonceInv, CountersAhead, NonceUsedOnce
  <1>2. IInv /\ NonceInv /\ [Next]_vars => NonceInv'
    BY NonceStep
  <1>3. NonceInv => NonceUsedOnce
    BY DEF NonceInv
  <1> QED
    BY <1>1, <1>2, <1>3, InductiveInvariant, PTL DEF Spec

------------------------------------------------------------------------------
(* One association at most, so that an epoch id has one key.               *)

\* Every dictionary is of an association.
Dictionaries == objects = associations

\* A counter the guard has accepted was a frame's, whose payload was handed up.
AcceptedDelivered ==
  \A k \in GuardKeys, c \in 0..CounterMax :
    accepts[k][c] = 1 =>
      \E f \in frames : /\ <<f.id, f.epoch>> = k /\ f.counter = c
                        /\ delivered[f] = 1

\* Every context is of the first dictionary.
LEMMA OneDictionary ==
  ASSUME MaxAssociations <= 1, IInv, Dictionaries, NEW x, Genuine(x)
  PROVE  OfAssociation(x, 0)
  <1>1. objects \in Nat /\ objects <= 1
    <2>1. associations \in 0..MaxAssociations /\ MaxAssociations \in Nat
      BY BoundAssumption DEF IInv, BoundsOK
    <2> QED
      BY <2>1 DEF Dictionaries
  <1>2. \A k \in 0..objects - 1 : k = 0
    BY <1>1
  <1> QED
    BY <1>2 DEF Genuine

\* What is of one epoch has one key and one salt.
LEMMA EpochTellsKey ==
  ASSUME MaxAssociations <= 1, IInv, Dictionaries
  PROVE  EpochIdTellsKey
  <1> SUFFICES ASSUME subscriber # None, NEW f \in frames, f.epoch = subscriber.epoch
               PROVE  Decrypts(f)
    BY DEF EpochIdTellsKey, Mismatch
  <1>1. Genuine(subscriber) /\ Genuine(f)
    BY DEF IInv, ContextsGenuine, FramesGenuine
  <1>2. OfAssociation(subscriber, 0) /\ OfAssociation(f, 0)
    BY <1>1, OneDictionary
  <1> QED
    BY <1>2 DEF Decrypts, OfAssociation

LEMMA DictionariesStep ==
  ASSUME IInv, Dictionaries, [Next]_vars
  PROVE  Dictionaries'
  <1>1. CASE Associate
    <2>1. objects' = objects + 1 /\ associations' = associations + 1
      BY <1>1, AssociateRegistry DEF Associate, IInv
    <2> QED
      BY <2>1 DEF Dictionaries
  <1>2. CASE Rotate
    <2>1. objects' = objects /\ associations' = associations
      BY <1>2, RotateRegistry DEF Rotate, IInv
    <2> QED
      BY <2>1 DEF Dictionaries
  <1>3. ASSUME \/ PublisherRekey \/ CreateDataFrame \/ CounterOverflow
               \/ RequestKey \/ AnswerKeyRequest \/ LoseRequest \/ LoseResponse
               \/ \E r \in responses : ApplyKeyResponse(r)
               \/ \E r \in responses : RepeatResponse(r)
               \/ \E f \in frames : ReceiveMismatch(f)
               \/ \E f \in frames : ReceiveMatch(f)
               \/ Reboot \/ UNCHANGED vars
        PROVE  UNCHANGED <<objects, associations>>
    BY <1>3 DEF PublisherRekey, CreateDataFrame, CounterOverflow, PublisherOnly,
                RequestKey, AnswerKeyRequest, LoseRequest, LoseResponse,
                ApplyKeyResponse, RepeatResponse, RetrievalOnly,
                ReceiveMismatch, ReceiveMatch, ReceiverOnly, Reboot,
                registry, bounds, vars
  <1> QED
    BY <1>1, <1>2, <1>3 DEF Next, Dictionaries

\* Steps that leave the history of the guard alone and hand up nothing.
LEMMA AcceptedSame ==
  ASSUME AcceptedDelivered, UNCHANGED accepts, frames \subseteq frames',
         \A f \in frames : delivered'[f] = delivered[f]
  PROVE  AcceptedDelivered'
  BY DEF AcceptedDelivered

\* A frame the guard accepts is decrypted and handed up.
LEMMA AcceptedMatch ==
  ASSUME IInv, EpochIdTellsKey, AcceptedDelivered,
         NEW f \in frames, ReceiveMatch(f)
  PROVE  AcceptedDelivered'
  <1> DEFINE place == <<f.id, f.epoch>>
  <1>1. frames' = frames /\ subscriber # None /\ ~Mismatch(f)
    BY DEF ReceiveMatch, ReceiverOnly, Listening
  <1>2. Decrypts(f)
    BY <1>1 DEF EpochIdTellsKey
  <1>3. /\ delivered \in [frames -> {0, 1}]
        /\ delivered[f] = 1 => accepts[place][f.counter] = 1
    BY DEF IInv, DeliveredAccepted
  <1>4. CASE reply'.result = "reject" /\ accepts' = accepts
    <2>1. delivered' = delivered
      BY <1>4 DEF ReceiveMatch
    <2> QED
      BY <1>1, <1>4, <2>1, AcceptedSame
  <1>5. CASE /\ reply'.result = "accept"
             /\ accepts[place][f.counter] = 0
             /\ \A j \in GuardKeys, d \in 0..CounterMax :
                  <<j, d>> # <<place, f.counter>> => accepts'[j][d] = accepts[j][d]
    <2>1. delivered[f] = 0
      BY <1>3, <1>5
    <2>2. delivered' = [delivered EXCEPT ![f] = delivered[f] + 1]
      BY <1>2, <1>5 DEF ReceiveMatch
    <2>3. /\ delivered'[f] = 1
          /\ \A g \in frames : g # f => delivered'[g] = delivered[g]
      BY <1>3, <2>1, <2>2
    <2>4. ASSUME NEW k \in GuardKeys, NEW c \in 0..CounterMax, accepts'[k][c] = 1
          PROVE  \E g \in frames : /\ <<g.id, g.epoch>> = k /\ g.counter = c
                                   /\ delivered'[g] = 1
      <3>1. CASE <<k, c>> = <<place, f.counter>>
        BY <2>3, <3>1
      <3>2. CASE <<k, c>> # <<place, f.counter>>
        <4>1. PICK g \in frames : /\ <<g.id, g.epoch>> = k /\ g.counter = c
                                  /\ delivered[g] = 1
          BY <1>5, <2>4, <3>2 DEF AcceptedDelivered
        <4>2. delivered'[g] = 1
          BY <2>1, <2>3, <4>1
        <4> QED
          BY <4>1, <4>2
      <3> QED
        BY <3>1, <3>2
    <2> QED
      BY <1>1, <2>4 DEF AcceptedDelivered
  <1> QED
    BY <1>4, <1>5, MatchFacts

LEMMA AcceptedStep ==
  ASSUME IInv, EpochIdTellsKey, AcceptedDelivered, [Next]_vars
  PROVE  AcceptedDelivered'
  <1>1. CASE CreateDataFrame
    <2>1. /\ NewFrame \notin frames /\ frames' = frames \cup {NewFrame}
          /\ delivered' = [f \in frames' |-> IF f = NewFrame THEN 0 ELSE delivered[f]]
      BY <1>1, NewFrameFacts DEF CreateDataFrame, IInv, NothingBefore
    <2> HIDE DEF NewFrame
    <2>2. UNCHANGED accepts
      BY <1>1 DEF CreateDataFrame, PublisherOnly, GuardIdle
    <2> QED
      BY <2>1, <2>2, AcceptedSame
  <1>2. ASSUME NEW f \in frames, ReceiveMatch(f)
        PROVE  AcceptedDelivered'
    BY <1>2, AcceptedMatch
  <1>3. CASE Reboot
    BY <1>3, FlushGuard DEF Reboot, IInv, AcceptedDelivered
  <1>4. ASSUME \/ Associate \/ Rotate \/ PublisherRekey \/ CounterOverflow
               \/ RequestKey \/ AnswerKeyRequest \/ LoseRequest \/ LoseResponse
               \/ \E r \in responses : ApplyKeyResponse(r)
               \/ \E r \in responses : RepeatResponse(r)
               \/ \E f \in frames : ReceiveMismatch(f)
               \/ UNCHANGED vars
        PROVE  UNCHANGED <<accepts, frames, delivered>>
    BY <1>4 DEF Associate, Rotate, PublisherRekey, CounterOverflow, PublisherOnly,
                RequestKey, AnswerKeyRequest, LoseRequest, LoseResponse,
                ApplyKeyResponse, RepeatResponse, RetrievalOnly,
                ReceiveMismatch, ReceiverOnly, GuardIdle,
                replay, vars
  <1> QED
    BY <1>1, <1>2, <1>3, <1>4, AcceptedSame DEF Next

\* A topic that is associated once at most: the epoch id of a frame tells
\* whether the subscriber can decrypt it.
THEOREM EpochIdsTellKeys ==
  ASSUME MaxAssociations <= 1
  PROVE  Spec => []EpochIdTellsKey
  <1>1. Init => Dictionaries
    BY DEF Init, Registry!Init, Dictionaries
  <1>2. IInv /\ Dictionaries /\ [Next]_vars => Dictionaries'
    BY DictionariesStep
  <1>3. IInv /\ Dictionaries => EpochIdTellsKey
    BY EpochTellsKey
  <1> QED
    BY <1>1, <1>2, <1>3, InductiveInvariant, PTL DEF Spec

------------------------------------------------------------------------------
(* Both: a place in the guard's history is one frame's for good.           *)

\* The payloads of a context are in the order of its counters.
Chronological ==
  \A f, g \in frames :
    (<<f.key, f.salt, f.id>> = <<g.key, g.salt, g.id>> /\ f.counter < g.counter)
      => f.payload < g.payload

\* A new frame has the highest counter of its context and the highest number.
LEMMA ChronologicalCreate ==
  ASSUME IInv, NonceInv, Chronological, CreateDataFrame
  PROVE  Chronological'
  <1> DEFINE new == NewFrame
  <1>1. Topic \in DOMAIN topics /\ ~CounterExhausted
    BY DEF CreateDataFrame, IInv, NothingBefore
  <1>2. /\ new.counter = publisher.counter /\ new.counter \in Nat
        /\ new.epoch = publisher.epoch /\ new.payload = Cardinality(frames)
        /\ OfAssociation(new, topics[Topic].keys)
    BY <1>1, NewFrameFacts, WindowAssumption DEF IInv, PublisherAssociated
  <1>3. frames' = frames \cup {new}
    BY DEF CreateDataFrame
  <1> HIDE DEF new
  <1>4. ASSUME NEW f \in frames
        PROVE  /\ f.payload < new.payload
               /\ f.key = new.key => f.counter < new.counter
               /\ f.counter \in Nat
    <2>1. Cardinality(frames) \in Nat /\ f.payload \in 0..Cardinality(frames) - 1
      BY Counts DEF IInv, FramesNumbered
    <2>2. f.counter \in Nat
      BY WindowAssumption DEF IInv, FramesGenuine
    <2>3. PICK k : OfAssociation(f, k)
      BY DEF IInv, FramesGenuine, Genuine
    <2>4. f.key = new.key => /\ OfAssociation(f, topics[Topic].keys)
                             /\ f.epoch = publisher.epoch
      BY <1>2, <2>3 DEF OfAssociation, Registry!Derive
    <2>5. f.key = new.key => f.counter < new.counter
      BY <1>1, <1>2, <2>4 DEF NonceInv, CountersAhead
    <2> QED
      BY <1>2, <2>1, <2>2, <2>5
  <1>5. ASSUME NEW f \in frames', NEW g \in frames',
               f.key = g.key, f.salt = g.salt, f.id = g.id, f.counter < g.counter
        PROVE  f.payload < g.payload
    <2>1. CASE f \in frames /\ g \in frames
      BY <1>5, <2>1 DEF Chronological
    <2>2. CASE f \in frames /\ g = new
      BY <1>4, <2>2
    <2>3. CASE f = new
      <3>1. CASE g = new
        BY <1>2, <1>5, <2>3, <3>1
      <3>2. CASE g \in frames
        <4>1. g.counter < new.counter /\ g.counter \in Nat
          BY <1>4, <1>5, <2>3, <3>2
        <4> QED
          BY <1>2, <1>5, <2>3, <4>1
      <3> QED
        BY <1>3, <3>1, <3>2
    <2> QED
      BY <1>3, <2>1, <2>2, <2>3
  <1> QED
    BY <1>5 DEF Chronological

LEMMA ChronologicalStep ==
  ASSUME IInv, NonceInv, Chronological, [Next]_vars
  PROVE  Chronological'
  <1>1. CASE CreateDataFrame
    BY <1>1, ChronologicalCreate
  <1>2. ASSUME \/ Associate \/ Rotate \/ PublisherRekey \/ CounterOverflow
               \/ RequestKey \/ AnswerKeyRequest \/ LoseRequest \/ LoseResponse
               \/ \E r \in responses : ApplyKeyResponse(r)
               \/ \E r \in responses : RepeatResponse(r)
               \/ \E f \in frames : ReceiveMismatch(f)
               \/ \E f \in frames : ReceiveMatch(f)
               \/ Reboot \/ UNCHANGED vars
        PROVE  UNCHANGED frames
    BY <1>2 DEF Associate, Rotate, PublisherRekey, CounterOverflow,
                RequestKey, AnswerKeyRequest, LoseRequest, LoseResponse,
                ApplyKeyResponse, RepeatResponse, RetrievalOnly,
                ReceiveMismatch, ReceiveMatch, ReceiverOnly, Reboot, vars
  <1> QED
    BY <1>1, <1>2 DEF Next, Chronological

\* A frame the guard refuses was handed up, or a later one a window ahead was.
LEMMA RefusalExplained ==
  ASSUME MaxAssociations <= 1, IInv, NonceInv, Dictionaries, AcceptedDelivered,
         Chronological, NEW f \in frames, ReceiveMatch(f), reply'.result = "reject"
  PROVE  delivered[f] = 1 \/ \E g \in frames : Overtaken(f, g)
  <1> DEFINE place == <<f.id, f.epoch>>
  <1>1. /\ GuardInv' /\ accepts' = accepts
        /\ place \in GuardKeys /\ f.counter \in 0..CounterMax
        /\ reply'.key = place /\ reply'.counter = f.counter
    BY MatchFacts
  <1>2. PICK d \in 0..CounterMax : /\ accepts[place][d] = 1
                                   /\ \/ d = f.counter
                                      \/ d - f.counter >= WindowSize
    BY <1>1 DEF GuardInv, GuardProofs!IInv, GuardProofs!RejectsOnlyWithCause,
                GuardProofs!Counters
  <1>3. PICK g \in frames : /\ <<g.id, g.epoch>> = place /\ g.counter = d
                            /\ delivered[g] = 1
    BY <1>1, <1>2 DEF AcceptedDelivered
  <1>4. <<f.key, f.salt, f.id>> = <<g.key, g.salt, g.id>>
    <2>1. OfAssociation(f, 0) /\ OfAssociation(g, 0)
      BY OneDictionary DEF IInv, FramesGenuine
    <2> QED
      BY <1>3, <2>1 DEF OfAssociation
  <1>5. CASE d = f.counter
    BY <1>3, <1>4, <1>5 DEF NonceInv, NonceUsedOnce
  <1>6. CASE d - f.counter >= WindowSize
    <2>1. f.counter < g.counter
      BY <1>1, <1>3, <1>6, WindowAssumption
    <2>2. f.payload < g.payload
      BY <1>4, <2>1 DEF Chronological
    <2>3. f.payload \in Int /\ g.payload \in Int
      BY DEF IInv, FramesNumbered
    <2> QED
      BY <1>3, <1>6, <2>2, <2>3 DEF Overtaken
  <1> QED
    BY <1>2, <1>5, <1>6

\* A topic that is associated once at most and whose epoch ids have not wrapped
\* around: the guard refuses a frame only if that frame was handed up since the
\* last boot, or was overtaken by a window or more.
THEOREM RefusalsDelivered ==
  ASSUME MaxRotations < EpochCount, MaxAssociations <= 1
  PROVE  Spec => RefusedOnlyIfDelivered
  <1> DEFINE Inv == /\ NonceInv /\ Dictionaries /\ AcceptedDelivered
                    /\ Chronological
             Refusal == \A f \in frames :
                          ReceiveMatch(f) /\ reply'.result = "reject"
                            => delivered[f] = 1 \/ \E g \in frames : Overtaken(f, g)
  <1>1. Init => Inv
    <2>1. Init => \A k \in GuardKeys, c \in 0..CounterMax : accepts[k][c] = 0
      BY DEF Init, Guard!Init, GuardKeys, Guard!Keys, Guard!Counters
    <2>2. Init => NonceInv /\ Dictionaries /\ Chronological
      BY DEF Init, Registry!Init, NonceInv, CountersAhead, NonceUsedOnce,
             Dictionaries, Chronological
    <2> QED
      BY <2>1, <2>2 DEF AcceptedDelivered
  <1>2. IInv /\ Inv /\ [Next]_vars => Inv'
    BY NonceStep, DictionariesStep, EpochTellsKey, AcceptedStep, ChronologicalStep
  <1>3. IInv /\ Inv => Refusal
    BY RefusalExplained
  <1> HIDE DEF Inv
  <1>4. Spec => [](IInv /\ Inv)
    BY <1>1, <1>2, InductiveInvariant, PTL DEF Spec
  <1>5. IInv /\ Inv => [Refusal]_vars
    BY <1>3
  <1> HIDE DEF Refusal
  <1>6. Spec => [][Refusal]_vars
    BY <1>4, <1>5, PTL DEF Spec
  <1> QED
    BY <1>6 DEF RefusedOnlyIfDelivered, Refusal

------------------------------------------------------------------------------
(* The promise of SecureTopic, for any number of associations and epochs.  *)

\* The topic has been in the epochs of its rotations.
LEMMA OpenedFacts ==
  IInv => /\ Topic \in DOMAIN topics => Opened = {EpochAt(i) : i \in 0..rotations}
          /\ \A x : Genuine(x) /\ Topic \in DOMAIN topics => x.epoch \in Opened
  BY DEF Opened, EpochAt, Genuine, HasBeen

\* Messages are distinct, so that what was handed up of a message is what was
\* handed up of its frame.
HandedTells ==
  /\ \A f, g \in frames : Message(f) = Message(g) => f = g
  /\ \A f \in frames : Message(f) \in Published /\ Handed[Message(f)] = delivered[f]

LEMMA HandedFacts == IInv => HandedTells
  <1> SUFFICES ASSUME IInv PROVE HandedTells
    OBVIOUS
  <1>1. ASSUME NEW f \in frames, NEW g \in frames, Message(f) = Message(g)
        PROVE  f = g
    BY <1>1 DEF Message, IInv, FramesNumbered
  <1>2. ASSUME NEW f \in frames
        PROVE  Message(f) \in Published /\ Handed[Message(f)] = delivered[f]
    <2>1. Message(f) \in Published
      BY DEF Published
    <2>2. (CHOOSE g \in frames : Message(g) = Message(f)) = f
      BY <1>1
    <2> QED
      BY <2>1, <2>2 DEF Handed
  <1> QED
    BY <1>1, <1>2 DEF HandedTells

LEMMA HandedFactsNext == (IInv => HandedTells)'
  BY HandedFacts, PTL

\* The payloads stay within the messages of the promise.
LEMMA PayloadBound ==
  ASSUME IInv, Topic \in DOMAIN topics
  PROVE  /\ Cardinality(frames) <= MaxPayload /\ MaxPayload \in Nat
         /\ ~CounterExhausted => Cardinality(frames) \in 0..MaxPayload
  <1>1. PICK r \in Nat, R \in Nat, m \in Nat : Progress(r, R, m)
    BY DEF IInv, PublisherAssociated
  <1>2. /\ MaxRotations \in Nat /\ MaxAssociations \in Nat
        /\ rotations \in 0..MaxRotations /\ associations \in 0..MaxAssociations
    BY BoundAssumption DEF IInv, BoundsOK
  <1>3. /\ CounterMax \in Nat /\ m + 1 <= MaxRotations + MaxAssociations
        /\ MaxRotations + MaxAssociations \in Nat
    BY <1>1, <1>2, WindowAssumption DEF Progress
  <1>4. /\ CounterMax * (m + 1) <= MaxPayload /\ MaxPayload \in Nat
        /\ CounterMax * (m + 1) = (CounterMax * m) + CounterMax
        /\ CounterMax * m \in Nat
    <2> DEFINE b == MaxRotations + MaxAssociations
    <2>1. b \in Nat /\ m + 1 \in Nat /\ m + 1 <= b /\ m <= b
      BY <1>3
    <2> HIDE DEF b
    <2>2. CounterMax * b \in Nat /\ CounterMax * (m + 1) <= CounterMax * b
      BY <1>3, <2>1, Product
    <2>3. /\ CounterMax * (m + 1) = (CounterMax * m) + CounterMax
          /\ CounterMax * m \in Nat
      BY <1>3, <2>1, Product
    <2>4. MaxPayload = CounterMax * b
      BY DEF b, MaxPayload
    <2> QED
      BY <2>2, <2>3, <2>4
  <1>5. Cardinality(frames) <= (CounterMax * m) + CounterMax /\ Cardinality(frames) \in Nat
    BY <1>1, Counts DEF Progress
  <1> HIDE DEF MaxPayload
  <1> QED
    BY <1>3, <1>4, <1>5

\* What the promise leaves out: steps of keys, counters and requests.
LEMMA PromiseStutters ==
  ASSUME UNCHANGED <<topics, rotations, frames, subscriber, delivered>>
  PROVE  UNCHANGED Promise!vars
  BY DEF Promise!vars, Opened, Published, Joined, Handed, Message

\* The first association opens the first epoch, and another opens none.
LEMMA AssociatePromised ==
  ASSUME IInv, Associate
  PROVE  [Promise!Next]_Promise!vars
  <1>1. /\ Topic \in DOMAIN topics' /\ rotations' = rotations
        /\ UNCHANGED <<frames, subscriber, delivered>>
    BY AssociateRegistry DEF IInv, Associate, phase5
  <1>2. UNCHANGED <<Published, Joined, Handed>>
    BY <1>1 DEF Published, Joined, Handed, Message
  <1>3. CASE Topic \in DOMAIN topics
    <2>1. UNCHANGED Opened
      BY <1>1, <1>3 DEF Opened
    <2> QED
      BY <1>2, <2>1 DEF Promise!vars
  <1>4. CASE Topic \notin DOMAIN topics
    <2>1. rotations = 0 /\ EpochAt(0) \in Registry!Epochs
      BY <1>4, EpochFacts DEF IInv, NothingBefore
    <2>2. Opened' = Opened \cup {EpochAt(0)}
      BY <1>1, <1>4, <2>1 DEF Opened, EpochAt
    <2> QED
      BY <1>2, <2>1, <2>2 DEF Promise!Next, Promise!Open
  <1> QED
    BY <1>3, <1>4

\* A rotation opens the next epoch.
LEMMA RotatePromised ==
  ASSUME IInv, Rotate
  PROVE  [Promise!Next]_Promise!vars
  <1>1. /\ Topic \in DOMAIN topics /\ Topic \in DOMAIN topics'
        /\ rotations' = rotations + 1 /\ rotations \in Nat
        /\ UNCHANGED <<frames, subscriber, delivered>>
    BY RotateRegistry, Counts DEF IInv, Rotate, phase5
  <1>2. UNCHANGED <<Published, Joined, Handed>>
    BY <1>1 DEF Published, Joined, Handed, Message
  <1>3. EpochAt(rotations + 1) \in Registry!Epochs
    BY <1>1, EpochFacts
  <1>4. Opened' = Opened \cup {EpochAt(rotations + 1)}
    <2>1. 0..rotations' = (0..rotations) \cup {rotations + 1}
      BY <1>1
    <2>2. /\ Opened = {EpochAt(i) : i \in 0..rotations}
          /\ Opened' = {EpochAt(i) : i \in 0..rotations'}
      BY <1>1 DEF Opened, EpochAt
    <2> HIDE DEF EpochAt
    <2> QED
      BY <2>1, <2>2
  <1> QED
    BY <1>2, <1>3, <1>4 DEF Promise!Next, Promise!Open

\* A new frame publishes a message in an epoch that is open.
LEMMA CreatePromised ==
  ASSUME IInv, IInv', CreateDataFrame
  PROVE  [Promise!Next]_Promise!vars
  <1> DEFINE new == NewFrame
             msg == Message(new)
  <1>1. /\ ~CounterExhausted /\ frames' = frames \cup {new}
        /\ delivered' = [f \in frames' |-> IF f = new THEN 0 ELSE delivered[f]]
        /\ UNCHANGED <<topics, rotations, subscriber>>
    BY DEF CreateDataFrame, PublisherOnly, registry, phase5, bounds
  <1>2. Topic \in DOMAIN topics
    BY DEF IInv, NothingBefore, CreateDataFrame
  <1>3. /\ new \notin frames /\ new.payload = Cardinality(frames) /\ Genuine(new)
    BY <1>1, <1>2, NewFrameFacts
  <1>4. msg.epoch = new.epoch /\ msg.payload = new.payload
    BY DEF Message
  <1>5. msg \in [payload : 0..MaxPayload, epoch : Registry!Epochs]
    <2>1. new.epoch \in Registry!Epochs
      BY <1>3 DEF Genuine, OfAssociation
    <2>2. new.payload \in 0..MaxPayload
      BY <1>1, <1>2, <1>3, PayloadBound
    <2> QED
      BY <2>1, <2>2 DEF Message
  <1>6. msg.epoch \in Opened
    BY <1>2, <1>3, <1>4, OpenedFacts
  <1> HIDE DEF new
  <1>7. msg \notin Published
    <2>1. \A f \in frames : f.payload # Cardinality(frames)
      BY Counts DEF IInv, FramesNumbered
    <2> QED
      BY <1>3, <1>4, <2>1 DEF Published, Message
  <1>8. Published' = Published \cup {msg}
    BY <1>1 DEF Published, Message
  <1>9. Handed' = [n \in Published' |-> IF n = msg THEN 0 ELSE Handed[n]]
    <2>1. HandedTells /\ HandedTells'
      BY HandedFacts, HandedFactsNext
    <2>2. /\ Handed' = [n \in Published' |-> Handed'[n]]
      BY DEF Handed
    <2>3. Handed'[msg] = 0
      <3>1. new \in frames' /\ delivered'[new] = 0
        BY <1>1
      <3> QED
        BY <2>1, <3>1 DEF HandedTells, Message
    <2>4. ASSUME NEW n \in Published
          PROVE  Handed'[n] = Handed[n]
      <3>1. PICK f \in frames : n = Message(f)
        BY DEF Published
      <3>2. f \in frames' /\ delivered'[f] = delivered[f]
        BY <1>1, <1>3
      <3> QED
        BY <2>1, <3>1, <3>2 DEF HandedTells, Message
    <2> QED
      BY <1>7, <1>8, <2>2, <2>3, <2>4
  <1>10. UNCHANGED <<Opened, Joined>>
    BY <1>1 DEF Opened, Joined
  <1> HIDE DEF msg
  <1>11. Promise!Publish(msg)
    BY <1>6, <1>7, <1>8, <1>9, <1>10 DEF Promise!Publish
  <1> QED
    BY <1>5, <1>11 DEF Promise!Next

\* A response that is used joins its epoch, which the topic has been in.
LEMMA JoinPromised ==
  ASSUME IInv, NEW r \in responses, subscriber' = r,
         UNCHANGED <<topics, rotations, frames, delivered>>
  PROVE  [Promise!Next]_Promise!vars
  <1>1. r \in Contexts /\ Genuine(r) /\ Topic \in DOMAIN topics
    BY DEF IInv, ContextsGenuine, NothingBefore
  <1>2. r # None
    BY <1>1, NoneAssumption
  <1>3. r.epoch \in Opened /\ r.epoch \in Registry!Epochs
    BY <1>1, OpenedFacts DEF Genuine, OfAssociation
  <1>4. Joined' = r.epoch
    BY <1>2 DEF Joined
  <1>5. UNCHANGED <<Opened, Published, Handed>>
    BY DEF Opened, Published, Handed, Message
  <1> QED
    BY <1>3, <1>4, <1>5 DEF Promise!Next, Promise!Join

\* A frame that is accepted and decrypted hands up a message that was not
\* handed up before, of the epoch that was joined.
LEMMA MatchPromised ==
  ASSUME IInv, IInv', NEW f \in frames, ReceiveMatch(f)
  PROVE  [Promise!Next]_Promise!vars
  <1> DEFINE msg == Message(f)
  <1>1. /\ UNCHANGED <<topics, rotations, frames, subscriber>>
        /\ subscriber # None /\ f.epoch = subscriber.epoch
    BY DEF ReceiveMatch, ReceiverOnly, registry, bounds, Listening, Mismatch
  <1>2. CASE delivered' = delivered
    BY <1>1, <1>2, PromiseStutters
  <1>3. CASE delivered' # delivered
    <2>1. /\ delivered \in [frames -> {0, 1}]
          /\ delivered[f] = 1 => accepts[<<f.id, f.epoch>>][f.counter] = 1
      BY DEF IInv, DeliveredAccepted
    <2>2. /\ reply'.result = "accept"
          /\ delivered' = [delivered EXCEPT ![f] = delivered[f] + 1]
      BY <1>3 DEF ReceiveMatch
    <2>3. delivered[f] = 0
      <3>1. accepts[<<f.id, f.epoch>>][f.counter] = 0
        BY <2>2, MatchFacts
      <3> QED
        BY <2>1, <3>1
    <2>4. /\ delivered'[f] = 1
          /\ \A g \in frames : g # f => delivered'[g] = delivered[g]
      BY <2>1, <2>2, <2>3
    <2>5. HandedTells /\ HandedTells'
      BY HandedFacts, HandedFactsNext
    <2>6. /\ msg \in Published /\ Handed[msg] = 0
          /\ msg.epoch = Joined
      BY <1>1, <2>3, <2>5 DEF HandedTells, Joined, Message
    <2>7. UNCHANGED <<Opened, Published, Joined>>
      BY <1>1 DEF Opened, Published, Joined, Message
    <2>8. Handed' = [Handed EXCEPT ![msg] = 1]
      <3>1. /\ Handed' = [n \in Published |-> Handed'[n]]
            /\ Handed = [n \in Published |-> Handed[n]]
        BY <2>7 DEF Handed
      <3>2. Handed'[msg] = 1
        BY <1>1, <2>4, <2>5 DEF HandedTells, Message
      <3>3. ASSUME NEW n \in Published, n # msg
            PROVE  Handed'[n] = Handed[n]
        <4>1. PICK g \in frames : n = Message(g)
          BY DEF Published
        <4>2. delivered'[g] = delivered[g]
          BY <2>4, <3>3, <4>1
        <4> QED
          BY <1>1, <2>5, <4>1, <4>2 DEF HandedTells, Message
      <3> QED
        BY <2>6, <3>1, <3>2, <3>3
    <2>9. msg \in [payload : 0..MaxPayload, epoch : Registry!Epochs]
      <3>1. f.epoch \in Registry!Epochs
        BY DEF IInv, FramesGenuine, Genuine, OfAssociation
      <3>2. f.payload \in 0..MaxPayload
        <4>1. /\ f.payload \in 0..Cardinality(frames) - 1
              /\ Topic \in DOMAIN topics
          BY DEF IInv, FramesNumbered, NothingBefore
        <4> QED
          BY <4>1, Counts, PayloadBound
      <3> QED
        BY <3>1, <3>2 DEF Message
    <2> HIDE DEF msg
    <2>10. Promise!Hand(msg)
      BY <2>6, <2>7, <2>8 DEF Promise!Hand
    <2> QED
      BY <2>9, <2>10 DEF Promise!Next
  <1> QED
    BY <1>2, <1>3

\* A reboot starts the subscriber afresh.
LEMMA RebootPromised ==
  ASSUME IInv', Reboot
  PROVE  [Promise!Next]_Promise!vars
  <1>1. /\ UNCHANGED <<topics, rotations, frames>> /\ subscriber' = None
        /\ delivered' = [f \in frames |-> 0]
    BY DEF Reboot, registry
  <1>2. UNCHANGED <<Opened, Published>> /\ Joined' = None
    BY <1>1 DEF Opened, Published, Joined, Message
  <1>3. Handed' = [m \in Published |-> 0]
    <2>1. Handed' = [m \in Published |-> Handed'[m]]
      BY <1>2 DEF Handed
    <2>2. ASSUME NEW m \in Published
          PROVE  Handed'[m] = 0
      <3>1. PICK f \in frames : m = Message(f)
        BY DEF Published
      <3> QED
        BY <1>1, <3>1, HandedFactsNext DEF HandedTells, Message
    <2> QED
      BY <2>1, <2>2
  <1> QED
    BY <1>2, <1>3 DEF Promise!Next, Promise!StartAfresh

LEMMA StepPromised == IInv /\ IInv' /\ [Next]_vars => [Promise!Next]_Promise!vars
  <1> SUFFICES ASSUME IInv, IInv', [Next]_vars PROVE [Promise!Next]_Promise!vars
    OBVIOUS
  <1>1. CASE Associate \/ Rotate \/ CreateDataFrame \/ Reboot
    BY <1>1, AssociatePromised, RotatePromised, CreatePromised, RebootPromised
  <1>2. ASSUME NEW r \in responses, ApplyKeyResponse(r) \/ RepeatResponse(r)
        PROVE  [Promise!Next]_Promise!vars
    <2>1. subscriber' = r /\ UNCHANGED <<topics, rotations, frames, delivered>>
      BY <1>2 DEF ApplyKeyResponse, RepeatResponse, Use, RetrievalOnly, registry
    <2> QED
      BY <2>1, JoinPromised
  <1>3. ASSUME NEW f \in frames, ReceiveMatch(f)
        PROVE  [Promise!Next]_Promise!vars
    BY <1>3, MatchPromised
  <1>4. ASSUME \/ PublisherRekey \/ CounterOverflow
               \/ RequestKey \/ AnswerKeyRequest \/ LoseRequest \/ LoseResponse
               \/ \E f \in frames : ReceiveMismatch(f)
               \/ UNCHANGED vars
        PROVE  UNCHANGED Promise!vars
    <2>1. UNCHANGED <<topics, rotations, frames, subscriber, delivered>>
      BY <1>4 DEF PublisherRekey, CounterOverflow, PublisherOnly,
                  RequestKey, AnswerKeyRequest, LoseRequest, LoseResponse,
                  RetrievalOnly, ReceiveMismatch, ReceiverOnly,
                  registry, phase5, bounds, vars
    <2> QED
      BY <2>1, PromiseStutters
  <1> QED
    BY <1>1, <1>2, <1>3, <1>4 DEF Next

\* The keys of the epochs, the nonces, the guard and the pause together do
\* what SecureTopic promises.
THEOREM PromiseKept == Spec => ImplementsSecureTopic
  <1>1. Init => Promise!Init
    BY DEF Init, Registry!Init, Promise!Init, Opened, Published, Joined, Handed
  <1>2. IInv /\ IInv' /\ [Next]_vars => [Promise!Next]_Promise!vars
    BY StepPromised
  <1> QED
    BY <1>1, <1>2, InductiveInvariant, PTL DEF Spec, ImplementsSecureTopic, Promise!Spec
=============================================================================
