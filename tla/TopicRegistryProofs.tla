------------------------- MODULE TopicRegistryProofs -------------------------
(***************************************************************************)
(* Proofs about TopicRegistry for any topics, ranges, epoch counts and     *)
(* publisher id spaces.                                                    *)
(*                                                                         *)
(* What the properties rest on is who shares a keys dictionary with whom.  *)
(* References says that an entry's dictionary was created with its seeds   *)
(* (the reference is the number in the seeds), so that two entries never   *)
(* share one, and that no subscriber context holds an entry's dictionary.  *)
(***************************************************************************)
EXTENDS TopicRegistry, TLAPS

References ==
  /\ \A t \in DOMAIN topics :
       /\ topics[t].saltSeed = <<topics[t].keys, 0>>
       /\ \A l \in DOMAIN topics[t].seeds :
            topics[t].seeds[l] = <<topics[t].keys, l>>
  /\ \A t, u \in DOMAIN topics :
       t # u => topics[t].keys # topics[u].keys
  /\ \A c \in configs, t \in DOMAIN topics :
       c.publisherId = NoPublisher => c.keys # topics[t].keys

IdsTaken == \A c \in configs : c.publisherId < nextPublisherId

IInv == /\ TypeOK
        /\ EntriesCurrent
        /\ SubscriberContextsConsistent
        /\ PublisherIdsUnique
        /\ References
        /\ IdsTaken

------------------------------------------------------------------------------
\* Binding one key of a dictionary.
LEMMA PutFacts ==
  ASSUME NEW d, NEW k, NEW v
  PROVE  /\ DOMAIN Put(d, k, v) = DOMAIN d \cup {k}
         /\ Put(d, k, v)[k] = v
         /\ \A j \in DOMAIN d : j # k => Put(d, k, v)[j] = d[j]
  BY DEF Put

\* The next epoch is an epoch and is another one.
LEMMA NextEpoch ==
  ASSUME NEW e \in Epochs
  PROVE  /\ (e + 1) % EpochCount \in Epochs
         /\ (e + 1) % EpochCount # e
  <1>1. e \in Nat /\ EpochCount \in Nat /\ EpochCount >= 2 /\ e + 1 <= EpochCount
    BY EpochAssumption DEF Epochs
  <1>2. CASE e + 1 = EpochCount
    <2>1. (e + 1) % EpochCount = 0
      BY <1>1, <1>2
    <2> QED
      BY <1>1, <1>2, <2>1 DEF Epochs
  <1>3. CASE e + 1 < EpochCount
    <2>1. (e + 1) % EpochCount = e + 1
      BY <1>1, <1>3
    <2> QED
      BY <1>1, <1>3, <2>1 DEF Epochs
  <1> QED
    BY <1>1, <1>2, <1>3

\* Keys derived from seeds form a key table.
LEMMA DerivedTable ==
  ASSUME NEW seeds, IsTable(seeds, Seeds), NEW e \in Epochs
  PROVE  /\ DOMAIN DeriveAll(seeds, e) = DOMAIN seeds
         /\ \A l \in DOMAIN seeds : DeriveAll(seeds, e)[l] = Derive(seeds[l], e)
         /\ IsTable(DeriveAll(seeds, e), Keys)
  BY DEF DeriveAll, IsTable, Derive, Keys

\* Fresh seeds carry the number of the dictionary they are created with.
LEMMA FreshSeedsFacts ==
  ASSUME TypeOK, NEW min \in Nat, NEW max \in Nat
  PROVE  /\ IsTable(FreshSeeds(min, max), Seeds)
         /\ DOMAIN FreshSeeds(min, max) = Secured(min, max)
         /\ \A l \in Secured(min, max) : FreshSeeds(min, max)[l] = <<objects, l>>
         /\ FreshSaltSeed \in Seeds
  BY DEF TypeOK, FreshSeeds, FreshSaltSeed, IsTable, Secured, Seeds, Levels

------------------------------------------------------------------------------
LEMMA InitInv == Init => IInv
  BY DEF Init, IInv, TypeOK, EntriesCurrent, SubscriberContextsConsistent,
         PublisherIdsUnique, References, IdsTaken, NoPublisher

\* A call that raises only uses up a publisher id.
LEMMA RaiseInv ==
  ASSUME IInv, CreateRaises
  PROVE  IInv'
  <1>1. /\ nextPublisherId \in Nat \ {0}
        /\ nextPublisherId' = nextPublisherId + 1
        /\ UNCHANGED <<topics, heap, configs, objects>>
    BY DEF IInv, TypeOK, CreateRaises, TakePublisherId, NoPublisher
  <1>2. TypeOK'
    BY <1>1 DEF IInv, TypeOK, EntryOK, ConfigOK, NoPublisher
  <1>3. EntriesCurrent' /\ References'
    BY <1>1 DEF IInv, EntriesCurrent, References, KeysOf
  <1>4. SubscriberContextsConsistent' /\ PublisherIdsUnique'
    BY <1>1 DEF IInv, SubscriberContextsConsistent, Consistent, PublisherIdsUnique
  <1>5. IdsTaken'
    <2>1. \A c \in configs : c.publisherId \in Nat
      BY DEF IInv, TypeOK, ConfigOK
    <2> QED
      BY <1>1, <2>1 DEF IInv, IdsTaken
  <1> QED
    BY <1>2, <1>3, <1>4, <1>5 DEF IInv

\* The heap after a dictionary was created: a new reference, the others as
\* they were.
LEMMA AllocateFacts ==
  ASSUME TypeOK, NEW table, heap' = Put(heap, objects, table),
         objects' = objects + 1
  PROVE  /\ objects \in Nat /\ objects' \in Nat
         /\ DOMAIN heap = 0..objects - 1
         /\ DOMAIN heap' = 0..objects' - 1
         /\ heap'[objects] = table
         /\ \A r \in 0..objects - 1 : r \in 0..objects' - 1 /\ r # objects
                                      /\ heap'[r] = heap[r]
  <1>1. objects \in Nat /\ DOMAIN heap = 0..objects - 1
    BY DEF TypeOK
  <1>2. /\ DOMAIN heap' = DOMAIN heap \cup {objects}
        /\ heap'[objects] = table
        /\ \A r \in DOMAIN heap : r # objects => heap'[r] = heap[r]
    BY DEF Put
  <1> QED
    BY <1>1, <1>2

\* Creating or replacing an association: the new entry and its config share a
\* dictionary that is new to everyone else.
LEMMA CreateInv ==
  ASSUME IInv, NEW t \in Topics, NEW min \in Nat, NEW max \in Nat,
         NEW level \in min..max, NEW epoch \in InitialEpochs,
         CreateTopicAssociation(t, min, max, level, epoch)
  PROVE  IInv'
  <1> DEFINE entry == NewEntry(min, max, level, epoch)
             cfg == PublisherConfig(t, min, max, level, epoch)
             seeds == FreshSeeds(min, max)
  <1>1. /\ TypeOK /\ EntriesCurrent /\ SubscriberContextsConsistent
        /\ PublisherIdsUnique /\ References /\ IdsTaken
    BY DEF IInv
  <1>2. /\ nextPublisherId \in Nat \ {0}
        /\ nextPublisherId' = nextPublisherId + 1
        /\ nextPublisherId + 1 <= PublisherIdMax
    BY <1>1, PublisherIdAssumption
       DEF CreateTopicAssociation, TakePublisherId, IdSpaceExhausted, TypeOK,
           NoPublisher
  <1>3. /\ objects \in Nat /\ objects' = objects + 1 /\ objects' \in Nat
        /\ DOMAIN heap = 0..objects - 1
        /\ DOMAIN heap' = 0..objects' - 1
        /\ heap'[objects] = DeriveAll(seeds, epoch)
        /\ \A r \in 0..objects - 1 : r \in 0..objects' - 1 /\ r # objects
                                     /\ heap'[r] = heap[r]
    BY <1>1, AllocateFacts DEF CreateTopicAssociation
  <1>4. /\ DOMAIN topics' = DOMAIN topics \cup {t}
        /\ topics'[t] = entry
        /\ \A u \in DOMAIN topics : u # t => topics'[u] = topics[u]
    BY DEF CreateTopicAssociation, Put
  <1>5. configs' = configs \cup {cfg}
    BY DEF CreateTopicAssociation
  <1>6. /\ IsTable(seeds, Seeds)
        /\ DOMAIN seeds = Secured(min, max)
        /\ \A l \in Secured(min, max) : seeds[l] = <<objects, l>>
        /\ FreshSaltSeed \in Seeds
    BY <1>1, FreshSeedsFacts
  <1>7. epoch \in Epochs /\ level \in Nat
    BY EpochAssumption DEF Epochs
  <1>8. /\ DOMAIN DeriveAll(seeds, epoch) = DOMAIN seeds
        /\ IsTable(DeriveAll(seeds, epoch), Keys)
    BY <1>6, <1>7, DerivedTable
  <1>9. Derive(FreshSaltSeed, epoch) \in Keys
    BY <1>6, <1>7 DEF Derive, Keys
  <1>10. objects \in 0..objects' - 1
    BY <1>3
  <1>11. entry.keys = objects /\ cfg.keys = objects
    BY DEF NewEntry, PublisherConfig
  <1>12. \A u \in DOMAIN topics : topics[u].keys \in 0..objects - 1
    BY <1>1 DEF TypeOK
  <1>13. \A c \in configs : c.keys \in 0..objects - 1 /\ c.publisherId \in Nat
    BY <1>1 DEF TypeOK, ConfigOK
  <1>14. TypeOK'
    <2>1. EntryOK(entry)
      BY <1>2, <1>6, <1>7, <1>9 DEF EntryOK, NewEntry, Levels, NoPublisher
    <2>2. ConfigOK(cfg)
      BY <1>2, <1>6, <1>7, <1>9 DEF ConfigOK, PublisherConfig, Levels
    <2>3. \A u \in DOMAIN topics' : /\ EntryOK(topics'[u])
                                   /\ topics'[u].keys \in 0..objects' - 1
      BY <1>1, <1>3, <1>4, <1>10, <1>11, <1>12, <2>1 DEF TypeOK
    <2>4. \A c \in configs' : ConfigOK(c) /\ c.keys \in 0..objects' - 1
      BY <1>1, <1>3, <1>5, <1>10, <1>11, <1>13, <2>2 DEF TypeOK
    <2>5. \A r \in DOMAIN heap' : IsTable(heap'[r], Keys)
      <3>1. \A r \in 0..objects' - 1 : r = objects \/ r \in 0..objects - 1
        BY <1>3
      <3> QED
        BY <1>1, <1>3, <1>8, <3>1 DEF TypeOK
    <2>6. DOMAIN topics' \subseteq Topics
      BY <1>1, <1>4 DEF TypeOK
    <2> QED
      BY <1>2, <1>3, <2>3, <2>4, <2>5, <2>6 DEF TypeOK, NoPublisher
  <1>15. EntriesCurrent'
    <2>1. \A u \in DOMAIN topics : u # t => KeysOf(u)' = KeysOf(u)
      BY <1>3, <1>4, <1>12 DEF KeysOf
    <2>2. KeysOf(t)' = DeriveAll(seeds, epoch)
      BY <1>3, <1>4, <1>11 DEF KeysOf
    <2>3. /\ entry.seeds = seeds /\ entry.epoch = epoch
          /\ entry.salt = Derive(entry.saltSeed, entry.epoch)
          /\ entry.levelMin = min /\ entry.levelMax = max
      BY DEF NewEntry
    <2> QED
      BY <1>1, <1>4, <1>6, <2>1, <2>2, <2>3 DEF EntriesCurrent
  <1>16. SubscriberContextsConsistent'
    <2>1. cfg.publisherId # NoPublisher
      BY <1>2 DEF PublisherConfig, NoPublisher
    <2> QED
      BY <1>1, <1>3, <1>5, <1>13, <2>1 DEF SubscriberContextsConsistent, Consistent
  <1>17. PublisherIdsUnique'
    <2>1. cfg.publisherId = nextPublisherId
      BY DEF PublisherConfig
    <2>2. \A c \in configs : c.publisherId # nextPublisherId
      BY <1>1, <1>2, <1>13 DEF IdsTaken
    <2> QED
      BY <1>1, <1>2, <1>5, <2>1, <2>2, PublisherIdAssumption
         DEF PublisherIdsUnique, NoPublisher
  <1>18. References'
    <2>1. /\ entry.saltSeed = <<objects, 0>> /\ entry.seeds = seeds
          /\ cfg.publisherId # NoPublisher
      BY <1>2 DEF NewEntry, PublisherConfig, FreshSaltSeed, NoPublisher
    <2>2. ASSUME NEW u \in DOMAIN topics'
          PROVE  /\ topics'[u].saltSeed = <<topics'[u].keys, 0>>
                 /\ \A l \in DOMAIN topics'[u].seeds :
                      topics'[u].seeds[l] = <<topics'[u].keys, l>>
      BY <1>1, <1>4, <1>6, <1>11, <2>1 DEF References
    <2>3. ASSUME NEW u \in DOMAIN topics', NEW v \in DOMAIN topics', u # v
          PROVE  topics'[u].keys # topics'[v].keys
      BY <1>1, <1>3, <1>4, <1>11, <1>12, <2>3 DEF References
    <2>4. ASSUME NEW c \in configs', NEW u \in DOMAIN topics',
                 c.publisherId = NoPublisher
          PROVE  c.keys # topics'[u].keys
      BY <1>1, <1>3, <1>4, <1>5, <1>11, <1>13, <2>1, <2>4 DEF References
    <2> QED
      BY <2>2, <2>3, <2>4 DEF References
  <1>19. IdsTaken'
    BY <1>1, <1>2, <1>5, <1>13 DEF IdsTaken, PublisherConfig
  <1> QED
    BY <1>14, <1>15, <1>16, <1>17, <1>18, <1>19 DEF IInv

\* What rotate_epoch changes, spelt out: one entry's epoch and salt, and one
\* dictionary.
LEMMA RotateFacts ==
  ASSUME IInv, NEW t \in Topics, RotateEpoch(t)
  PROVE  /\ t \in DOMAIN topics /\ DOMAIN topics' = DOMAIN topics
         /\ topics[t].epoch \in Epochs
         /\ topics'[t].epoch = (topics[t].epoch + 1) % EpochCount
         /\ topics'[t].epoch \in Epochs
         /\ topics'[t].salt = Derive(topics[t].saltSeed, topics'[t].epoch)
         /\ \E epoch, salt :
              topics'[t] = [topics[t] EXCEPT !.epoch = epoch, !.salt = salt]
         /\ \A u \in DOMAIN topics : u # t => topics'[u] = topics[u]
         /\ DOMAIN heap' = DOMAIN heap
         /\ heap'[topics[t].keys] = DeriveAll(topics[t].seeds, topics'[t].epoch)
         /\ \A r \in DOMAIN heap : r # topics[t].keys => heap'[r] = heap[r]
         /\ UNCHANGED <<nextPublisherId, configs, objects>>
  <1> DEFINE epoch == (topics[t].epoch + 1) % EpochCount
             salt == Derive(topics[t].saltSeed, epoch)
             entry == [topics[t] EXCEPT !.epoch = epoch, !.salt = salt]
  <1>1. /\ t \in DOMAIN topics /\ topics[t].epoch \in Epochs
        /\ topics[t].keys \in DOMAIN heap
    BY DEF IInv, TypeOK, EntryOK, RotateEpoch
  <1>2. epoch \in Epochs
    BY <1>1, NextEpoch
  <1>3. /\ heap' = Put(heap, topics[t].keys, DeriveAll(topics[t].seeds, epoch))
        /\ topics' = Put(topics, t, entry)
        /\ UNCHANGED <<nextPublisherId, configs, objects>>
    BY DEF RotateEpoch
  <1> HIDE DEF epoch
  <1>4. /\ DOMAIN topics' = DOMAIN topics
        /\ topics'[t] = entry
        /\ \A u \in DOMAIN topics : u # t => topics'[u] = topics[u]
    BY <1>1, <1>3 DEF Put
  <1>5. /\ DOMAIN heap' = DOMAIN heap
        /\ heap'[topics[t].keys] = DeriveAll(topics[t].seeds, epoch)
        /\ \A r \in DOMAIN heap : r # topics[t].keys => heap'[r] = heap[r]
    BY <1>1, <1>3 DEF Put
  <1>6. topics'[t].epoch = epoch /\ topics'[t].salt = salt
    BY <1>4
  <1> QED
    BY <1>1, <1>2, <1>3, <1>4, <1>5, <1>6 DEF epoch

\* Rotating keeps every entry current and no snapshot stale: the dictionary it
\* writes belongs to the rotated entry alone.
LEMMA RotateInv ==
  ASSUME IInv, NEW t \in Topics, RotateEpoch(t)
  PROVE  IInv'
  <1>1. /\ TypeOK /\ EntriesCurrent /\ SubscriberContextsConsistent
        /\ PublisherIdsUnique /\ References /\ IdsTaken
    BY DEF IInv
  <1>2. /\ t \in DOMAIN topics /\ DOMAIN topics' = DOMAIN topics
        /\ topics'[t].epoch \in Epochs
        /\ topics'[t].salt = Derive(topics[t].saltSeed, topics'[t].epoch)
        /\ \A u \in DOMAIN topics : u # t => topics'[u] = topics[u]
        /\ DOMAIN heap' = DOMAIN heap
        /\ heap'[topics[t].keys] = DeriveAll(topics[t].seeds, topics'[t].epoch)
        /\ \A r \in DOMAIN heap : r # topics[t].keys => heap'[r] = heap[r]
        /\ UNCHANGED <<nextPublisherId, configs, objects>>
    BY RotateFacts
  <1>3. /\ topics'[t].levelMin = topics[t].levelMin
        /\ topics'[t].levelMax = topics[t].levelMax
        /\ topics'[t].currentLevel = topics[t].currentLevel
        /\ topics'[t].seeds = topics[t].seeds
        /\ topics'[t].saltSeed = topics[t].saltSeed
        /\ topics'[t].keys = topics[t].keys
        /\ topics'[t].publisherIds = topics[t].publisherIds
    <2>1. PICK epoch, salt :
            topics'[t] = [topics[t] EXCEPT !.epoch = epoch, !.salt = salt]
      BY RotateFacts
    <2> QED
      BY <2>1
  <1>4. /\ EntryOK(topics[t])
        /\ \A u \in DOMAIN topics : topics[u].keys \in DOMAIN heap
        /\ \A c \in configs : c.keys \in DOMAIN heap
    BY <1>1, <1>2 DEF TypeOK
  <1>5. TypeOK'
    <2>1. topics'[t].salt \in Keys
      BY <1>2, <1>4 DEF EntryOK, Derive, Keys
    <2>2. EntryOK(topics'[t])
      BY <1>2, <1>3, <1>4, <2>1 DEF EntryOK
    <2>3. IsTable(heap'[topics[t].keys], Keys)
      BY <1>2, <1>4, DerivedTable DEF EntryOK
    <2>4. \A u \in DOMAIN topics' : /\ EntryOK(topics'[u])
                                   /\ topics'[u].keys \in 0..objects' - 1
      BY <1>1, <1>2, <1>3, <2>2 DEF TypeOK
    <2>5. \A r \in DOMAIN heap' : IsTable(heap'[r], Keys)
      BY <1>1, <1>2, <2>3 DEF TypeOK
    <2>6. \A c \in configs' : ConfigOK(c) /\ c.keys \in 0..objects' - 1
      BY <1>1, <1>2 DEF TypeOK
    <2> QED
      BY <1>1, <1>2, <2>4, <2>5, <2>6 DEF TypeOK
  <1>6. EntriesCurrent'
    <2>1. \A u \in DOMAIN topics : u # t => KeysOf(u)' = KeysOf(u)
      BY <1>1, <1>2, <1>4 DEF KeysOf, References
    <2>2. KeysOf(t)' = DeriveAll(topics[t].seeds, topics'[t].epoch)
      BY <1>2, <1>3 DEF KeysOf
    <2> QED
      BY <1>1, <1>2, <1>3, <2>1, <2>2 DEF EntriesCurrent
  <1>7. SubscriberContextsConsistent'
    <2>1. ASSUME NEW c \in configs, c.publisherId = NoPublisher
          PROVE  heap'[c.keys] = heap[c.keys]
      BY <1>1, <1>2, <1>4, <2>1 DEF References
    <2> QED
      BY <1>1, <1>2, <2>1 DEF SubscriberContextsConsistent, Consistent
  <1>8. PublisherIdsUnique' /\ IdsTaken'
    BY <1>1, <1>2 DEF PublisherIdsUnique, IdsTaken
  <1>9. References'
    <2>1. \A u \in DOMAIN topics : /\ topics'[u].keys = topics[u].keys
                                  /\ topics'[u].seeds = topics[u].seeds
                                  /\ topics'[u].saltSeed = topics[u].saltSeed
      BY <1>2, <1>3
    <2> QED
      BY <1>1, <1>2, <2>1 DEF References
  <1> QED
    BY <1>5, <1>6, <1>7, <1>8, <1>9 DEF IInv

\* A subscriber context holds a new dictionary with the entry's current keys.
LEMMA ContextInv ==
  ASSUME IInv, NEW t \in Topics, GetSubscriberContext(t)
  PROVE  IInv'
  <1> DEFINE cfg == SubscriberConfig(t, objects)
  <1>1. /\ TypeOK /\ EntriesCurrent /\ SubscriberContextsConsistent
        /\ PublisherIdsUnique /\ References /\ IdsTaken
    BY DEF IInv
  <1>2. /\ t \in DOMAIN topics
        /\ configs' = configs \cup {cfg}
        /\ UNCHANGED <<topics, nextPublisherId>>
    BY DEF GetSubscriberContext
  <1>3. /\ objects \in Nat /\ objects' = objects + 1 /\ objects' \in Nat
        /\ DOMAIN heap = 0..objects - 1
        /\ DOMAIN heap' = 0..objects' - 1
        /\ heap'[objects] = heap[topics[t].keys]
        /\ \A r \in 0..objects - 1 : r \in 0..objects' - 1 /\ r # objects
                                     /\ heap'[r] = heap[r]
    BY <1>1, AllocateFacts DEF GetSubscriberContext
  <1>4. /\ \A u \in DOMAIN topics : topics[u].keys \in 0..objects - 1
        /\ \A c \in configs : c.keys \in 0..objects - 1 /\ ConfigOK(c)
        /\ EntryOK(topics[t])
    BY <1>1, <1>2 DEF TypeOK
  <1>5. /\ cfg.keys = objects /\ cfg.publisherId = NoPublisher
        /\ cfg.epoch = topics[t].epoch /\ cfg.salt = topics[t].salt
    BY DEF SubscriberConfig
  <1>6. TypeOK'
    <2>1. IsTable(<<>>, Seeds)
      BY DEF IsTable
    <2>2. ConfigOK(cfg)
      BY <1>4, <2>1 DEF ConfigOK, SubscriberConfig, EntryOK, NoPublisher
    <2>3. \A c \in configs' : ConfigOK(c) /\ c.keys \in 0..objects' - 1
      BY <1>2, <1>3, <1>4, <1>5, <2>2
    <2>4. \A r \in DOMAIN heap' : IsTable(heap'[r], Keys)
      <3>1. \A r \in 0..objects' - 1 : r = objects \/ r \in 0..objects - 1
        BY <1>3
      <3> QED
        BY <1>1, <1>2, <1>3, <1>4, <3>1 DEF TypeOK
    <2>5. \A u \in DOMAIN topics' : /\ EntryOK(topics'[u])
                                   /\ topics'[u].keys \in 0..objects' - 1
      BY <1>1, <1>2, <1>3, <1>4 DEF TypeOK
    <2> QED
      BY <1>1, <1>2, <1>3, <2>3, <2>4, <2>5 DEF TypeOK
  <1>7. EntriesCurrent'
    <2>1. \A u \in DOMAIN topics : KeysOf(u)' = KeysOf(u)
      BY <1>2, <1>3, <1>4 DEF KeysOf
    <2> QED
      BY <1>1, <1>2, <2>1 DEF EntriesCurrent
  <1>8. SubscriberContextsConsistent'
    <2>1. /\ cfg.salt.epoch = cfg.epoch
          /\ \A l \in DOMAIN heap'[cfg.keys] :
               heap'[cfg.keys][l] = Derive(<<cfg.salt.seed[1], l>>, cfg.epoch)
      <3>1. heap'[objects] = DeriveAll(topics[t].seeds, topics[t].epoch)
        BY <1>1, <1>2, <1>3 DEF EntriesCurrent, KeysOf
      <3>2. topics[t].salt = Derive(<<topics[t].keys, 0>>, topics[t].epoch)
        BY <1>1, <1>2 DEF EntriesCurrent, References
      <3>3. \A l \in DOMAIN topics[t].seeds :
              heap'[objects][l] = Derive(<<topics[t].keys, l>>, topics[t].epoch)
        BY <1>1, <1>2, <3>1 DEF References, DeriveAll
      <3>4. DOMAIN heap'[objects] = DOMAIN topics[t].seeds
        BY <3>1 DEF DeriveAll
      <3>5. /\ topics[t].salt.epoch = topics[t].epoch
            /\ topics[t].salt.seed[1] = topics[t].keys
        BY <3>2 DEF Derive
      <3> HIDE DEF cfg
      <3> QED
        BY <1>5, <3>3, <3>4, <3>5
    <2> QED
      BY <1>1, <1>2, <1>3, <1>4, <2>1 DEF SubscriberContextsConsistent, Consistent
  <1>9. PublisherIdsUnique' /\ IdsTaken'
    BY <1>1, <1>2, <1>5
       DEF PublisherIdsUnique, IdsTaken, TypeOK, NoPublisher
  <1>10. References'
    BY <1>1, <1>2, <1>3, <1>4, <1>5 DEF References
  <1> QED
    BY <1>6, <1>7, <1>8, <1>9, <1>10 DEF IInv

LEMMA StepInv == IInv /\ [Next]_vars => IInv'
  <1> SUFFICES ASSUME IInv, [Next]_vars PROVE IInv'
    OBVIOUS
  <1>1. CASE CreateRaises
    BY <1>1, RaiseInv
  <1>2. ASSUME NEW t \in Topics, Create(t)
        PROVE  IInv'
    <2>1. PICK range \in LevelRanges, epoch \in InitialEpochs :
            \E level \in range[1]..range[2] :
               CreateTopicAssociation(t, range[1], range[2], level, epoch)
      BY <1>2 DEF Create
    <2>2. range[1] \in Nat /\ range[2] \in Nat
      BY RangeAssumption
    <2> QED
      BY <2>1, <2>2, CreateInv
  <1>3. ASSUME NEW t \in Topics, RotateEpoch(t)
        PROVE  IInv'
    BY <1>3, RotateInv
  <1>4. ASSUME NEW t \in Topics, GetSubscriberContext(t)
        PROVE  IInv'
    BY <1>4, ContextInv
  <1>5. CASE UNCHANGED vars
    BY <1>5 DEF vars, IInv, TypeOK, EntriesCurrent, KeysOf, Consistent,
                SubscriberContextsConsistent, PublisherIdsUnique, References,
                IdsTaken
  <1> QED
    BY <1>1, <1>2, <1>3, <1>4, <1>5 DEF Next

\* Dictionaries are shared only as References says, in every reachable state.
THEOREM InductiveInvariant == Spec => []IInv
  BY InitInv, StepInv, PTL DEF Spec

\* The registry's variables keep their types and every reference is valid.
THEOREM TypeCorrect == Spec => []TypeOK
  <1>1. IInv => TypeOK
    BY DEF IInv
  <1> QED
    BY <1>1, InductiveInvariant, PTL

\* Every entry's keys and salt are those of its own seeds and current epoch.
THEOREM EntriesStayCurrent == Spec => []EntriesCurrent
  <1>1. IInv => EntriesCurrent
    BY DEF IInv
  <1> QED
    BY <1>1, InductiveInvariant, PTL

\* A context handed to a subscriber stays one of a single epoch for ever.
THEOREM SubscriberSnapshots == Spec => []SubscriberContextsConsistent
  <1>1. IInv => SubscriberContextsConsistent
    BY DEF IInv
  <1> QED
    BY <1>1, InductiveInvariant, PTL

\* Publisher ids are unique, not 0, and fit the header.
THEOREM IdsUnique == Spec => []PublisherIdsUnique
  <1>1. IInv => PublisherIdsUnique
    BY DEF IInv
  <1> QED
    BY <1>1, InductiveInvariant, PTL

\* The step property of an entry, named for the proof below.
RekeyedAlone(t) ==
  (topics'[t].saltSeed = topics[t].saltSeed /\ topics'[t] # topics[t]) =>
    /\ topics'[t].seeds = topics[t].seeds
    /\ topics'[t].epoch = (topics[t].epoch + 1) % EpochCount
    /\ topics'[t].salt # topics[t].salt
    /\ \A l \in DOMAIN topics[t].seeds : KeysOf(t)'[l] # KeysOf(t)[l]
    /\ \A u \in DOMAIN topics \ {t} :
         topics'[u] = topics[u] /\ KeysOf(u)' = KeysOf(u)

\* An association changes only by rotation, which keeps its seeds, renews all
\* its keys and its salt, and touches no other topic.
THEOREM RotationIsLocal == Spec => RotationRekeysOnlyItsTopic
  <1>1. ASSUME IInv, [Next]_vars, NEW t \in DOMAIN topics
        PROVE  RekeyedAlone(t)
    <2>0. /\ TypeOK /\ EntriesCurrent /\ References
          /\ t \in Topics /\ topics[t].keys \in 0..objects - 1
          /\ objects \in Nat
          /\ topics[t].saltSeed = <<topics[t].keys, 0>>
      BY <1>1 DEF IInv, TypeOK, References
    <2>1. ASSUME NEW u \in Topics, Create(u)
          PROVE  RekeyedAlone(t)
      <3>1. PICK entry : topics' = Put(topics, u, entry)
                         /\ entry.saltSeed = <<objects, 0>>
        BY <2>1 DEF Create, CreateTopicAssociation, NewEntry, FreshSaltSeed
      <3>2. topics'[t] = IF t = u THEN entry ELSE topics[t]
        BY <3>1 DEF Put
      <3>3. objects # topics[t].keys
        BY <2>0
      <3> QED
        BY <2>0, <3>1, <3>2, <3>3 DEF RekeyedAlone
    <2>2. ASSUME NEW u \in Topics, RotateEpoch(u)
          PROVE  RekeyedAlone(t)
      <3>1. /\ u \in DOMAIN topics
            /\ topics[u].epoch \in Epochs
            /\ topics'[u].epoch = (topics[u].epoch + 1) % EpochCount
            /\ topics'[u].salt = Derive(topics[u].saltSeed, topics'[u].epoch)
            /\ \A v \in DOMAIN topics : v # u => topics'[v] = topics[v]
            /\ heap'[topics[u].keys] = DeriveAll(topics[u].seeds, topics'[u].epoch)
            /\ \A r \in DOMAIN heap : r # topics[u].keys => heap'[r] = heap[r]
        BY <1>1, <2>2, RotateFacts
      <3>2. topics'[u].seeds = topics[u].seeds /\ topics'[u].keys = topics[u].keys
        <4>1. PICK epoch, salt :
                topics'[u] = [topics[u] EXCEPT !.epoch = epoch, !.salt = salt]
          BY <1>1, <2>2, RotateFacts
        <4> QED
          BY <4>1
      <3>3. CASE t # u
        BY <3>1, <3>3 DEF RekeyedAlone
      <3>4. CASE t = u
        <4>1. topics'[u].epoch # topics[u].epoch
          BY <3>1, NextEpoch
        <4>2. topics'[u].salt # topics[u].salt
          <5>1. topics[u].salt = Derive(topics[u].saltSeed, topics[u].epoch)
            BY <2>0, <3>1 DEF EntriesCurrent
          <5> QED
            BY <3>1, <4>1, <5>1 DEF Derive
        <4>3. ASSUME NEW l \in DOMAIN topics[u].seeds
              PROVE  KeysOf(u)'[l] # KeysOf(u)[l]
          <5>1. KeysOf(u)'[l] = Derive(topics[u].seeds[l], topics'[u].epoch)
            BY <3>1, <3>2, <4>3 DEF KeysOf, DeriveAll
          <5>2. KeysOf(u)[l] = Derive(topics[u].seeds[l], topics[u].epoch)
            BY <2>0, <3>1, <4>3 DEF EntriesCurrent, DeriveAll
          <5> QED
            BY <4>1, <5>1, <5>2 DEF Derive
        <4>4. ASSUME NEW v \in DOMAIN topics \ {u}
              PROVE  topics'[v] = topics[v] /\ KeysOf(v)' = KeysOf(v)
          <5>1. topics[v].keys # topics[u].keys /\ topics[v].keys \in DOMAIN heap
            BY <2>0, <3>1 DEF References, TypeOK
          <5> QED
            BY <3>1, <5>1 DEF KeysOf
        <4> QED
          BY <3>1, <3>2, <3>4, <4>2, <4>3, <4>4 DEF RekeyedAlone
      <3> QED
        BY <3>3, <3>4
    <2>3. CASE UNCHANGED topics
      BY <2>3 DEF RekeyedAlone
    <2> QED
      BY <1>1, <2>1, <2>2, <2>3
         DEF Next, CreateRaises, GetSubscriberContext, vars
  <1>2. IInv /\ [Next]_vars => [\A t \in DOMAIN topics : RekeyedAlone(t)]_vars
    BY <1>1
  <1>3. Spec => [][\A t \in DOMAIN topics : RekeyedAlone(t)]_vars
    BY <1>2, InductiveInvariant, PTL DEF Spec
  <1> QED
    BY <1>3 DEF RotationRekeysOnlyItsTopic, RekeyedAlone
=============================================================================
