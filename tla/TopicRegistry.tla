---------------------------- MODULE TopicRegistry ----------------------------
(***************************************************************************)
(* class TopicRegistry of src/protocol/phase3_agreement.py: the TTA's      *)
(* table of topic associations, and the SubTopicConfig objects it hands    *)
(* out.                                                                    *)
(*                                                                         *)
(* Python dictionaries are objects: an entry and a config hold a reference *)
(* to their subtopic_keys, and heap maps every reference to the dictionary *)
(* it names, so that two holders of one reference see each other's writes. *)
(*                                                                         *)
(* A seed is a fresh value, <<n, level>> (<<n, 0>> is the salt seed) for   *)
(* the n-th object created; the key derivation is injective: a key or a    *)
(* salt is the pair of what it is derived from.                            *)
(***************************************************************************)
EXTENDS Integers

CONSTANTS Topics,
          LevelRanges,     \* the <<level_min, level_max>> callers ask for
          InitialEpochs,   \* the epoch_id arguments (1 by default)
          EpochCount,      \* 256 in the code
          PublisherIdMax   \* 0xFFFF in the code

ASSUME RangeAssumption == LevelRanges \subseteq Nat \X Nat
ASSUME EpochAssumption == /\ EpochCount \in Nat /\ EpochCount >= 2
                          /\ InitialEpochs \subseteq 0..EpochCount - 1
ASSUME PublisherIdAssumption == PublisherIdMax \in Nat

VARIABLES topics,           \* _topics: topic -> TopicEntry, a partial map
          nextPublisherId,  \* _next_publisher_id
          heap,             \* the subtopic_keys dictionaries, by reference
          configs,          \* the SubTopicConfig objects handed out
          objects           \* how many dictionaries were created so far

vars == <<topics, nextPublisherId, heap, configs, objects>>

Epochs == 0..EpochCount - 1
Levels == Nat
Seeds == Nat \X Levels
Keys == [seed : Seeds, epoch : Epochs]

\* derive_subtopic_key and derive_salt.
Derive(seed, epoch) == [seed |-> seed, epoch |-> epoch]

\* Levels that get a seed: all of the range except level 0.
Secured(min, max) == (min..max) \ {0}

DeriveAll(seeds, epoch) == [l \in DOMAIN seeds |-> Derive(seeds[l], epoch)]

\* The dictionary d with key k bound to v.
Put(d, k, v) == [j \in DOMAIN d \cup {k} |-> IF j = k THEN v ELSE d[j]]

\* publisher_id of a config made for a subscriber.
NoPublisher == 0

------------------------------------------------------------------------------
Init == /\ topics = [t \in {} |-> 0]
        /\ nextPublisherId = 1
        /\ heap = [r \in {} |-> 0]
        /\ configs = {}
        /\ objects = 0

\* A faulty variant of TakePublisherId: the counter does not move.
TakePublisherIdAgain == UNCHANGED nextPublisherId

\* create_topic_association up to the assignment of the publisher id: the id
\* is taken before the check, so a call that raises has used it up.
TakePublisherId == nextPublisherId' = nextPublisherId + 1

IdSpaceExhausted == nextPublisherId + 1 > PublisherIdMax

CreateRaises == /\ IdSpaceExhausted
                /\ TakePublisherId
                /\ UNCHANGED <<topics, heap, configs, objects>>

\* The association create_topic_association generates, as it is stored and as
\* it is returned: both hold the one dictionary created for it.
FreshSeeds(min, max) == [l \in Secured(min, max) |-> <<objects, l>>]
FreshSaltSeed == <<objects, 0>>

NewEntry(min, max, level, epoch) ==
  [levelMin |-> min, levelMax |-> max, currentLevel |-> level,
   epoch |-> epoch, seeds |-> FreshSeeds(min, max), saltSeed |-> FreshSaltSeed,
   salt |-> Derive(FreshSaltSeed, epoch), keys |-> objects,
   publisherIds |-> {nextPublisherId}]

PublisherConfig(t, min, max, level, epoch) ==
  [topic |-> t, publisherId |-> nextPublisherId, epoch |-> epoch,
   levelMin |-> min, levelMax |-> max, currentLevel |-> level,
   keys |-> objects, salt |-> Derive(FreshSaltSeed, epoch),
   seeds |-> FreshSeeds(min, max)]

\* An association that exists already is replaced.
CreateTopicAssociation(t, min, max, level, epoch) ==
  /\ ~IdSpaceExhausted
  /\ TakePublisherId
  /\ heap' = Put(heap, objects, DeriveAll(FreshSeeds(min, max), epoch))
  /\ topics' = Put(topics, t, NewEntry(min, max, level, epoch))
  /\ configs' = configs \cup {PublisherConfig(t, min, max, level, epoch)}
  /\ objects' = objects + 1

\* Faulty variants of RotateEpoch: the epoch is not wrapped, the keys are
\* derived before the epoch moves, or the seeds are generated again.
RotateEpochUnwrapped(t) ==
  /\ t \in DOMAIN topics
  /\ LET entry == topics[t]
         epoch == entry.epoch + 1
     IN /\ heap' = Put(heap, entry.keys, DeriveAll(entry.seeds, epoch))
        /\ topics' = Put(topics, t,
             [entry EXCEPT !.epoch = epoch,
                           !.salt = Derive(entry.saltSeed, epoch)])
  /\ UNCHANGED <<nextPublisherId, configs, objects>>

RotateEpochLate(t) ==
  /\ t \in DOMAIN topics
  /\ LET entry == topics[t]
         epoch == (entry.epoch + 1) % EpochCount
     IN /\ heap' = Put(heap, entry.keys, DeriveAll(entry.seeds, entry.epoch))
        /\ topics' = Put(topics, t,
             [entry EXCEPT !.epoch = epoch,
                           !.salt = Derive(entry.saltSeed, epoch)])
  /\ UNCHANGED <<nextPublisherId, configs, objects>>

RotateEpochReseeds(t) ==
  /\ t \in DOMAIN topics
  /\ LET entry == topics[t]
         epoch == (entry.epoch + 1) % EpochCount
         seeds == [l \in DOMAIN entry.seeds |-> <<objects, l>>]
     IN /\ heap' = Put(heap, entry.keys, DeriveAll(seeds, epoch))
        /\ topics' = Put(topics, t,
             [entry EXCEPT !.epoch = epoch, !.seeds = seeds,
                           !.salt = Derive(entry.saltSeed, epoch)])
  /\ UNCHANGED <<nextPublisherId, configs, objects>>

\* rotate_epoch: the keys are re-derived in place from the stored seeds.
RotateEpoch(t) ==
  /\ t \in DOMAIN topics
  /\ LET entry == topics[t]
         epoch == (entry.epoch + 1) % EpochCount
     IN /\ heap' = Put(heap, entry.keys, DeriveAll(entry.seeds, epoch))
        /\ topics' = Put(topics, t,
             [entry EXCEPT !.epoch = epoch,
                           !.salt = Derive(entry.saltSeed, epoch)])
  /\ UNCHANGED <<nextPublisherId, configs, objects>>

\* The config get_subscriber_context builds around a keys dictionary.
SubscriberConfig(t, keys) ==
  [topic |-> t, publisherId |-> NoPublisher, epoch |-> topics[t].epoch,
   levelMin |-> topics[t].levelMin, levelMax |-> topics[t].levelMax,
   currentLevel |-> topics[t].currentLevel,
   keys |-> keys, salt |-> topics[t].salt, seeds |-> <<>>]

\* A faulty variant of GetSubscriberContext: the keys are not copied.
GetSubscriberContextShared(t) ==
  /\ t \in DOMAIN topics
  /\ configs' = configs \cup {SubscriberConfig(t, topics[t].keys)}
  /\ UNCHANGED <<topics, nextPublisherId, heap, objects>>

\* get_subscriber_context: the keys are copied, the seeds stay at the TTA.
GetSubscriberContext(t) ==
  /\ t \in DOMAIN topics
  /\ heap' = Put(heap, objects, heap[topics[t].keys])
  /\ configs' = configs \cup {SubscriberConfig(t, objects)}
  /\ objects' = objects + 1
  /\ UNCHANGED <<topics, nextPublisherId>>

Create(t) ==
  \E range \in LevelRanges, epoch \in InitialEpochs :
    \E level \in range[1]..range[2] :
       CreateTopicAssociation(t, range[1], range[2], level, epoch)

Next == \/ CreateRaises
        \/ \E t \in Topics : Create(t)
        \/ \E t \in Topics : RotateEpoch(t)
        \/ \E t \in Topics : GetSubscriberContext(t)

Spec == Init /\ [][Next]_vars

------------------------------------------------------------------------------
IsTable(f, S) == /\ DOMAIN f \subseteq Levels
                 /\ \A l \in DOMAIN f : f[l] \in S

EntryOK(e) == /\ {e.levelMin, e.levelMax, e.currentLevel} \subseteq Levels
              /\ e.epoch \in Epochs
              /\ IsTable(e.seeds, Seeds)
              /\ e.saltSeed \in Seeds /\ e.salt \in Keys
              /\ e.publisherIds \subseteq Nat \ {NoPublisher}

ConfigOK(c) == /\ c.topic \in Topics /\ c.publisherId \in Nat
               /\ {c.levelMin, c.levelMax, c.currentLevel} \subseteq Levels
               /\ c.epoch \in Epochs
               /\ c.salt \in Keys
               /\ IsTable(c.seeds, Seeds)

KeysOf(t) == heap[topics[t].keys]

\* The registry's table, the dictionaries and the configs have their types;
\* every reference names a dictionary.
TypeOK == /\ DOMAIN topics \subseteq Topics
          /\ \A t \in DOMAIN topics : EntryOK(topics[t])
                                      /\ topics[t].keys \in 0..objects - 1
          /\ nextPublisherId \in Nat \ {NoPublisher}
          /\ objects \in Nat
          /\ DOMAIN heap = 0..objects - 1
          /\ \A r \in DOMAIN heap : IsTable(heap[r], Keys)
          /\ \A c \in configs : ConfigOK(c) /\ c.keys \in 0..objects - 1

\* Whatever was created, replaced and rotated, in any order over all topics,
\* an entry's keys and salt are those its own seeds give for its own epoch: no
\* rotation of one topic reaches another topic's dictionary, and no entry is
\* left with keys of one epoch and a salt of another.
EntriesCurrent ==
  \A t \in DOMAIN topics :
     /\ KeysOf(t) = DeriveAll(topics[t].seeds, topics[t].epoch)
     /\ topics[t].salt = Derive(topics[t].saltSeed, topics[t].epoch)
     /\ DOMAIN topics[t].seeds = Secured(topics[t].levelMin, topics[t].levelMax)

\* The keys and the salt of a config belong to its epoch and to one association.
Consistent(cfg) ==
  /\ cfg.salt.epoch = cfg.epoch
  /\ \A l \in DOMAIN heap[cfg.keys] :
       heap[cfg.keys][l] = Derive(<<cfg.salt.seed[1], l>>, cfg.epoch)

\* A subscriber context is a snapshot: later rotations of the topic leave it
\* with the keys, the salt and the epoch id of one and the same epoch
\* (get_subscriber_context copies the dictionary).
SubscriberContextsConsistent ==
  \A cfg \in configs : cfg.publisherId = NoPublisher => Consistent(cfg)

\* The same for the config create_topic_association returns: its keys are
\* K_st_l = PRG(Seed_L, EpochID) for the epoch_id it carries.
PublisherConfigsConsistent ==
  \A cfg \in configs : cfg.publisherId # NoPublisher => Consistent(cfg)

\* No two configs share a publisher id, none is the subscribers' 0, and all fit
\* the 16 bits of the header, whose masking would otherwise merge publishers.
PublisherIdsUnique ==
  \A c \in configs : c.publisherId # NoPublisher =>
     /\ c.publisherId \in 1..PublisherIdMax
     /\ \A d \in configs : d.publisherId = c.publisherId => d = c

\* When an association is rotated it keeps its seeds, moves to the next epoch,
\* changes every key and its salt, and no other topic's entry or keys change.
RotationRekeysOnlyItsTopic ==
  [][\A t \in DOMAIN topics :
       (topics'[t].saltSeed = topics[t].saltSeed /\ topics'[t] # topics[t]) =>
         /\ topics'[t].seeds = topics[t].seeds
         /\ topics'[t].epoch = (topics[t].epoch + 1) % EpochCount
         /\ topics'[t].salt # topics[t].salt
         /\ \A l \in DOMAIN topics[t].seeds : KeysOf(t)'[l] # KeysOf(t)[l]
         /\ \A u \in DOMAIN topics \ {t} :
              topics'[u] = topics[u] /\ KeysOf(u)' = KeysOf(u)]_vars
=============================================================================
