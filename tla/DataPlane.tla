------------------------------ MODULE DataPlane ------------------------------
(***************************************************************************)
(* Phases III to VI put together for one topic at one security level: the  *)
(* TTA's registry (TopicRegistry), a publisher with its DataFrameContext,  *)
(* a broker that may lose, repeat and reorder frames, and a subscriber     *)
(* with its key context and replay guard (ReplayGuard).                    *)
(*                                                                         *)
(* The repository has the handlers, and the order in which the parties     *)
(* call them comes from phase6_update.py:18-22, detect_epoch_mismatch and  *)
(* tests/test_e2e_integration.py:276-305: on a frame of another epoch the  *)
(* subscriber pauses and runs Phase V again; on a frame of its epoch it    *)
(* asks the guard first and decrypts afterwards.                           *)
(*                                                                         *)
(* A frame carries the key and the salt it was encrypted with, standing    *)
(* for the ciphertext: decryption succeeds for exactly these.  Frames stay *)
(* available to the network, which may deliver them in any order, many     *)
(* times or never.  Key requests and responses may be late, and up to      *)
(* MaxFaults times lost or repeated.                                       *)
(***************************************************************************)
EXTENDS Integers, FiniteSets

CONSTANTS Topic, Level, FirstEpoch, EpochCount, PublisherIdMax,
          CounterMax, WindowSize,
          MaxAssociations, \* associations made for the topic
          MaxRotations,    \* epoch rotations
          MaxReboots,      \* subscriber reboots
          MaxFaults,       \* key requests and responses lost or repeated
          MaxOutstanding,  \* unanswered key requests
          None

\* create_data_frame protects no frame of level 0 (phase4_data.py:89).
ASSUME LevelAssumption == Level \in Nat \ {0}
ASSUME EpochAssumption == /\ EpochCount \in Nat /\ EpochCount >= 2
                          /\ FirstEpoch \in 0..EpochCount - 1
ASSUME PublisherIdAssumption == PublisherIdMax \in Nat
ASSUME WindowAssumption == CounterMax \in Nat /\ WindowSize \in Nat \ {0}
ASSUME BoundAssumption ==
  {MaxAssociations, MaxRotations, MaxReboots, MaxFaults, MaxOutstanding} \subseteq Nat

VARIABLES topics, nextPublisherId, heap, configs, objects,  \* the registry
          guard, accepts, reply,      \* the subscriber's replay guard
          publisher,    \* DataFrameContext, or None
          frames,       \* every frame published
          subscriber,   \* epoch, key and salt of the last KeyResponse, or None
          paused,       \* an epoch mismatch was detected
          outstanding,  \* key requests on their way to the TTA
          responses,    \* key responses on their way to the subscriber
          delivered,    \* delivered[f]: payloads handed up since the last boot
          associations, rotations, reboots, faults

registry == <<topics, nextPublisherId, heap, configs, objects>>
replay == <<guard, accepts, reply>>
phase5 == <<subscriber, paused, outstanding, responses>>
bounds == <<associations, rotations, reboots, faults>>
vars == <<registry, replay, phase5, bounds, publisher, frames, delivered>>

Registry == INSTANCE TopicRegistry WITH
  Topics <- {Topic}, LevelRanges <- {<<Level, Level>>}, InitialEpochs <- {FirstEpoch}

Guard == INSTANCE ReplayGuard WITH
  PublisherIds <- 1..PublisherIdMax, EpochIds <- 0..EpochCount - 1

\* The guard's history of its last call ends with the next step.
GuardIdle == /\ reply' = Guard!NoCall
             /\ UNCHANGED <<guard, accepts>>

\* What get_subscriber_context and the KeyResponse built from it hold: the
\* epoch, the salt and the key of the current level.
CurrentContext == [epoch |-> topics[Topic].epoch,
                   key |-> Registry!KeysOf(Topic)[topics[Topic].currentLevel],
                   salt |-> topics[Topic].salt]

\* A new DataFrameContext of publisher i counts from 0, the default.
FreshContext(i, context) ==
  [id |-> i, counter |-> 0,
   epoch |-> context.epoch, key |-> context.key, salt |-> context.salt]

------------------------------------------------------------------------------
Init == /\ Registry!Init /\ Guard!Init
        /\ publisher = None /\ frames = {}
        /\ subscriber = None /\ paused = FALSE
        /\ outstanding = 0 /\ responses = {}
        /\ delivered = [f \in {} |-> 0]
        /\ associations = 0 /\ rotations = 0 /\ reboots = 0 /\ faults = 0

\* Phase III: the config is serialized as soon as it is made.  A topic may be
\* associated again: the publisher goes over to the new config.
Associate ==
  /\ associations < MaxAssociations
  /\ associations' = associations + 1
  /\ Registry!CreateTopicAssociation(Topic, Level, Level, Level, FirstEpoch)
  /\ publisher' = FreshContext(nextPublisherId, CurrentContext')
  /\ GuardIdle
  /\ UNCHANGED <<phase5, rotations, reboots, faults, frames, delivered>>

Rotate == /\ rotations < MaxRotations
          /\ rotations' = rotations + 1
          /\ Registry!RotateEpoch(Topic)
          /\ GuardIdle
          /\ UNCHANGED <<phase5, associations, reboots, faults, publisher, frames, delivered>>

\* What no publisher step changes.
PublisherOnly == /\ GuardIdle
                 /\ UNCHANGED <<registry, phase5, bounds>>

\* A faulty variant of PublisherRekey: the salt of the old epoch stays.
PublisherRekeyKeepsSalt ==
  /\ publisher # None
  /\ publisher.epoch # topics[Topic].epoch
  /\ publisher' = [publisher EXCEPT !.counter = 0, !.epoch = CurrentContext.epoch,
                                    !.key = CurrentContext.key]
  /\ PublisherOnly
  /\ UNCHANGED <<frames, delivered>>

\* A faulty variant of PublisherRekey: it happens at any time.
PublisherRestarts ==
  /\ publisher # None
  /\ publisher' = FreshContext(publisher.id, CurrentContext)
  /\ PublisherOnly
  /\ UNCHANGED <<frames, delivered>>

\* After a rotation the publisher gets the new epoch's context.
PublisherRekey ==
  /\ publisher # None
  /\ publisher.epoch # topics[Topic].epoch
  /\ publisher' = FreshContext(publisher.id, CurrentContext)
  /\ PublisherOnly
  /\ UNCHANGED <<frames, delivered>>

\* A faulty variant of CounterExhausted: the check comes before the counter
\* moves.
CounterExhaustedLate == publisher.counter > CounterMax

\* next_counter: the counter moves before it is checked.
CounterExhausted == publisher.counter + 1 > CounterMax

NextCounter == publisher' = [publisher EXCEPT !.counter = @ + 1]

NewFrame == [id |-> publisher.id, counter |-> publisher.counter,
             epoch |-> publisher.epoch, key |-> publisher.key,
             salt |-> publisher.salt, payload |-> Cardinality(frames)]

CreateDataFrame ==
  /\ publisher # None
  /\ ~CounterExhausted
  /\ NextCounter
  /\ frames' = frames \cup {NewFrame}
  /\ delivered' = [f \in frames' |-> IF f = NewFrame THEN 0 ELSE delivered[f]]
  /\ PublisherOnly

\* next_counter raises: nothing is sent.  The guard stops the count there.
CounterOverflow ==
  /\ publisher # None
  /\ CounterExhausted
  /\ publisher.counter <= CounterMax
  /\ NextCounter
  /\ PublisherOnly
  /\ UNCHANGED <<frames, delivered>>

\* What no step of the key retrieval changes.
RetrievalOnly == /\ GuardIdle
                 /\ UNCHANGED <<registry, publisher, frames, delivered,
                                associations, rotations, reboots>>

\* Phase V, at the start and after a mismatch; a subscriber that has had no
\* answer may ask again.
RequestKey ==
  /\ subscriber = None \/ paused
  /\ outstanding < MaxOutstanding
  /\ outstanding' = outstanding + 1
  /\ RetrievalOnly
  /\ UNCHANGED <<subscriber, paused, responses, faults>>

\* The TTA's answer holds what get_subscriber_context returns at that moment;
\* the config object is serialized and dropped.
AnswerKeyRequest ==
  /\ outstanding > 0
  /\ Topic \in DOMAIN topics
  /\ outstanding' = outstanding - 1
  /\ responses' = responses \cup {CurrentContext}
  /\ RetrievalOnly
  /\ UNCHANGED <<subscriber, paused, faults>>

Fault == faults < MaxFaults /\ faults' = faults + 1

LoseRequest ==
  /\ Fault
  /\ outstanding > 0
  /\ outstanding' = outstanding - 1
  /\ RetrievalOnly
  /\ UNCHANGED <<subscriber, paused, responses>>

LoseResponse ==
  /\ Fault
  /\ \E r \in responses : responses' = responses \ {r}
  /\ RetrievalOnly
  /\ UNCHANGED <<subscriber, paused, outstanding>>

\* A faulty variant of ApplyKeyResponse: the guard forgets the epoch.
ApplyKeyResponseFlushes(r) ==
  /\ responses' = responses \ {r}
  /\ subscriber' = r
  /\ paused' = FALSE
  /\ Guard!Flush({<<i, r.epoch>> : i \in 1..PublisherIdMax})
  /\ UNCHANGED <<registry, publisher, frames, delivered, bounds, outstanding>>

\* A faulty variant of ApplyKeyResponse: the subscriber stays paused.
ApplyKeyResponseStaysPaused(r) ==
  /\ responses' = responses \ {r}
  /\ subscriber' = IF paused THEN subscriber ELSE r
  /\ RetrievalOnly
  /\ UNCHANGED <<paused, outstanding, faults>>

\* The subscriber uses what decrypt_key_response returns: nothing but the tag
\* is checked, so a late or a repeated answer counts as well.
Use(r) == subscriber' = r /\ paused' = FALSE

ApplyKeyResponse(r) ==
  /\ responses' = responses \ {r}
  /\ Use(r)
  /\ RetrievalOnly
  /\ UNCHANGED <<outstanding, faults>>

\* The network delivers r and keeps a copy for later.
RepeatResponse(r) ==
  /\ Fault
  /\ Use(r)
  /\ RetrievalOnly
  /\ UNCHANGED <<outstanding, responses>>

\* detect_epoch_mismatch, and the pause its callers owe it.
Mismatch(f) == f.epoch # subscriber.epoch

Listening == subscriber # None /\ ~paused

ReceiverOnly == UNCHANGED <<registry, publisher, frames, bounds, subscriber,
                            outstanding, responses>>

\* A faulty variant of ReceiveMismatch: the guard is asked before the epoch is
\* looked at.
ReceiveMismatchAfterGuard(f) ==
  /\ Listening
  /\ Mismatch(f)
  /\ paused' = TRUE
  /\ Guard!CheckAndAccept(<<f.id, f.epoch>>, f.counter)
  /\ ReceiverOnly
  /\ UNCHANGED delivered

ReceiveMismatch(f) ==
  /\ Listening
  /\ Mismatch(f)
  /\ paused' = TRUE
  /\ GuardIdle
  /\ ReceiverOnly
  /\ UNCHANGED delivered

\* decrypt_data_frame succeeds with the key and the salt of the frame.
Decrypts(f) == f.key = subscriber.key /\ f.salt = subscriber.salt

\* A faulty variant of ReceiveMatch: the guard's answer is not heeded.
ReceiveMatchUnguarded(f) ==
  /\ Listening
  /\ ~Mismatch(f)
  /\ Guard!CheckAndAccept(<<f.id, f.epoch>>, f.counter)
  /\ delivered' = IF Decrypts(f) THEN [delivered EXCEPT ![f] = @ + 1] ELSE delivered
  /\ ReceiverOnly
  /\ UNCHANGED paused

\* The guard is asked first: a frame it accepts has used up its counter even
\* if the decryption fails.
ReceiveMatch(f) ==
  /\ Listening
  /\ ~Mismatch(f)
  /\ Guard!CheckAndAccept(<<f.id, f.epoch>>, f.counter)
  /\ delivered' = IF reply'.result = "accept" /\ Decrypts(f)
                  THEN [delivered EXCEPT ![f] = @ + 1] ELSE delivered
  /\ ReceiverOnly
  /\ UNCHANGED paused

\* The subscriber restarts with nothing but its channel: flush_all.
Reboot ==
  /\ reboots < MaxReboots
  /\ reboots' = reboots + 1
  /\ subscriber' = None /\ paused' = FALSE
  /\ Guard!FlushAll
  /\ delivered' = [f \in frames |-> 0]
  /\ UNCHANGED <<registry, publisher, frames, outstanding, responses, associations,
                 rotations, faults>>

Next == \/ Associate \/ Rotate \/ PublisherRekey
        \/ CreateDataFrame \/ CounterOverflow
        \/ RequestKey \/ AnswerKeyRequest \/ LoseRequest \/ LoseResponse
        \/ \E r \in responses : ApplyKeyResponse(r)
        \/ \E r \in responses : RepeatResponse(r)
        \/ \E f \in frames : ReceiveMismatch(f)
        \/ \E f \in frames : ReceiveMatch(f)
        \/ Reboot

Spec == Init /\ [][Next]_vars

\* The subscriber asks while it has no key, the TTA answers, an answer arrives
\* unless it is lost, and some frame that shows a mismatch arrives.  Nothing is
\* assumed of the publisher, of the rotations or of any single frame.
Fairness == /\ WF_vars(RequestKey)
            /\ WF_vars(AnswerKeyRequest)
            /\ WF_vars(\E r \in responses : ApplyKeyResponse(r))
            /\ WF_vars(\E f \in frames : ReceiveMismatch(f))

FairSpec == Spec /\ Fairness

------------------------------------------------------------------------------
Contexts == [epoch : Registry!Epochs, key : Registry!Keys, salt : Registry!Keys]

\* None is no context.
ASSUME NoneAssumption == None \notin Contexts

\* The parties' states have their types.
TypeOK ==
  /\ Registry!TypeOK /\ Guard!TypeOK
  /\ \/ publisher = None
     \/ /\ publisher.id \in 1..PublisherIdMax
        /\ publisher.counter \in 0..CounterMax + 1
        /\ [epoch |-> publisher.epoch, key |-> publisher.key,
            salt |-> publisher.salt] \in Contexts
  /\ \A f \in frames : f.counter < CounterMax
  /\ subscriber \in Contexts \cup {None} /\ paused \in BOOLEAN
  /\ outstanding \in 0..MaxOutstanding /\ responses \subseteq Contexts
  /\ DOMAIN delivered = frames

\* However frames are repeated and reordered, and however often the subscriber
\* pauses, re-keys or falls back to an older epoch on a late response, it hands
\* up a payload at most once between two boots.
AtMostOnce == \A f \in frames : delivered[f] <= 1

\* No two frames are encrypted under one key with one nonce, the nonce being
\* the salt, the publisher id and the counter ("MUST be unique per (key,
\* nonce) pair", aead.py:61), over re-keyings that restart the counter.
NonceUsedOnce ==
  \A f, g \in frames :
     (<<f.key, f.salt, f.id, f.counter>> = <<g.key, g.salt, g.id, g.counter>>)
        => f = g

\* The epoch id tells all: a frame whose epoch id is the subscriber's decrypts
\* with the subscriber's key and salt, whichever rotations, late responses and
\* old frames came between; so no counter is used up by a failed decryption.
EpochIdTellsKey ==
  subscriber # None => \A f \in frames : ~Mismatch(f) => Decrypts(f)

\* g is of the same publisher and epoch as f, was published after f, and was
\* handed up a window or more ahead of it.
Overtaken(f, g) == /\ <<g.id, g.epoch>> = <<f.id, f.epoch>>
                   /\ g.payload > f.payload
                   /\ g.counter - f.counter >= WindowSize
                   /\ delivered[g] = 1

\* A frame the guard refuses was itself handed up since the last boot, or was
\* overtaken by a window or more ("False if replayed", common.py:241): frames
\* seen while paused or under another epoch's key are not lost to the guard,
\* and a frame never pays for another frame's counter.
RefusedOnlyIfDelivered ==
  [][\A f \in frames :
       ReceiveMatch(f) /\ reply'.result = "reject"
         => delivered[f] = 1 \/ \E g \in frames : Overtaken(f, g)]_vars

\* The promise of SecureTopic: keys per epoch, nonces, the guard and the pause
\* together hand up a message only to a subscriber that has joined the message's
\* epoch, an epoch the topic has been in, and once until it restarts.
Message(f) == [payload |-> f.payload, epoch |-> f.epoch]

Published == {Message(f) : f \in frames}

Opened == IF Topic \in DOMAIN topics
          THEN {(FirstEpoch + i) % EpochCount : i \in 0..rotations} ELSE {}

Joined == IF subscriber = None THEN None ELSE subscriber.epoch

Handed == [m \in Published |-> delivered[CHOOSE f \in frames : Message(f) = m]]

\* A publisher fills at most one counter per association and per rotation.
MaxPayload == CounterMax * (MaxRotations + MaxAssociations)

Promise == INSTANCE SecureTopic WITH
  Messages <- [payload : 0..MaxPayload, epoch : Registry!Epochs],
  Epochs <- Registry!Epochs,
  NoEpoch <- None,
  opened <- Opened, published <- Published, joined <- Joined, handed <- Handed

ImplementsSecureTopic == Promise!Spec

\* Once a frame of the registry's epoch is on the network the subscriber ends
\* up with that epoch's context for good (detect_epoch_mismatch and Phase V),
\* in spite of lost, repeated and late responses.
Converges ==
  <>[]((\E f \in frames : f.epoch = topics[Topic].epoch)
         => subscriber = CurrentContext)

\* A pause ends with a key response ("pauses, re-runs Phase V",
\* phase6_update.py:21), whatever responses are lost, late or repeated and
\* whatever rotations come in the meantime.
PauseEnds == paused ~> ~paused
=============================================================================
