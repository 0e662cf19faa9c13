# Verification of PQC-DLST-MQTT

TLA+ models of the protocol in `src/src/protocol`, checked with TLC on small
instances, and theorems about them checked with TLAPS for every value of the
constants. Paths below are relative to the repository.

## 1. Inventory

PQC-DLST-MQTT secures MQTT topics end to end. A trusted authority (TTA)
authenticates clients (Phase I), negotiates a level range per topic (II), makes
a topic association with keys per level (III), publishers send protected frames
through a broker that only relays (IV), subscribers fetch the topic key over
their channel with the TTA (V), and levels and epochs change at run time (VI).
The repository holds the handlers of these phases as a library; the order in
which the parties call them is given by the doc strings and by
`tests/test_e2e_integration.py`.

| component (code) | state | operations | correct when |
|---|---|---|---|
| `ReplayGuard` (protocol/common.py:210-294) | (publisher, epoch) -> highest counter and bitmap | check_and_accept, flush_epoch, flush_all; each under one lock | no counter accepted twice, no fresh recent one refused |
| `TopicRegistry` (phase3_agreement.py:103-242) | topic -> entry with seeds, epoch, keys, salt; next publisher id | create_topic_association, rotate_epoch, get_subscriber_context | keys, salt and epoch id belong together in the entry and in what is handed out; ids unique |
| `Phase1Client`, `Phase1TTA` (phase1_auth.py) | pending key pair and nonce; the TTA keeps none | create_auth_request, process_auth_request, process_auth_response | both sides hold the same keys; none is agreed twice; retries work |
| `CertificateRevocationList` (pki/crl.py) | revoked ids | revoke, is_revoked, unrevoke | a revoked client gets nothing |
| `DataFrameContext`, frames (phase4_data.py) | counter, key, salt, epoch of a publisher | next_counter, create, parse, decrypt | nonces unique; what has the right epoch decrypts |
| Key retrieval (phase5_retrieval.py) | none of its own | encrypt/decrypt of KeyRequest and KeyResponse | a subscriber gets to the current epoch and stays there |
| `SequenceNumberState` (common.py:177-207) | counter | next, reset; each under one lock | no (key, IV) twice on a channel |
| `DynamicSecurityManager` (phase6_update.py) | topic -> level, range, level history | register, downgrade, upgrade, WASS, finalize | levels stay in range; the history covers the time once; the score stays in the range of the levels |
| Negotiation (phase2_tsa.py) | none | validate_tsa_request, messages | exactly the common levels of request and priority are agreed, and nothing outside them is ever used |
| Levels and priorities (security_levels.py) | none | tables, `SLSI` scores | what the tables of four files say of a level fits together |
| `HeaderCodec` (common.py:73-174) | none | encode, decode, encode_for_level | the nine bytes describe the frame behind them |
| Messages (`serialize`, `deserialize` of Phases I, II, III, V) | none | byte layouts | what is read is what was written |
| CA (pki/ca.py, pki/cert.py) | issued certificates, never read | issue_cert, verify_cert | a certificate binds a key to its client as long as it is valid |
| Primitives (pqcrypto/) | none | wrappers of libraries | - |
| Benchmarks | none | timing, byte counts, cost model | - |

How they interact. The TTA calls the registry in Phase III and V. A config is
serialized to the publisher, whose `DataFrameContext` takes id, key, salt and
epoch from it. A subscriber takes epoch, key and salt from a `KeyResponse`. On a
frame it compares epoch ids (`detect_epoch_mismatch`); on a mismatch it pauses
and runs Phase V again; otherwise it asks the guard and then decrypts
(test_e2e_integration.py:279-305). `TopicRegistry`, `DynamicSecurityManager`,
the CRL, the CA, `flush_epoch`, `flush_all` and `reset` are called by no other
code of `src/src`, and verify_cert and is_revoked by no test either.

Each subsystem keeps its own view of what a level is: `SECURITY_LEVELS`
(security_levels.py), `LEVEL_TO_CIPHER` and `LEVEL_TO_HASH` (common.py),
`AEAD_KEY_SIZES` (aead.py) and `HASH_PARAMS` (hash.py). They meet in a frame: the
publisher picks cipher, key size and tag by the level of its context, and the
subscriber by the level it finds in the header.

What is hard to test: orders of counters in the guard's window; one Python
dictionary shared by the registry and a config; retries, repeats and late
answers in Phases I and V; frames of several epochs arriving in any order around
re-keying and reboots; epoch ids, counters and publisher ids at their limits;
values that pass through several serializations, whose offsets depend on each
other, before a frame shows what became of them. `hazards` in PROJECT.json lists each with its line.

## 2. Modules

| module | models |
|---|---|
| `SlidingWindow` | abstract specification of the guard: the set of accepted counters that are still recent |
| `ReplayGuard` | `ReplayGuard`, one disjunct per branch of check_and_accept |
| `ReplayGuardProofs` | its theorems |
| `TopicRegistry` | `TopicRegistry` with a heap of key dictionaries |
| `TopicRegistryProofs` | its theorems |
| `Phase1Auth` | Phase I of many clients with one TTA over a bad network, and the CRL |
| `Phase1AuthProofs` | its theorems |
| `SecureTopic` | abstract specification of the data plane: epochs, messages, joining and handing up |
| `DataPlane` | Phases III to VI of one topic: registry and guard (by INSTANCE), publisher, broker, subscriber; implements `SecureTopic` |
| `DataPlaneProofs` | its theorems |
| `WireSizes` | sizes in messages and frames, and the spans of the header's fields |
| `SecurityLevels` | the tables by level and priority, and the scores computed from them |
| `HeaderCodec` | `HeaderCodec`, extends the two above |
| `Frames` | create, parse and decrypt of data frames, as bytes that know what they were made with |
| `Messages` | serialize and deserialize of every message and of certificates |
| `Provisioning` | Phases I to V end to end as messages: certificate, handshake, negotiation, config, frames, key response |
| `WireProofs` | theorems about `HeaderCodec` and `Messages` |
| `ProvisioningProofs` | theorems about `Frames` and `Provisioning` |
| `ControlChannel` | `SequenceNumberState`, control IVs and the calls of several threads that use them, across re-authentications |
| `ControlChannelProofs` | its theorems |
| `DynamicSecurity` | `DynamicSecurityManager`: levels, heuristics, level history and a clock |
| `DynamicSecurityProofs` | its theorems |
| `MC...` | instances for TLC: value sets, bounds, symmetry |

How state and actions correspond to code:

- **ReplayGuard.** `guard` is `_state`. The bitmap, an int of any size, is the
  set of its one-bit positions; `Shifted` is `(bitmap << shift) | (1 << (shift - 1))`.
  Each method holds the lock, so a call is one step. `accepts` (how often a
  counter was accepted since its key was flushed) and `reply` (the last call and
  its answer) are history.
- **TopicRegistry.** An entry and a config hold a reference to a dictionary in
  `heap`, as Python does: create_topic_association stores and returns the same
  dictionary, rotate_epoch writes into it, get_subscriber_context copies. A call
  that raises OverflowError has taken its publisher id (`CreateRaises`). Seeds
  are fresh values; derivation is injective. Calls on unknown topics raise or
  return None and change nothing.
- **Phase1Auth.** A request is known by its client and number; the TTA answers
  every delivery of a request with new randomness. Messages are never removed
  from the network, so they may be repeated, delayed, reordered, lost (never
  processed) and delivered to anybody. Calls that raise change nothing.
  Signatures are the signed content; the parties are honest. Sequence numbers in
  the messages are signed but compared with nothing, and are left out.
- **SecurityLevels, HeaderCodec.** Tables are functions on the levels. Scores are
  in hundredths and weights are equal parts, so that the weighted average is a
  quotient of two integers, compared by multiplication. Bits are taken apart with
  `\div` and `%`; the masks of id, counter and epoch are remainders by the spans
  in `WireSizes`. `EncodeForLevel` puts the *current* level into the field of the
  maximum, as common.py:163-174 does.
- **Messages.** All messages have one form, numbers and lengths in front and
  byte strings behind, so a method is modelled by its *layout*. Each message has
  two, one translated from its serialize and one from its deserialize; `Write`
  and `Read` interpret them. What has no length in front (nonces, the salt) is
  read with a size taken for granted. A config's tables and a certificate, whose
  front lies inside the signed content, have operators of their own.
- **Frames.** A body is a sequence of bytes, each with what it was made with: key
  and nonce, and for a tag the associated data and the bytes under it. A call that
  raises is one that is not `Usable` or a decryption that is not `ok`. Keys are 32
  elements and are cut to the size of the level, as `[:aead.get_key_size()]` does.
- **Provisioning.** Each party acts on what it has *read*: the TTA takes the
  client's key from a certificate, verifies with it, answers the request it has
  read; the publisher builds its `DataFrameContext` from the config it has read,
  the subscriber its key from the response it has read, and level, id, epoch and
  counter from a frame. Each party has a link with one message on it; a
  certificate may grow old on the way (`Delay`), a refused request may be made
  again, also for another topic and range. Loss, repetition and crossing are in
  `Phase1Auth`, `ControlChannel` and `DataPlane`. `sent`, `got` and
  `agreed.request` are history. That the TTA calls verify_cert before Phase I
  is what process_auth_request asks of its caller (client_vk is "from certificate",
  phase1_auth.py:244); the repository has no such caller. Level 0 is in
  the tables and in `FrameFor`, but no priority allows it, so no frame of it is made.
- **DataPlane.** `Rotate`, `Associate` and the guard's calls are the actions of
  the component modules. A publisher changes its context only when the
  registry's epoch differs from its own, and then counts from 0 (the default of
  the field). A frame holds the key and salt that encrypted it in place of its
  ciphertext; `Decrypts` is authenticated decryption. Frames are never removed
  from the network. Key requests and responses may arrive late; up to
  `MaxFaults` times one is lost or a response is repeated. Late and repeated
  responses are applied, since decrypt_key_response checks only the tag.
  A topic may be associated again, which replaces its
  entry while the TTA keeps its count of ids: the registry knows one publisher per topic, and a second publisher's
  association is one more `Associate`. `Promise` maps the state to `SecureTopic`:
  keys, salts, nonces, counters, guard and pause are forgotten, a frame is its
  payload and epoch, and the subscriber's context is the epoch it has joined.
  The subscriber never calls flush_epoch (no code does); `Reboot` calls
  flush_all. Calling flush_epoch when a key response arrives, as "called on epoch
  rotation" (common.py:282) may be read, would break AtMostOnce once a late
  response brings an epoch back: the variant `ApplyKeyResponseFlushes` shows it.
- **ControlChannel.** An encrypt_* call is three steps of its thread: the call
  (`Encrypt` fixes the key, an argument), `SequenceNumberState.next` under its
  lock (`TakeNumber`, or `NextRaises` at the limit), and the encryption. Since next()
  increments before it compares, a counter goes on growing after it has raised; the
  model stops it at `MaxCounter`, above which all values behave alike.
  `ReAuthenticate` is the owner's two calls, new keys and reset(). Its guard, that
  no call holds the old key without a number, is not in the code: it is what a
  caller owes, and `ReAuthenticateAnytime` shows what happens without it.
- **DynamicSecurity.** `topics` and `order` are the dictionary and its order of
  insertion; a downgrade or an upgrade changes every topic that has room and
  returns the changes in the order of the heuristic. WASS weighs each level by
  its total time, so the list of (level, seconds) pairs is kept as a function from
  levels to totals. Time is an integer clock that stands still during a call.
  `spent` measures the time at each level independently of the code's records.
  `GetWass` is the quotient get_wass returns, with its two ways to 0.0: for an
  unknown topic, and as long as no time was recorded or has passed. A topic scores
  0.0 right after register_topic, less than its lowest level would.

Definitions headed "faulty variant" are bugs the code might have had; no
specification uses them. They show that a property can fail: with the variant
in place of the original, TLC finds the property violated.

## 3. Runs

| run | instance | checks |
|---|---|---|
| `replay_guard` | 2 publishers (symmetric), 1 epoch, counters 0..4, window 3 | types; NoDoubleAccept, WindowExact, RejectsOnlyWithCause; MaxNeverDecreases; refinement of SlidingWindow |
| `topic_registry` | 2 topics, ranges 0..1 and 1..2, 3 epochs from 1, ids to 3, 4 dictionaries | types; EntriesCurrent, SubscriberContextsConsistent, PublisherIdsUnique; RotationRekeysOnlyItsTopic |
| `phase1` | 2 clients, 2 requests each, 2 answers per request | types; KeyAgreement, KeysAcceptedOnce; PendingSurvivesBadResponses; HandshakeCompletes |
| `data_plane` | 3 epochs, 1 association, 1 rotation, counters 0..2 usable, window 2, 1 reboot, 1 fault | types; AtMostOnce, NonceUsedOnce, EpochIdTellsKey; RefusedOnlyIfDelivered; refinement of SecureTopic; Converges, PauseEnds |
| `control_channel` | 1 end, 3 threads (symmetric), 3 sessions, numbers 0..2 usable | types; IvUsedOnce |
| `dynamic_security` | 2 topics (symmetric), 3 kinds of registration, 3 registrations, clock to 3 | types and ranges; WassCountsTimeSpent, WassWithinRange; ReturnsWhatChanged |
| `provisioning` | publisher and subscriber, 2 topics, every priority with every range of 0..5, 2 payloads, 2 first epochs, the last publisher id, counters 0..1 usable | types; RangeHonoured, HeaderDescribesFrame, FramesReadable; CertificatesHonoured, MessagesArrive |
| `registry_aliasing` | as `topic_registry` | PublisherConfigsConsistent fails |
| `phase1_revocation` | 1 client | NoSessionForRevoked fails |
| `data_plane_epoch_wrap` | 2 epochs, 2 rotations | NonceUsedOnce fails |
| `data_plane_reassociation` | 2 associations, 1 rotation | EpochIdTellsKey fails |
| `dynamic_finalize` | as `dynamic_security` | WassCountsTimeOnce fails |

Why the bounds are enough to meet the interesting cases. Counters 0..4 with a
window of 3 hold jumps inside, at and beyond the window and late counters at
each distance; the keys of the guard are independent, so two show that one does
not disturb another. In the registry, three epochs started at the second make
the epoch id wrap; four dictionaries allow both topics, a replacement and a
context; two assignable ids make the id space run out, also during a
replacement. In Phase I two requests make a retry with a late answer, two
answers a repeated request, and two clients a misdelivered one. In the data
plane one rotation gives two epochs in flight and an answer of either, a reboot
may fall anywhere, and three counters with a window of two make a frame too old; a
second association is left to its violation run.
On the control channel three threads let one hold an old key, one a number and one
exhaust the counter at the same time, and three sessions two re-authentications
under such calls; a second end has its own key and counter and meets the first
nowhere. In the dynamic manager two topics of equal or different priority, one of
them registered again, meet both heuristics with room and without, at times up
to 3; finalize_all is not repeated while a finalized topic is registered, since
the second call repeats the violation below without end.
In `provisioning` the sizes are small and different where the code's are (a KMAC
tag of 2 bytes, a GCM tag of 1, a salt of 2, a nonce of 3), so that one taken for
another shows; client ids and keys have different lengths; one topic is a prefix of
the other; an empty payload and a non-empty one, the last id, the last counter and
the last epoch of their fields occur, and a certificate is checked before, at and
after its last moment. All 144 requests occur, those turned upside down included.
`MaxObjects` and `MaxPublisherId` (registry), `MaxRequests` and `MaxAnswers`
(Phase I), `MaxRotations`, `MaxReboots`, `MaxFaults`, `MaxOutstanding`, `MaxAssociations` (data
plane), `MaxSessions` and `MaxCounter` (control channel), `MaxTime` and
`MaxRegistrations` (dynamic manager) are bounds of the models, not of the code.
`CounterMax`, `SnMax`, `EpochCount`, `PublisherIdMax`, `IdSpan`, `CounterSpan` and
`EpochSpan` are the code's limits made small.

Fairness. In `Phase1Auth`, the network delivers the latest request of a client
and one of the answers to it, unless the client replaces the request; retries
are bounded. In `DataPlane` (`FairSpec`) the subscriber asks while it has no key
(it "must pause data processing and re-run Phase V", phase6_update.py:162-164),
the TTA answers, some response arrives unless lost, and some frame that shows a
mismatch arrives. Only the last is more than a scheduler gives: it says that
frames keep arriving. No fairness is assumed of publishers or rotations.

## 4. Where the code and its documentation part

Shown by the violation runs:

1. A config returned by create_topic_association shares its key dictionary with
   the registry: after a rotation it holds new keys with the old epoch id and
   salt. Harmless for a caller that serializes the config at once.
2. A second create_topic_association for a topic replaces seeds that are documented as
   generated once and may bring an epoch id back with other keys. A subscriber of the
   former association sees the epoch id it expects, so detect_epoch_mismatch keeps
   quiet, decryption fails, and each frame uses up its counter in the guard.
3. No code consults the revocation list.
4. The epoch id wraps with the same seeds: a publisher that counts from 0 in each
   epoch repeats nonces after 256 rotations. The guard still holds the counters of the
   epoch id's former use, since flush_epoch, "called on epoch rotation"
   (common.py:282), is called by no code: it refuses frames that are fresh.
5. finalize_all adds the last segment to the history and leaves the time of the
   last change alone; get_wass then adds the same segment again. The average stays
   inside the topic's range all the same (WassWithinRange).

Two more are shown by what HeaderDescribesFrame says in their place, in `provisioning`
and for every value of the constants in HeadersDescribeFrames:

6. `max_level` of a header is documented as the negotiated maximum (common.py:53, 86;
   phase4_data.py:48) and holds the level of the frame, also below that maximum.
   parse_data_frame and decrypt_data_frame need the latter, so it is the comments that
   are wrong.
7. `SECURITY_LEVELS[1]` names SHA3-256; frames of level 1 are made with KMAC-256, and
   their headers say so, as all other tables do. From level 2 on the tables agree.

Noticed while translating, with no run of their own:

- The doc string of hash.py (10) gives SHA3-256 for levels 2 and 3, its table SHA3-384
  for 3.
- A KeyResponse whose salt has not 6 bytes loses or gains bytes of its reason
  (phase5_retrieval.py:98); the code always passes 6.
- The LPD-LPU heuristic is said to protect topics of high priority longer, but it
  only orders one call's changes: every topic with room goes down in every call.
- issue_cert for a client that has a certificate leaves the former one valid.

## 5. Proofs

Assumptions: those on the constants in the component modules, each an `ASSUME` with a
name that TLC evaluates on the instances (window at least 1; at least two epochs;
level ranges of naturals; registrations within the levels; sizes and spans that are
numbers). Two need a word. `DataPlane` takes a level from 1 on, since no priority
allows level 0 and create_data_frame protects nothing at it, and a value `None` that
is no context. `Provisioning` takes topics that have a name, as MQTT does, and ids and
epochs that fit their fields, as the registry and the width of the fields give them.
Three theorems about `DataPlane` have hypotheses of their own, given below with the runs
that show the need for them.

**ReplayGuardProofs.** The inductive invariant joins the types with: the
highest counter of a tracked key was accepted and no larger one was; a bit inside
the window is set exactly when its counter was accepted; no counter has been
accepted more than once; an untracked key has no acceptances. It is needed
because NoDoubleAccept alone says nothing about the bitmap that decides the next
answer. The central case is `NewHigh`: bits move up by the jump, and positions
that stay inside the window denote the same counters as before. From it follow
TypeCorrect, NeverAcceptedTwice, BitmapExact, NoFreshMessageLost, MaxMonotone,
and Refinement: each step is a step of `SlidingWindow` or a stutter.

**TopicRegistryProofs.** The inductive invariant adds separation: an entry's
dictionary was created with the entry's seeds, no two entries share a dictionary,
no subscriber's context holds one that belongs to an entry, and the ids in configs
are below the next id. Without it a rotation could write through another
reference. From it follow TypeCorrect, EntriesStayCurrent, SubscriberSnapshots,
IdsUnique, RotationIsLocal.

**Phase1AuthProofs.** For any clients and any numbers of requests and answers. The
inductive invariant says of the messages that every request is one its client
made, and that every response was sent together with a session that holds the keys
it leads to; and of the nonces that keys accepted by a client hold one of its own,
no two of them the same, and none the one of the request that is pending. A
response that verifies is therefore one to the pending request, and its keys are
new. From it follow TypeCorrect, KeysAgree, NoKeysAcceptedTwice and
PendingSurvives.

**ControlChannelProofs.** For any number of ends, threads and sessions and any
range of numbers. The inductive invariant says where the numbers are: with the key
of the present session only numbers below the counter were used or are held by a
call; a held number is unused and held once; the keys of later sessions are
unused; a call still without a number holds the present key. The last part is the
guard of ReAuthenticate, so the result is about callers that keep to it. From it
follow TypeCorrect and ControlIvsUnique.

**DataPlaneProofs.** For any numbers of epochs, counters, associations, rotations,
reboots and faults. The proofs of the registry and of the guard are instantiated: each
action of `DataPlane` takes one of their steps or leaves their variables alone, so their
inductive invariants hold here, and WindowExact and RejectsOnlyWithCause with them.
The invariant adds where things come from: a context or a frame holds the key and salt
that some association's seeds give for its epoch id (`OfAssociation`), and the topic has
been in that epoch (`HasBeen`); payloads number the frames; what was handed up had its
counter accepted; and `Progress` counts: how many rotations of the present association
were made, how many of them the publisher has followed, and how many contexts it had
before, which bounds the number of frames. From it follow, without more hypotheses,
TypeCorrect, HandedUpAtMostOnce (also across wraps and re-associations) and PromiseKept:
each step is a step of `SecureTopic` or a stutter under the mapping Published, Opened,
Joined, Handed. The other three are about one topic before an epoch id means two things:

- NoncesUnique assumes `MaxRotations < EpochCount`. A second invariant says that two
  frames of one association and one epoch have different counters and that the publisher
  is ahead of those of its epoch; it holds while no epoch id has come back, whatever
  the number of associations. `data_plane_epoch_wrap` breaks it with as many rotations
  as epoch ids: the hypothesis is exactly violation 4.
- EpochIdsTellKeys assumes `MaxAssociations <= 1`: there is one dictionary of seeds,
  so an epoch id has one key, also after a wrap. `data_plane_reassociation` breaks it
  with two: the hypothesis is exactly violation 2.
- RefusalsDelivered, about the frame refused, assumes both. With one dictionary every
  frame the guard accepts decrypts, so an accepted counter is one of a frame handed up;
  before a wrap that frame has the key and the nonce of the one refused and is that very
  frame (NoncesUnique); and a frame a window ahead was published later, since payloads
  are numbered in the order of the counters (`Chronological`).
  The instance of `data_plane_epoch_wrap` breaks it too, as it breaks NoncesUnique.

**WireProofs.** Of headers, for any spans of id, counter and epoch: decoding undoes
encoding for every header whose values fit, and the header of a level from 1 on
says what the tables say (DecodeUndoesEncode, HeaderOfLevel). The argument goes
byte by byte: the halves of the first, the three parts of the second, and a mask
that keeps a number below its span. Of messages, for byte strings of any lengths:
what a layout writes it reads again, whatever is appended (RoundTrip). The strings are
appended one after the other, the offsets read add up the lengths written, and a slice
between two offsets is not disturbed by what comes behind. Then each of the eight
pairs of layouts, translated from two methods each, is shown to be the same layout, and
the messages arrive (RecordArrives, SixMessagesArrive, ConfigArrives, CertificateArrives).
`Offset` and `Starts` are recursive functions and FlattenSeq a fold; induction is out of
the prover's reach, but layouts have at most four byte strings and tables one or two
levels (a range that can be agreed has no more), so the function is given explicitly and
shown to satisfy the recursion. Tables of more levels are proved nothing about.

**ProvisioningProofs.** For any topics, requests, payloads, first epochs, publisher ids,
sizes and spans. FrameRead is about one frame: its body is cut where it was put together
because the level in the header gives the size of the tag, and then tag, nonce and
associated data are computed again from the same values. The inductive invariant
carries this to the system: which message may be on a link in which phase, that it is
written as its kind is written and of a type that arrives; and that entry, publisher's
context, subscriber's key response and frames are made of one another and of what was
agreed. From it follow TypeCorrect, RangesHonoured, HeadersDescribeFrames and
EveryFrameReadable, and for steps ReadAsWritten and CertificatesBind. The invariant was
checked with TLC on the instance of `provisioning` before it was proved.

**DynamicSecurityProofs.** For any topics, registrations and length of run. The
inductive invariant adds to the types that no last change lies in the future,
without which a segment could be negative, and that a history has time only at
levels of the topic's range. A second invariant, `TimeRecorded`, says that history and
present segment have time at exactly the levels where time was spent, which finalize_all
leaves true while it makes the time itself wrong. The rest carries the average: with
the scores of the six levels (Scores) each term lies between the ends (AverageInRange);
and as long as no time was spent there is none in the history either, and the score is
0. From it follow TypeCorrect, TimeCountedOnce and AverageStaysInRange. Nothing is
proved about the order of returned changes, which SetToSortSeq gives.

Model-checked only: ReturnsWhatChanged (the order SetToSortSeq gives), and all liveness
(HandshakeCompletes, Converges, PauseEnds), which is beyond this prover. Every safety
property the passing runs check, apart from ReturnsWhatChanged, is a theorem.

## 6. Not modelled

- What the cryptographic libraries compute: primitives appear by what they bind and
  by the size checks of their wrappers (`Usable`). The tables of key and signature
  sizes (kem.py, sig.py) only feed benchmarks.
- Benchmarks, plots and the byte counting of data_frame_overhead,
  phase5_byte_overhead and byte_size hold no protocol state.
- Level changes at run time in `DataPlane`: the repository has no code that carries a
  change from the manager to the registry.
- Several publishers of one topic with a common key: the registry cannot make them, a
  second association replaces the first.
- A TTA that restarts: its registry is held in memory, and a new one gives out
  publisher ids from 1 again (phase3_agreement.py:115) while frames with those ids are
  about. `Associate` keeps the count of ids and stands for a TTA that goes on.
- Threads that share a `DataFrameContext`: the code makes no claim about them, and
  next_counter has no lock, unlike `SequenceNumberState.next`.
- `CertificateAuthority._issued`, which is never read, and get_ca_cert, one more
  issue_cert whose result nobody uses.
- The width of the numbers in front of messages: struct.pack raises for what does not
  fit, and no caller passes such values.

## 7. Plan

Done:

1. `SlidingWindow`, `ReplayGuard` and their proofs.
2. `TopicRegistry` and its proofs; the aliasing run.
3. `Phase1Auth` with liveness, its proofs and the revocation run.
4. `DataPlane`: composition with the guard and the registry, convergence, the wrap
   and re-association runs, refinement of `SecureTopic`.
5. `ControlChannel` and its proofs.
6. `DynamicSecurity` with scores; the finalize run.
7. `SecurityLevels`, `HeaderCodec`, `Frames`, `Messages`, `Provisioning`.
8. Proofs about `HeaderCodec` and `DynamicSecurity`.
9. Proofs about `DataPlane`, its refinement of `SecureTopic` included.
10. Proofs about `Messages`, `Frames` and `Provisioning`.

Next, in this order:

11. ReturnsWhatChanged: which topics a call returns (all that have room, each once),
    apart from their order.
