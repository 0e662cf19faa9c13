----------------------------- MODULE Provisioning -----------------------------
(***************************************************************************)
(* Phases I to V as messages: clients show their certificates and          *)
(* authenticate; a publisher negotiates a level range for a topic, gets    *)
(* the topic's config and publishes frames; a subscriber asks for the      *)
(* topic's key and reads them.                                             *)
(* Each side acts on what it has read out of the bytes the other side has  *)
(* written (Messages), and frames are read by the subscriber's context     *)
(* (Frames).  The order of the calls is that of the protocol flows at the  *)
(* head of phase2_tsa.py, phase3_agreement.py and phase5_retrieval.py and  *)
(* of tests/test_e2e_integration.py.                                       *)
(*                                                                         *)
(* Each party has a link to the TTA with at most one message on it: what a *)
(* bad network does to the handshake and to key retrieval is modelled in   *)
(* Phase1Auth and DataPlane, whose keys and seeds are abstract.            *)
(***************************************************************************)
EXTENDS Frames, Messages

CONSTANTS Topics,         \* topic names, byte strings
          Requests,       \* [priority, level_min, level_max] of TSA requests
          Payloads,       \* byte strings
          FirstEpochs,    \* epoch_id arguments of create_topic_association
          PublisherIds,   \* ids the registry has come to, 1..IdSpan - 2
          KeySize,        \* key_size of derive_subtopic_key, 32
          Validity,       \* of a certificate
          Reason          \* the text of a refusal

ASSUME TopicAssumption == Topics \subseteq Seq(Nat) \ {<<>>}
ASSUME RequestAssumption ==
  Requests \subseteq [priority : Priorities, level_min : Nat, level_max : Nat]
ASSUME TextAssumption == Payloads \subseteq Seq(Nat) /\ Reason \in Seq(Nat)
ASSUME FieldAssumption == /\ FirstEpochs \subseteq 0..EpochSpan - 1
                          /\ PublisherIds \subseteq 1..IdSpan - 1
ASSUME NumberAssumption == KeySize \in Nat /\ Validity \in Nat

VARIABLES certified,  \* certified[id]: the key the TTA took from a certificate
          age,      \* age[c]: of c's certificate on its way, counted from its issue
          phase,    \* phase[c]: how far party c has come
          link,     \* link[c]: the message on its way to or from c, or NoMessage
          sent,     \* sent[c]: the last message written on c's link
          got,      \* got[c]: the last message read from it
          agreed,   \* the TTA's [topic, min, max] of an accepted request, and the
                    \* request as the publisher wrote it (history), or NoTopic
          entry,    \* the registry's entry, or NoTopic
          publisher,   \* DataFrameContext with its counter, or NoTopic
          subscriber,  \* the last accepted KeyResponse, or NoTopic
          frames       \* [frame, payload, counter] of each frame published

vars == <<certified, age, phase, link, sent, got, agreed, entry, publisher, subscriber, frames>>

Parties == {"publisher", "subscriber"}
NoMessage == [kind |-> "none"]
NoTopic == [topic |-> <<>>]

------------------------------------------------------------------------------
\* Keys, nonces, signatures and ciphertexts are byte strings of some length; what
\* Phase I does with their values is modelled in Phase1Auth.  A signature holds
\* the verification key that fits it and the content.
Key == [ca |-> <<81>>, tta |-> <<82, 83>>, publisher |-> <<84, 85, 86>>, subscriber |-> <<87>>]
ClientId == [publisher |-> <<41>>, subscriber |-> <<42, 43>>]
Sign(vk, content) == vk \o content

\* issue_cert, at time 0.
CertificateOf(c) ==
  LET cert == [entity_id |-> ClientId[c], vk_sign |-> Key[c], issuer_id |-> <<91, 92>>,
               not_before |-> 0, not_after |-> Validity, signature |-> <<>>]
  IN [cert EXCEPT !.signature = Sign(Key["ca"], CertificateContent(cert))]

\* A faulty variant of VerifyCert: the last moment does not count.
VerifyCertEarly(cert, now) == /\ cert.not_before <= now /\ now < cert.not_after
                              /\ cert.signature = Sign(Key["ca"], CertificateContent(cert))

\* verify_cert, on what was read.
VerifyCert(cert, now) == /\ cert.not_before <= now /\ now <= cert.not_after
                         /\ cert.signature = Sign(Key["ca"], CertificateContent(cert))

ClientNonce == [i \in 1..NonceSize |-> 10 + i]

RequestContent(req) == req.encapsulation_key \o req.nonce_client \o req.client_id
                         \o <<req.sequence_number>>

\* create_auth_request.
AuthRequest(c) ==
  LET req == [encapsulation_key |-> <<1, 2, 3>>, nonce_client |-> ClientNonce,
              client_id |-> ClientId[c], sequence_number |-> 5, signature |-> <<>>]
  IN [req EXCEPT !.signature = Sign(Key[c], RequestContent(req))]

Transcript(nonceTta, nonceClient, id, sn, ciphertext) ==
  nonceTta \o nonceClient \o id \o <<sn>> \o ciphertext

\* process_auth_request, for a request that verifies.
AuthResponseTo(req) ==
  LET nonce == [i \in 1..NonceSize |-> 20 + i]
  IN [ciphertext |-> <<6, 7>>, nonce_tta |-> nonce, sequence_number |-> 7,
      signature |-> Sign(Key["tta"], Transcript(nonce, req.nonce_client, req.client_id,
                                                7, <<6, 7>>))]

\* process_auth_response, with the client's own nonce and id.
VerifiedByClient(c, resp) ==
  resp.signature = Sign(Key["tta"], Transcript(resp.nonce_tta, ClientNonce, ClientId[c],
                                               resp.sequence_number, resp.ciphertext))

\* A faulty variant of ValidateTSARequest: the wider range wins.
ValidateTSARequestUnion(req) ==
  LET allowed == PriorityLevelRanges[req.priority]
      min == IF req.level_min < allowed.min THEN req.level_min ELSE allowed.min
      max == IF req.level_max > allowed.max THEN req.level_max ELSE allowed.max
  IN IF min > max
     THEN [accepted |-> 0, level_min |-> 0, level_max |-> 0, reason |-> Reason]
     ELSE [accepted |-> 1, level_min |-> min, level_max |-> max, reason |-> <<>>]

\* validate_tsa_request.
ValidateTSARequest(req) ==
  LET allowed == PriorityLevelRanges[req.priority]
      min == IF req.level_min > allowed.min THEN req.level_min ELSE allowed.min
      max == IF req.level_max < allowed.max THEN req.level_max ELSE allowed.max
  IN IF min > max
     THEN [accepted |-> 0, level_min |-> 0, level_max |-> 0, reason |-> Reason]
     ELSE [accepted |-> 1, level_min |-> min, level_max |-> max, reason |-> <<>>]

\* Seeds are drawn per level; derive_subtopic_key and derive_salt are injective.
SeedOf(level) == [i \in 1..KeySize |-> level]
SubtopicKey(seed, epoch) == [i \in 1..KeySize |-> 100 * epoch + seed[i]]
SaltOf(epoch) == [i \in 1..SaltSize |-> 50 + epoch]

\* The config create_topic_association returns.
NewConfig(topic, min, max, level, epoch, id) ==
  LET levels == min..max \ {0}
  IN [topic |-> topic, publisher_id |-> id, epoch_id |-> epoch,
      level_min |-> min, level_max |-> max, current_level |-> level,
      salt_epoch |-> SaltOf(epoch),
      subtopic_keys |-> [l \in levels |-> SubtopicKey(SeedOf(l), epoch)],
      seed_per_level |-> [l \in levels |-> SeedOf(l)]]

\* The answer to a key request: get_subscriber_context knows the topic or not.
\* A refusal has a salt of SaltSize bytes as well (phase5_retrieval.py:73).
KeyResponseTo(topic) ==
  IF entry.topic = topic
  THEN [accepted |-> 1, topic |-> topic, epoch_id |-> entry.epoch_id,
        current_level |-> entry.current_level, level_min |-> entry.level_min,
        level_max |-> entry.level_max,
        subtopic_key |-> entry.subtopic_keys[entry.current_level],
        salt_epoch |-> entry.salt_epoch, reason |-> <<>>]
  ELSE [accepted |-> 0, topic |-> topic, epoch_id |-> 0, current_level |-> 0,
        level_min |-> 0, level_max |-> 0, subtopic_key |-> <<>>,
        salt_epoch |-> [i \in 1..SaltSize |-> 0], reason |-> Reason]

------------------------------------------------------------------------------
Init == /\ certified = [id \in {} |-> <<>>]
        /\ age = [c \in Parties |-> 0]
        /\ phase = [c \in Parties |-> "new"]
        /\ link = [c \in Parties |-> NoMessage]
        /\ sent = [c \in Parties |-> NoMessage] /\ got = sent
        /\ agreed = NoTopic /\ entry = NoTopic
        /\ publisher = NoTopic /\ subscriber = NoTopic
        /\ frames = {}

\* A message of the given kind goes onto c's link; c comes to phase next.
Put(c, kind, wire, m, next) ==
  /\ link' = [link EXCEPT ![c] = [kind |-> kind, wire |-> wire]]
  /\ sent' = [sent EXCEPT ![c] = m]
  /\ phase' = [phase EXCEPT ![c] = next]

\* Message m has been read from c's link.
Taken(c, m) == got' = [got EXCEPT ![c] = m]
Take(c, m) == Taken(c, m) /\ link' = [link EXCEPT ![c] = NoMessage]

UnchangedTopic == UNCHANGED <<agreed, entry, publisher, subscriber, frames>>

\* The client shows the TTA its certificate: process_auth_request wants the key
\* "from certificate" (phase1_auth.py:244) and leaves the rest to its caller.
SendCertificate(c) ==
  /\ phase[c] = "new"
  /\ Put(c, "Certificate", WriteCertificate(CertificateOf(c)), CertificateOf(c), "certifying")
  /\ UnchangedTopic /\ UNCHANGED <<got, certified, age>>

\* The certificate grows old while it is on its way.
Delay(c) ==
  /\ link[c].kind = "Certificate"
  /\ age[c] <= Validity
  /\ age' = [age EXCEPT ![c] = @ + 1]
  /\ UnchangedTopic /\ UNCHANGED <<phase, link, sent, got, certified>>

\* The TTA verifies what it has read and takes the client's key from it; a
\* client that is refused gets another certificate.
CheckCertificate(c) ==
  /\ link[c].kind = "Certificate"
  /\ LET cert == ReadCertificate(link[c].wire)
         valid == VerifyCert(cert, age[c])
     IN /\ Take(c, cert)
        /\ certified' = IF valid
                        THEN [id \in DOMAIN certified \cup {cert.entity_id} |->
                                IF id = cert.entity_id THEN cert.vk_sign ELSE certified[id]]
                        ELSE certified
        /\ phase' = [phase EXCEPT ![c] = IF valid THEN "certified" ELSE "new"]
  /\ age' = [age EXCEPT ![c] = 0]
  /\ UnchangedTopic /\ UNCHANGED sent

SendAuthRequest(c) ==
  /\ phase[c] = "certified"
  /\ Put(c, "AuthRequest", Write(WrittenAuthRequest, AuthRequest(c)), AuthRequest(c),
         "authenticating")
  /\ UnchangedTopic /\ UNCHANGED <<got, certified, age>>

\* The TTA verifies the request with the certified key of the client it names.
AnswerAuthRequest(c) ==
  /\ link[c].kind = "AuthRequest"
  /\ LET req == Read(ParsedAuthRequest, link[c].wire)
         resp == AuthResponseTo(req)
     IN /\ Taken(c, req)
        /\ req.client_id \in DOMAIN certified
        /\ req.signature = Sign(certified[req.client_id], RequestContent(req))
        /\ Put(c, "AuthResponse", Write(WrittenAuthResponse, resp), resp, phase[c])
  /\ UnchangedTopic /\ UNCHANGED <<certified, age>>

TakeAuthResponse(c) ==
  /\ link[c].kind = "AuthResponse"
  /\ LET resp == Read(ParsedAuthResponse, link[c].wire)
     IN /\ VerifiedByClient(c, resp)
        /\ Take(c, resp)
  /\ phase' = [phase EXCEPT ![c] = "connected"]
  /\ UnchangedTopic /\ UNCHANGED <<sent, certified, age>>

------------------------------------------------------------------------------
SendTSARequest(topic, r) ==
  LET req == [topic |-> topic, priority |-> r.priority,
              level_min |-> r.level_min, level_max |-> r.level_max]
  IN /\ phase["publisher"] = "connected"
     /\ Put("publisher", "TSARequest", Write(WrittenTSARequest, req), req, "negotiating")
     /\ UnchangedTopic /\ UNCHANGED <<got, certified, age>>

AnswerTSARequest ==
  /\ link["publisher"].kind = "TSARequest"
  /\ LET req == Read(ParsedTSARequest, link["publisher"].wire)
         resp == ValidateTSARequest(req)
     IN /\ Taken("publisher", req)
        /\ Put("publisher", "TSAResponse", Write(WrittenTSAResponse, resp), resp,
               phase["publisher"])
        /\ agreed' = IF resp.accepted = 1
                     THEN [topic |-> req.topic, min |-> resp.level_min,
                           max |-> resp.level_max, request |-> sent["publisher"]]
                     ELSE agreed
  /\ UNCHANGED <<certified, age, entry, publisher, subscriber, frames>>

\* A publisher that is refused may ask again.
TakeTSAResponse ==
  /\ link["publisher"].kind = "TSAResponse"
  /\ LET resp == Read(ParsedTSAResponse, link["publisher"].wire)
     IN /\ Take("publisher", resp)
        /\ phase' = [phase EXCEPT !["publisher"] =
                       IF resp.accepted = 1 THEN "agreed" ELSE "connected"]
  /\ UnchangedTopic /\ UNCHANGED <<sent, certified, age>>

\* Phase III: create_topic_association, whose entry and config hold the same.
CreateAssociation(level, epoch, id) ==
  LET config == NewConfig(agreed.topic, agreed.min, agreed.max, level, epoch, id)
  IN /\ phase["publisher"] = "agreed"
     /\ entry = NoTopic
     /\ level \in agreed.min..agreed.max
     /\ entry' = config
     /\ Put("publisher", "SubTopicConfig", WriteConfig(config), config, "configuring")
     /\ UNCHANGED <<certified, age, got, agreed, publisher, subscriber, frames>>

\* The DataFrameContext is made from the config, with the current level's key.
TakeConfig ==
  /\ link["publisher"].kind = "SubTopicConfig"
  /\ LET config == ReadConfig(link["publisher"].wire)
     IN /\ Take("publisher", config)
        /\ publisher' = [topic |-> config.topic, id |-> config.publisher_id,
                         epoch |-> config.epoch_id, level |-> config.current_level,
                         min |-> config.level_min, max |-> config.level_max,
                         key |-> config.subtopic_keys[config.current_level],
                         salt |-> config.salt_epoch, counter |-> 0]
  /\ phase' = [phase EXCEPT !["publisher"] = "publishing"]
  /\ UNCHANGED <<certified, age, sent, agreed, entry, subscriber, frames>>

\* A faulty variant of CreateDataFrame: the counter moves after the frame is made.
CreateDataFrameUnchecked(payload) ==
  /\ phase["publisher"] = "publishing"
  /\ publisher.counter <= CounterSpan
  /\ publisher' = [publisher EXCEPT !.counter = @ + 1]
  /\ frames' = frames \cup {[frame |-> FrameFor(payload, publisher, publisher.counter),
                             payload |-> payload, counter |-> publisher.counter]}
  /\ UNCHANGED <<certified, age, phase, link, sent, got, agreed, entry, subscriber>>

\* create_data_frame, unless next_counter raises (modelled in DataPlane).
CreateDataFrame(payload) ==
  /\ phase["publisher"] = "publishing"
  /\ publisher.counter + 1 < CounterSpan
  /\ Usable(publisher.level, publisher.key, publisher.salt)
  /\ publisher' = [publisher EXCEPT !.counter = @ + 1]
  /\ frames' = frames \cup {[frame |-> FrameFor(payload, publisher, publisher.counter),
                             payload |-> payload, counter |-> publisher.counter]}
  /\ UNCHANGED <<certified, age, phase, link, sent, got, agreed, entry, subscriber>>

------------------------------------------------------------------------------
SendKeyRequest(topic) ==
  LET req == [topic |-> topic, subscriber_id |-> ClientId["subscriber"]]
  IN /\ phase["subscriber"] = "connected"
     /\ Put("subscriber", "KeyRequest", Write(WrittenKeyRequest, req), req, "waiting")
     /\ UnchangedTopic /\ UNCHANGED <<got, certified, age>>

AnswerKeyRequest ==
  /\ link["subscriber"].kind = "KeyRequest"
  /\ LET req == Read(ParsedKeyRequest, link["subscriber"].wire)
         resp == KeyResponseTo(req.topic)
     IN /\ Taken("subscriber", req)
        /\ Put("subscriber", "KeyResponse", Write(WrittenKeyResponse, resp), resp, "waiting")
  /\ UnchangedTopic /\ UNCHANGED <<certified, age>>

\* A subscriber that is refused, or has the key, may ask again.
TakeKeyResponse ==
  /\ link["subscriber"].kind = "KeyResponse"
  /\ LET resp == Read(ParsedKeyResponse, link["subscriber"].wire)
     IN /\ Take("subscriber", resp)
        /\ subscriber' = IF resp.accepted = 1 THEN resp ELSE subscriber
  /\ phase' = [phase EXCEPT !["subscriber"] = "connected"]
  /\ UNCHANGED <<certified, age, sent, agreed, entry, publisher, frames>>

Next == \/ \E c \in Parties : SendCertificate(c)
        \/ \E c \in Parties : Delay(c)
        \/ \E c \in Parties : CheckCertificate(c)
        \/ \E c \in Parties : SendAuthRequest(c)
        \/ \E c \in Parties : AnswerAuthRequest(c)
        \/ \E c \in Parties : TakeAuthResponse(c)
        \/ \E t \in Topics, r \in Requests : SendTSARequest(t, r)
        \/ AnswerTSARequest
        \/ TakeTSAResponse
        \/ \E l \in Levels, e \in FirstEpochs, i \in PublisherIds : CreateAssociation(l, e, i)
        \/ TakeConfig
        \/ \E p \in Payloads : CreateDataFrame(p)
        \/ \E t \in Topics : SendKeyRequest(t)
        \/ AnswerKeyRequest
        \/ TakeKeyResponse

Spec == Init /\ [][Next]_vars

------------------------------------------------------------------------------
\* The parties' contexts have their types.
TypeOK ==
  /\ phase \in [Parties -> {"new", "certifying", "certified", "authenticating", "connected", "negotiating", "agreed",
                            "configuring", "publishing", "waiting"}]
  /\ agreed = NoTopic \/ {agreed.min, agreed.max} \subseteq Levels
  /\ publisher = NoTopic \/ /\ publisher.level \in Levels /\ publisher.min \in Levels
                            /\ publisher.id \in 1..IdSpan - 1
                            /\ publisher.epoch \in 0..EpochSpan - 1
                            /\ publisher.counter \in 0..CounterSpan - 1
  /\ subscriber = NoTopic \/ /\ subscriber.current_level \in Levels
                             /\ subscriber.epoch_id \in 0..EpochSpan - 1
  /\ \A f \in frames : f.frame.header.byte1 \in 0..255 /\ f.frame.header.byte2 \in 0..255

\* The levels a request may be granted: those the publisher asked for that the
\* topic's priority allows.
Grantable(req) == {l \in Levels : /\ req.level_min <= l /\ l <= req.level_max
                                  /\ PriorityLevelRanges[req.priority].min <= l
                                  /\ l <= PriorityLevelRanges[req.priority].max}

\* A request is refused only if nothing of it can be granted, and otherwise all
\* that can be granted is agreed; whatever then comes out of the bytes of config,
\* key response and frame headers, every frame and every key in use is of a level
\* the publisher asked for and the priority allows.
RangeHonoured ==
  /\ (link["publisher"].kind = "TSAResponse" /\ sent["publisher"].accepted = 0)
       => Grantable(got["publisher"]) = {}
  /\ agreed # NoTopic =>
       LET levels == Grantable(agreed.request)
       IN /\ agreed.min..agreed.max = levels
          /\ publisher # NoTopic => publisher.level \in levels
          /\ subscriber # NoTopic =>
               /\ subscriber.current_level \in levels
               /\ subscriber.level_min..subscriber.level_max = levels
          /\ \A f \in frames : LET h == Decode(f.frame.header)
                               IN {h.maxLevel, h.minLevel} \subseteq levels

CipherKeyBits == [n \in CipherNames |->
  CASE n = "none" -> 0 [] n = "AES-128-GCM" -> 128
    [] n = "AES-192-GCM" -> 192 [] n = "AES-256-GCM" -> 256]

\* The bits of a header tell the reader what the frame behind them was made with:
\* the level, the hash of hash.py, a cipher with the key size of aead.py and of
\* security_levels.py, and whether the payload is hidden; and the masks of the
\* fields lose nothing of id, counter and epoch, up to the last counter
\* next_counter gives out.
\* In two places this is not what the source says of itself.  The field that is
\* documented as "negotiated maximum security level" (common.py:53) has the level
\* the frame was made at, also below the agreed maximum, and decrypt_data_frame
\* relies on it.  The hash is the one security_levels.py documents (hash_alg) from
\* level 2 on, and another one at level 1.
HeaderDescribesFrame ==
  \A f \in frames :
    LET h == Decode(f.frame.header)
        level == publisher.level
    IN /\ h.maxLevel = level /\ h.minLevel = publisher.min
       /\ <<h.publisherId, h.counter, h.epochId>>
            = <<publisher.id, f.counter, publisher.epoch>>
       /\ h.intConf = HasConfidentiality[level]
       /\ f.payload # <<>> => (h.intConf <=> ~IsPrefix(Plain(f.payload), f.frame.body))
       /\ NameOf(HashIds, h.hashId) = HashParams[level]
       /\ NameOf(HashIds, h.hashId) = HashAlg[level] <=> level >= 2
       /\ CipherKeyBits[NameOf(CipherIds, h.cipherId)] = AesKeyBits[level]
       /\ 8 * AeadKeySizes[level] = AesKeyBits[level]

\* Whoever has the key response of a topic reads every frame published on it,
\* the payload and the header the publisher wrote, at every level the topic may
\* have, although level, nonce, associated data and tag size are taken from the
\* frame itself and the rest from bytes that went through two serializations.
FramesReadable ==
  subscriber.topic # <<>> /\ subscriber.topic = publisher.topic =>
    \A f \in frames :
      LET read == DecryptDataFrame(f.frame, subscriber.subtopic_key, subscriber.salt_epoch)
      IN read.ok /\ read.plaintext = f.payload /\ read.header.counter = f.counter

\* A certificate the CA has issued binds the client to its key at the TTA as long
\* as it is valid, up to its last moment and no longer, although what is verified
\* is put together again from the fields that were cut out of it.
CertificatesHonoured ==
  [][\A c \in Parties :
       link[c].kind = "Certificate" /\ link'[c] = NoMessage =>
         IF age[c] <= Validity
         THEN phase'[c] = "certified" /\ certified'[ClientId[c]] = Key[c]
         ELSE phase'[c] = "new" /\ certified' = certified]_vars

\* What one side reads out of the bytes is what the other side wrote: no length,
\* order or offset differs between a serialize and its deserialize.
MessagesArrive == [][\A c \in Parties : got'[c] # got[c] => got'[c] = sent[c]]_vars
=============================================================================
