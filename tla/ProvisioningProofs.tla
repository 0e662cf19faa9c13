-------------------------- MODULE ProvisioningProofs --------------------------
(***************************************************************************)
(* The properties of Provisioning, for any topics, requests, payloads,     *)
(* first epochs, publisher ids, sizes and spans.                           *)
(*                                                                         *)
(* The proof goes along the way of a byte.  A frame is cut where it was    *)
(* put together, so whoever has the context's key and salt reads it        *)
(* (FrameRead).  Every message the parties write is of a type that arrives *)
(* (WireProofs), and so every step acts on what the other side wrote       *)
(* (Arrives).  The inductive invariant IInv says which message may be on a *)
(* link in which phase, that it is written as its kind is written, and     *)
(* that entry, publisher, subscriber and frames are made of one another:   *)
(* what is agreed is what can be granted, the entry is a config of that    *)
(* range, the publisher's context and the subscriber's key response are    *)
(* the entry's, and every frame was made with the publisher's context.     *)
(***************************************************************************)
EXTENDS Provisioning, WireProofs

------------------------------------------------------------------------------
(* Frames.                                                                 *)

\* What was put first and what was put behind it are cut apart again.
LEMMA CutApart ==
  ASSUME NEW S, NEW a \in Seq(S), NEW b \in Seq(S)
  PROVE  /\ a \o b \in Seq(S) /\ Len(a \o b) = Len(a) + Len(b)
         /\ Len(a) \in Nat /\ Len(b) \in Nat
         /\ Len(a) >= 1 => (a \o b)[1] = a[1]
         /\ SubSeq(a \o b, 1, Len(a \o b) - Len(b)) = a
         /\ SubSeq(a \o b, Len(a \o b) - Len(b) + 1, Len(a \o b)) = b
<1>1. a \o b \in Seq(S) /\ Len(a \o b) = Len(a) + Len(b) /\ Len(a) \in Nat /\ Len(b) \in Nat
  BY ConcatProperties
<1>2. Len(a \o b) - Len(b) = Len(a)
  BY <1>1
<1>3. SubSeq(a \o b, 1, Len(a)) = a
  <2>1. CASE Len(a) = 0
    <3>1. a = <<>>
      BY <2>1
    <3>2. 0 < 1 /\ 0 \in Int /\ 1 \in Int
      OBVIOUS
    <3> QED
      BY <1>1, <2>1, <3>1, <3>2, SubSeqEmpty
  <2>2. CASE Len(a) > 0
    <3>1. 1 \in 1..Len(a) /\ Len(a) \in 1..Len(a)
      BY <1>1, <2>2
    <3> QED
      BY <3>1, SubSeqOfConcat1, SubSeqFull
  <2> QED
    BY <1>1, <2>1, <2>2
<1>4. SubSeq(a \o b, Len(a) + 1, Len(a \o b)) = b
  <2>1. CASE Len(b) = 0
    <3>1. b = <<>>
      BY <2>1
    <3>2. Len(a \o b) < Len(a) + 1 /\ Len(a \o b) \in Int /\ Len(a) + 1 \in Int
      BY <1>1, <2>1
    <3> QED
      BY <1>1, <3>1, <3>2, SubSeqEmpty
  <2>2. CASE Len(b) > 0
    <3> DEFINE p == Len(a) + 1
               q == Len(a) + Len(b)
    <3>1. p \in Len(a) + 1..Len(a) + Len(b) /\ q \in Len(a) + 1..Len(a) + Len(b)
      BY <1>1, <2>2
    <3>2. SubSeq(a \o b, p, q) = SubSeq(b, p - Len(a), q - Len(a))
      BY <3>1, SubSeqOfConcat2
    <3>3. p - Len(a) = 1 /\ q - Len(a) = Len(b)
      BY <1>1
    <3> QED
      BY <1>1, <3>2, <3>3, SubSeqFull
  <2> QED
    BY <1>1, <2>1, <2>2
<1>5. ASSUME Len(a) >= 1 PROVE (a \o b)[1] = a[1]
  <2>1. 1 \in 1..Len(a) + Len(b) /\ 1 <= Len(a)
    BY <1>1, <1>5
  <2> QED
    BY <2>1, ConcatProperties
<1> QED
  BY <1>1, <1>2, <1>3, <1>4, <1>5

LEMMA Wider ==
  ASSUME NEW S, NEW T, S \subseteq T, NEW s \in Seq(S)
  PROVE  s \in Seq(T)
<1>1. s \in [1..Len(s) -> S] /\ Len(s) \in Nat
  OBVIOUS
<1>2. s \in [1..Len(s) -> T]
  BY <1>1
<1> QED
  BY <1>1, <1>2

\* Bytes made under a key, a nonce and so on are as many, and are the same bytes.
LEMMA UnderKeeps ==
  ASSUME NEW bytes \in ByteStrings, NEW made
  PROVE  /\ Under(bytes, made) \in Seq([byte : Nat, made : {made}])
         /\ Len(Under(bytes, made)) = Len(bytes)
         /\ Bytes(Under(bytes, made)) = bytes
<1>1. DOMAIN bytes = 1..Len(bytes) /\ Len(bytes) \in Nat /\ bytes \in [1..Len(bytes) -> Nat]
  BY DEF ByteStrings
<1> DEFINE u == Under(bytes, made)
<1>2. u = [i \in 1..Len(bytes) |-> [byte |-> bytes[i], made |-> made]]
  BY <1>1 DEF Under
<1>3. u \in [1..Len(bytes) -> [byte : Nat, made : {made}]]
  BY <1>1, <1>2
<1>4. u \in Seq([byte : Nat, made : {made}]) /\ Len(u) = Len(bytes)
  <2> DEFINE T == [byte : Nat, made : {made}]
             n == Len(bytes)
  <2>1. u \in [1..n -> T] /\ n \in Nat
    BY <1>1, <1>3
  <2> HIDE DEF u, T, n
  <2>2. u \in Seq(T) /\ Len(u) = n
    BY <2>1
  <2> QED
    BY <2>2 DEF T, n
<1>5. Bytes(u) = bytes
  <2>1. Bytes(u) = [i \in 1..Len(bytes) |-> u[i].byte]
    BY <1>2 DEF Bytes
  <2>2. \A i \in 1..Len(bytes) : u[i].byte = bytes[i]
    BY <1>2
  <2>3. bytes = [i \in 1..Len(bytes) |-> bytes[i]]
    BY <1>1
  <2> HIDE DEF u
  <2> QED
    BY <2>1, <2>2, <2>3
<1> QED
  BY <1>4, <1>5

LEMMA TagHasItsSize ==
  ASSUME NEW size \in Nat, NEW made
  PROVE  /\ Tag(size, made) \in Seq([byte : Nat, made : {made}])
         /\ Len(Tag(size, made)) = size
<1> DEFINE t == [i \in 1..size |-> i]
<1>1. t \in ByteStrings /\ Len(t) = size
  <2>1. t \in [1..size -> Nat]
    OBVIOUS
  <2> QED
    BY <2>1 DEF ByteStrings
<1>2. Tag(size, made) = Under(t, made)
  BY DEF Tag
<1> HIDE DEF t
<1> QED
  BY <1>1, <1>2, UnderKeeps

\* A body of a plain or an encrypted payload and a tag is cut apart again, and the
\* payload's bytes are those it was made from.
LEMMA BodyParsed ==
  ASSUME NEW bytes \in ByteStrings, NEW made, NEW size \in Nat, NEW by
  PROVE  LET body == Under(bytes, made) \o Tag(size, by)
         IN /\ SubSeq(body, 1, Len(body) - size) = Under(bytes, made)
            /\ SubSeq(body, Len(body) - size + 1, Len(body)) = Tag(size, by)
            /\ Bytes(SubSeq(body, 1, Len(body) - size)) = bytes
<1> DEFINE u == Under(bytes, made)
           t == Tag(size, by)
           S == [byte : Nat, made : {made, by}]
<1>1. u \in Seq(S) /\ t \in Seq(S) /\ Len(t) = size /\ Bytes(u) = bytes
  <2>1. /\ u \in Seq([byte : Nat, made : {made}]) /\ Bytes(u) = bytes
        /\ t \in Seq([byte : Nat, made : {by}]) /\ Len(t) = size
    BY UnderKeeps, TagHasItsSize
  <2> HIDE DEF u, t
  <2>2. u \in Seq(S) /\ t \in Seq(S)
    <3> DEFINE U == [byte : Nat, made : {made}]
               T == [byte : Nat, made : {by}]
    <3>1. U \subseteq S /\ T \subseteq S
      OBVIOUS
    <3>2. u \in Seq(U) /\ t \in Seq(T)
      BY <2>1
    <3> HIDE DEF S, U, T
    <3> QED
      BY <3>1, <3>2, Wider
  <2> QED
    BY <2>1, <2>2
<1> HIDE DEF u, t, S
<1>2. /\ SubSeq(u \o t, 1, Len(u \o t) - Len(t)) = u
      /\ SubSeq(u \o t, Len(u \o t) - Len(t) + 1, Len(u \o t)) = t
  BY <1>1, CutApart
<1>3. /\ SubSeq(u \o t, 1, Len(u \o t) - size) = u
      /\ SubSeq(u \o t, Len(u \o t) - size + 1, Len(u \o t)) = t
  BY <1>1, <1>2
<1> QED
  BY <1>1, <1>3 DEF u, t

\* A context that next_counter and create_data_frame can use.
Publishable(ctx) ==
  /\ ctx.level \in Levels /\ ctx.level >= 1 /\ ctx.min \in Levels
  /\ ctx.id \in 0..IdSpan - 1 /\ ctx.epoch \in 0..EpochSpan - 1
  /\ Usable(ctx.level, ctx.key, ctx.salt)

\* The header of a context's frame.
LEMMA FrameHeader ==
  ASSUME NEW ctx, Publishable(ctx), NEW counter \in 0..CounterSpan - 1, NEW payload
  PROVE  /\ FrameFor(payload, ctx, counter).header
              = EncodeForLevel(ctx.level, ctx.min, ctx.id, counter, ctx.epoch)
         /\ LET h == Decode(FrameFor(payload, ctx, counter).header)
            IN /\ h.maxLevel = ctx.level /\ h.minLevel = ctx.min
               /\ h.publisherId = ctx.id /\ h.counter = counter /\ h.epochId = ctx.epoch
               /\ h.intConf = HasConfidentiality[ctx.level]
               /\ NameOf(HashIds, h.hashId) = HashParams[ctx.level]
               /\ NameOf(CipherIds, h.cipherId) = LevelToCipher[ctx.level]
<1> DEFINE e == EncodeForLevel(ctx.level, ctx.min, ctx.id, counter, ctx.epoch)
           h == Decode(e)
<1>1. FrameFor(payload, ctx, counter).header = e
  BY DEF FrameFor
<1>2. /\ ctx.level \in Levels /\ ctx.level >= 1 /\ ctx.min \in Levels
      /\ ctx.id \in 0..IdSpan - 1 /\ ctx.epoch \in 0..EpochSpan - 1
  BY DEF Publishable
<1>3. /\ h.maxLevel = ctx.level /\ h.minLevel = ctx.min
      /\ <<h.publisherId, h.counter, h.epochId>> = <<ctx.id, counter, ctx.epoch>>
      /\ h.intConf = HasConfidentiality[ctx.level]
      /\ NameOf(HashIds, h.hashId) = HashParams[ctx.level]
      /\ NameOf(CipherIds, h.cipherId) = LevelToCipher[ctx.level]
  BY <1>2, HeaderOfLevel
<1> HIDE DEF e
<1> QED
  BY <1>1, <1>3 DEF e

\* Whoever has the key and the salt of the context a frame was made with reads the
\* payload that was put in, for every level a topic may have, every size of tag,
\* key and salt, and every counter next_counter gives out (create_data_frame,
\* parse_data_frame and decrypt_data_frame).
THEOREM FrameRead ==
  ASSUME NEW ctx, Publishable(ctx), NEW counter \in 0..CounterSpan - 1,
         NEW payload \in ByteStrings
  PROVE  LET read == DecryptDataFrame(FrameFor(payload, ctx, counter), ctx.key, ctx.salt)
         IN read.ok /\ read.plaintext = payload /\ read.header.counter = counter
<1> DEFINE frame == FrameFor(payload, ctx, counter)
           h == Decode(frame.header)
           parsed == ParseDataFrame(frame)
           size == TagSize(ctx.level)
           body == frame.body
           cut == Len(body) - size
           bytes == Bytes(parsed.payload)
           read == DecryptDataFrame(frame, ctx.key, ctx.salt)
<1>1. /\ h.maxLevel = ctx.level
      /\ h.publisherId = ctx.id /\ h.counter = counter /\ h.epochId = ctx.epoch
  BY FrameHeader
<1>2. ctx.level \in Levels /\ ctx.level >= 1 /\ Usable(ctx.level, ctx.key, ctx.salt)
  BY DEF Publishable
<1>3. /\ parsed.header = h /\ parsed.payload = SubSeq(body, 1, cut)
      /\ parsed.tag = SubSeq(body, cut + 1, Len(body))
  <2> HIDE DEF frame
  <2> QED
    BY <1>1 DEF ParseDataFrame
<1>4. KmacTagSize \in Nat /\ GcmTagSize \in Nat
  BY SizeAssumption
<1>5. /\ read.header = h /\ read.plaintext = bytes
  <2> HIDE DEF frame
  <2> QED
    BY <1>3 DEF DecryptDataFrame
<1>6. CASE ctx.level = 1
  <2> DEFINE tag == Kmac(ctx.key, MacInput(payload, ctx.id, counter, ctx.epoch))
             none == Made(<<>>, <<>>, <<>>, <<>>)
             made == Made(ctx.key, <<>>, <<>>, MacInput(payload, ctx.id, counter, ctx.epoch))
  <2>1. body = Under(payload, none) \o Tag(KmacTagSize, made)
    <3>1. body = Plain(payload) \o tag
      BY <1>6 DEF FrameFor
    <3> QED
      BY <3>1 DEF Plain, Kmac
  <2>2. size = KmacTagSize
    BY <1>6 DEF TagSize
  <2>3. tag = Tag(KmacTagSize, made)
    BY DEF Kmac
  <2>4. read.ok = (parsed.tag = Kmac(ctx.key, MacInput(bytes, h.publisherId, h.counter, h.epochId)))
    <3> HIDE DEF frame, h, parsed
    <3>1. parsed.header.maxLevel = 1
      BY <1>1, <1>3, <1>6
    <3> QED
      BY <1>3, <3>1 DEF DecryptDataFrame, parsed
  <2> HIDE DEF frame, made, none, parsed, h, read
  <2>5. parsed.tag = tag /\ bytes = payload
    <3>1. /\ SubSeq(body, Len(body) - KmacTagSize + 1, Len(body)) = Tag(KmacTagSize, made)
          /\ Bytes(SubSeq(body, 1, Len(body) - KmacTagSize)) = payload
      BY <1>4, <2>1, BodyParsed
    <3> QED
      BY <1>3, <2>2, <2>3, <3>1
  <2> QED
    BY <1>1, <1>5, <2>4, <2>5 DEF frame, h, read
<1>7. CASE ctx.level # 1
  <2> DEFINE k == AeadKey(ctx.level, ctx.key)
             iv == DataIv(ctx.salt, ctx.id, counter)
             aad == HeaderBytes(frame.header)
             made == Made(k, iv, <<>>, <<>>)
             by == Made(k, iv, aad, payload)
  <2>1. ctx.level # 0 /\ ctx.level # 1
    BY <1>2, <1>7
  <2>2. body = GcmEncrypt(k, iv, payload, aad)
    <3>1. frame.header = EncodeForLevel(ctx.level, ctx.min, ctx.id, counter, ctx.epoch)
      BY FrameHeader
    <3> QED
      BY <2>1, <3>1 DEF FrameFor
  <2>3. size = GcmTagSize
    BY <2>1 DEF TagSize
  <2>4. body = Under(payload, made) \o Tag(GcmTagSize, by)
    <3> HIDE DEF frame, k, iv
    <3> QED
      BY <2>2 DEF GcmEncrypt
  <2>5. read.ok = (/\ Usable(ctx.level, ctx.key, ctx.salt)
                   /\ parsed.payload \o parsed.tag =
                        GcmEncrypt(k, DataIv(ctx.salt, h.publisherId, h.counter), bytes, aad))
    <3> HIDE DEF frame, h, parsed
    <3>1. parsed.header.maxLevel = ctx.level
      BY <1>1, <1>3
    <3> QED
      BY <1>3, <2>1, <3>1 DEF DecryptDataFrame, parsed
  <2> HIDE DEF frame, made, by, parsed, h, read
  <2>6. /\ parsed.payload = Under(payload, made) /\ parsed.tag = Tag(GcmTagSize, by)
        /\ bytes = payload
    <3>1. /\ SubSeq(body, 1, Len(body) - GcmTagSize) = Under(payload, made)
          /\ SubSeq(body, Len(body) - GcmTagSize + 1, Len(body)) = Tag(GcmTagSize, by)
          /\ Bytes(SubSeq(body, 1, Len(body) - GcmTagSize)) = payload
      BY <1>4, <2>4, BodyParsed
    <3> QED
      BY <1>3, <2>3, <3>1
  <2> HIDE DEF body, k, bytes
  <2>7. parsed.payload \o parsed.tag
          = GcmEncrypt(k, DataIv(ctx.salt, h.publisherId, h.counter), bytes, aad)
    BY <1>1, <2>2, <2>4, <2>6
  <2> QED
    BY <1>1, <1>2, <1>5, <2>5, <2>6, <2>7 DEF frame, h, read
<1> QED
  BY <1>6, <1>7

\* A payload of one byte at least can be seen at the head of the body if and only
\* if its level has no confidentiality.
LEMMA PayloadShown ==
  ASSUME NEW ctx, Publishable(ctx), ctx.salt \in ByteStrings,
         NEW counter \in 0..CounterSpan - 1,
         NEW payload \in ByteStrings, payload # <<>>
  PROVE  IsPrefix(Plain(payload), FrameFor(payload, ctx, counter).body) <=> ctx.level = 1
<1> DEFINE body == FrameFor(payload, ctx, counter).body
           plain == Plain(payload)
           none == Made(<<>>, <<>>, <<>>, <<>>)
<1>1. ctx.level \in Levels /\ ctx.level >= 1 /\ ctx.id \in 0..IdSpan - 1
  BY DEF Publishable
<1>2. /\ plain = Under(payload, none) /\ Len(plain) = Len(payload)
      /\ plain \in Seq([byte : Nat, made : {none}])
  BY UnderKeeps DEF Plain
<1>3. KmacTagSize \in Nat /\ GcmTagSize \in Nat
  BY SizeAssumption
<1>4. Len(payload) \in Nat /\ Len(payload) >= 1 /\ 1 \in DOMAIN payload
  BY DEF ByteStrings
<1>5. CASE ctx.level = 1
  <2> DEFINE by == Made(ctx.key, <<>>, <<>>, MacInput(payload, ctx.id, counter, ctx.epoch))
             tag == Tag(KmacTagSize, by)
             S == [byte : Nat, made : {none, by}]
  <2>1. body = plain \o tag
    BY <1>5 DEF FrameFor, Kmac
  <2>2. plain \in Seq(S) /\ tag \in Seq(S)
    <3> DEFINE U == [byte : Nat, made : {none}]
               T == [byte : Nat, made : {by}]
    <3>1. U \subseteq S /\ T \subseteq S
      OBVIOUS
    <3>2. plain \in Seq(U) /\ tag \in Seq(T)
      BY <1>2, <1>3, TagHasItsSize
    <3> HIDE DEF S, U, T, plain, tag
    <3> QED
      BY <3>1, <3>2, Wider
  <2> HIDE DEF S, plain, tag, body
  <2>3. /\ Len(plain \o tag) = Len(plain) + Len(tag) /\ Len(plain) \in Nat /\ Len(tag) \in Nat
        /\ SubSeq(plain \o tag, 1, Len(plain \o tag) - Len(tag)) = plain
    BY <2>2, CutApart
  <2>4. Len(plain \o tag) - Len(tag) = Len(plain)
    BY <2>3
  <2>5. SubSeq(plain, 1, Len(plain)) = plain
    BY <2>2, SubSeqFull
  <2>6. IsPrefix(plain, body)
    BY <2>1, <2>3, <2>4, <2>5 DEF IsPrefix
  <2> QED
    BY <1>5, <2>6 DEF plain, body
<1>6. CASE ctx.level # 1
  <2> DEFINE k == AeadKey(ctx.level, ctx.key)
             iv == DataIv(ctx.salt, ctx.id, counter)
             aad == HeaderBytes(FrameFor(payload, ctx, counter).header)
             made == Made(k, iv, <<>>, <<>>)
             by == Made(k, iv, aad, payload)
             cipher == Under(payload, made)
             tag == Tag(GcmTagSize, by)
             S == [byte : Nat, made : {made, by}]
  <2>1. body = cipher \o tag
    <3>1. FrameFor(payload, ctx, counter).header
             = EncodeForLevel(ctx.level, ctx.min, ctx.id, counter, ctx.epoch)
      BY FrameHeader
    <3>2. ctx.level # 0 /\ ctx.level # 1
      BY <1>1, <1>6
    <3>3. body = GcmEncrypt(k, iv, payload, aad)
      BY <3>1, <3>2 DEF FrameFor
    <3> HIDE DEF body, k, iv, aad
    <3> QED
      BY <3>3 DEF GcmEncrypt
  <2>2. cipher \in Seq(S) /\ tag \in Seq(S) /\ Len(cipher) = Len(payload)
    <3> DEFINE U == [byte : Nat, made : {made}]
               T == [byte : Nat, made : {by}]
    <3>1. U \subseteq S /\ T \subseteq S
      OBVIOUS
    <3>2. cipher \in Seq(U) /\ tag \in Seq(T) /\ Len(cipher) = Len(payload)
      BY <1>3, UnderKeeps, TagHasItsSize
    <3> HIDE DEF S, U, T, cipher, tag
    <3> QED
      BY <3>1, <3>2, Wider
  <2>3. cipher[1].made = made /\ plain[1].made = none
    BY <1>2, <1>4 DEF Under
  <2>4. made # none
    <3>1. Len(iv) = Len(ctx.salt) + 2 /\ Len(ctx.salt) \in Nat
      <4> DEFINE n == <<ctx.id % IdSpan, counter % CounterSpan>>
      <4>1. ctx.id % IdSpan \in Nat /\ counter % CounterSpan \in Nat
        BY <1>1, SizeAssumption
      <4>2. n \in ByteStrings /\ Len(n) = 2
        BY <4>1, Numbers
      <4> HIDE DEF n
      <4>3. Len(ctx.salt \o n) = Len(ctx.salt) + Len(n) /\ Len(ctx.salt) \in Nat
        BY <4>2, Appended
      <4> QED
        BY <4>2, <4>3 DEF n, DataIv
    <3>2. iv # <<>>
      <4> HIDE DEF iv
      <4>1. Len(iv) # Len(<<>>)
        BY <3>1
      <4> QED
        BY <4>1
    <3> HIDE DEF iv
    <3> QED
      BY <3>2 DEF Made
  <2> HIDE DEF S, plain, cipher, tag, body, made, by, none
  <2>5. /\ body \in Seq(S) /\ body[1] = cipher[1] /\ Len(body) \in Nat /\ Len(body) >= Len(payload)
    <3>1. /\ cipher \o tag \in Seq(S) /\ Len(cipher \o tag) = Len(cipher) + Len(tag)
          /\ Len(cipher) \in Nat /\ Len(tag) \in Nat
      BY <2>2, CutApart
    <3>3. (cipher \o tag)[1] = cipher[1]
      BY <1>4, <2>2, CutApart
    <3> QED
      BY <1>4, <2>1, <2>2, <3>1, <3>3
  <2>6. ASSUME IsPrefix(plain, body) PROVE FALSE
    <3>1. SubSeq(plain, 1, Len(plain)) = SubSeq(body, 1, Len(plain))
      BY <2>6 DEF IsPrefix
    <3>2. SubSeq(plain, 1, Len(plain))[1] = plain[1]
      BY <1>2, SubSeqFull
    <3>3. SubSeq(body, 1, Len(plain))[1] = body[1]
      BY <1>2, <1>4, <2>5
    <3> QED
      BY <2>3, <2>4, <2>5, <3>1, <3>2, <3>3
  <2> QED
    BY <1>6, <2>6 DEF plain, body
<1> QED
  BY <1>5, <1>6

\* The cipher of a level has the level's key size.
LEMMA CipherOfLevel ==
  ASSUME NEW level \in Levels, level >= 1
  PROVE  CipherKeyBits[LevelToCipher[level]] = AesKeyBits[level]
<1>1. level \in {1, 2, 3, 4, 5}
  BY DEF Levels
<1>2. /\ LevelToCipher[1] = "none" /\ LevelToCipher[2] = "AES-128-GCM"
      /\ LevelToCipher[3] = "AES-192-GCM" /\ LevelToCipher[4] = "AES-256-GCM"
      /\ LevelToCipher[5] = "AES-256-GCM"
  BY DEF Levels, ByLevel, LevelToCipher
<1>3. /\ AesKeyBits[1] = 0 /\ AesKeyBits[2] = 128 /\ AesKeyBits[3] = 192
      /\ AesKeyBits[4] = 256 /\ AesKeyBits[5] = 256
  BY DEF Levels, ByLevel, AesKeyBits
<1>4. /\ CipherKeyBits["none"] = 0 /\ CipherKeyBits["AES-128-GCM"] = 128
      /\ CipherKeyBits["AES-192-GCM"] = 192 /\ CipherKeyBits["AES-256-GCM"] = 256
  BY DEF CipherKeyBits, CipherNames
<1> QED
  BY <1>1, <1>2, <1>3, <1>4

------------------------------------------------------------------------------
(* The inductive invariant.                                                *)

Phases == {"new", "certifying", "certified", "authenticating", "connected", "negotiating",
           "agreed", "configuring", "publishing", "waiting"}

ShapeOK ==
  /\ phase \in [Parties -> Phases] /\ age \in [Parties -> Nat]
  /\ link = [c \in Parties |-> link[c]] /\ sent = [c \in Parties |-> sent[c]]
  /\ got = [c \in Parties |-> got[c]]

\* A message on a link is in the phase of its kind, it is written as its kind is
\* written, and it is one that a party writes in that phase.
Written(c, kind, stage, wire) ==
  link[c].kind = kind => phase[c] = stage /\ link[c].wire = wire

LinkOK(c) ==
  /\ Written(c, "Certificate", "certifying", WriteCertificate(sent[c]))
  /\ Written(c, "AuthRequest", "authenticating", Write(WrittenAuthRequest, sent[c]))
  /\ Written(c, "AuthResponse", "authenticating", Write(WrittenAuthResponse, sent[c]))
  /\ Written(c, "TSARequest", "negotiating", Write(WrittenTSARequest, sent[c]))
  /\ Written(c, "TSAResponse", "negotiating", Write(WrittenTSAResponse, sent[c]))
  /\ Written(c, "SubTopicConfig", "configuring", WriteConfig(sent[c]))
  /\ Written(c, "KeyRequest", "waiting", Write(WrittenKeyRequest, sent[c]))
  /\ Written(c, "KeyResponse", "waiting", Write(WrittenKeyResponse, sent[c]))

SentOK(c) ==
  /\ link[c].kind = "Certificate" => sent[c] = CertificateOf(c)
  /\ link[c].kind = "AuthRequest" => sent[c] \in AuthRequests
  /\ link[c].kind = "AuthResponse" => sent[c] \in AuthResponses
  /\ link[c].kind = "TSARequest" => /\ sent[c] \in TSARequests /\ sent[c].topic # <<>>
                                    /\ sent[c].priority \in Priorities
  /\ link[c].kind = "TSAResponse" => /\ sent[c] \in TSAResponses
                                     /\ sent[c].accepted = 0 => Grantable(got[c]) = {}
  /\ link[c].kind = "SubTopicConfig" => entry # NoTopic /\ sent[c] = entry
  /\ link[c].kind = "KeyRequest" => sent[c] \in KeyRequests /\ sent[c].topic # <<>>
  /\ link[c].kind = "KeyResponse" =>
       /\ sent[c] \in KeyResponses
       /\ sent[c].accepted = 1 => entry # NoTopic /\ sent[c] = KeyResponseTo(entry.topic)

\* How far the publisher has come.
Granted == \/ phase["publisher"] \in {"agreed", "configuring", "publishing"}
           \/ link["publisher"].kind = "TSAResponse" /\ sent["publisher"].accepted = 1
Associated == phase["publisher"] \in {"configuring", "publishing"}
Publishing == phase["publisher"] = "publishing"

\* What is agreed is what can be granted: one level or two on end, from 1 on.
RangeOK ==
  /\ agreed.topic \in ByteStrings /\ agreed.topic # <<>>
  /\ agreed.min \in 1..5 /\ agreed.max \in agreed.min..agreed.min + 1 /\ agreed.max <= 5
  /\ agreed.min..agreed.max = Grantable(agreed.request)

EntryOK ==
  \E level \in agreed.min..agreed.max, epoch \in FirstEpochs, id \in PublisherIds :
    entry = NewConfig(agreed.topic, agreed.min, agreed.max, level, epoch, id)

\* The publisher's context has the entry's fields.
ContextOf(config, counter) ==
  [topic |-> config.topic, id |-> config.publisher_id, epoch |-> config.epoch_id,
   level |-> config.current_level, min |-> config.level_min, max |-> config.level_max,
   key |-> config.subtopic_keys[config.current_level], salt |-> config.salt_epoch,
   counter |-> counter]

PublisherOK == /\ publisher.counter \in 0..CounterSpan - 1
               /\ publisher = ContextOf(entry, publisher.counter)

SubscriberOK == entry # NoTopic /\ subscriber = KeyResponseTo(entry.topic)

FrameOK(f) == /\ publisher # NoTopic
              /\ f.payload \in ByteStrings /\ f.counter \in 0..CounterSpan - 1
              /\ f.frame = FrameFor(f.payload, publisher, f.counter)
              /\ Usable(publisher.level, publisher.key, publisher.salt)

TopicOK ==
  /\ (agreed # NoTopic) <=> Granted
  /\ (entry # NoTopic) <=> Associated
  /\ (publisher # NoTopic) <=> Publishing
  /\ agreed # NoTopic => RangeOK
  /\ entry # NoTopic => EntryOK
  /\ publisher # NoTopic => PublisherOK
  /\ subscriber # NoTopic => SubscriberOK
  /\ \A f \in frames : FrameOK(f)

IInv == /\ ShapeOK
        /\ \A c \in Parties : LinkOK(c) /\ SentOK(c)
        /\ TopicOK

------------------------------------------------------------------------------
(* What the parties write.                                                 *)

\* Numbers in a row are a byte string.
LEMMA OfNumbers ==
  ASSUME NEW n \in Nat, NEW s \in [1..n -> Nat]
  PROVE  s \in ByteStrings /\ Len(s) = n
BY DEF ByteStrings

\* The keys and ids of the parties are byte strings.
LEMMA KeysAndIds ==
  /\ \A c \in Parties : /\ Key[c] \in ByteStrings /\ ClientId[c] \in ByteStrings
  /\ Key["ca"] \in ByteStrings /\ Key["tta"] \in ByteStrings
<1>1. /\ Key["ca"] = <<81>> /\ Key["tta"] = <<82, 83>> /\ Key["publisher"] = <<84, 85, 86>>
      /\ Key["subscriber"] = <<87>>
      /\ ClientId["publisher"] = <<41>> /\ ClientId["subscriber"] = <<42, 43>>
  BY DEF Key, ClientId
<1>2. /\ <<81>> \in ByteStrings /\ <<82, 83>> \in ByteStrings /\ <<84, 85, 86>> \in ByteStrings
      /\ <<87>> \in ByteStrings /\ <<41>> \in ByteStrings /\ <<42, 43>> \in ByteStrings
  BY DEF ByteStrings
<1>3. Key["publisher"] \in ByteStrings /\ ClientId["publisher"] \in ByteStrings
  BY <1>1, <1>2
<1>4. Key["subscriber"] \in ByteStrings /\ ClientId["subscriber"] \in ByteStrings
  BY <1>1, <1>2
<1>5. Key["ca"] \in ByteStrings /\ Key["tta"] \in ByteStrings
  BY <1>1, <1>2
<1> QED
  BY <1>3, <1>4, <1>5 DEF Parties

\* A certificate that is issued is of its type, and verifies as long as it is valid.
LEMMA CertificateTyped ==
  ASSUME NEW c \in Parties
  PROVE  /\ CertificateOf(c) \in Certificates
         /\ CertificateOf(c).entity_id = ClientId[c] /\ CertificateOf(c).vk_sign = Key[c]
         /\ \A now \in Nat : VerifyCert(CertificateOf(c), now) <=> now <= Validity
<1> DEFINE cert == [entity_id |-> ClientId[c], vk_sign |-> Key[c], issuer_id |-> <<91, 92>>,
                    not_before |-> 0, not_after |-> Validity, signature |-> <<>>]
           signed == [cert EXCEPT !.signature = Sign(Key["ca"], CertificateContent(cert))]
<1>1. CertificateOf(c) = signed
  BY DEF CertificateOf
<1>2. cert \in Certificates
  <2>1. /\ ClientId[c] \in ByteStrings /\ Key[c] \in ByteStrings /\ Validity \in Nat
        /\ <<91, 92>> \in ByteStrings /\ <<>> \in ByteStrings
    BY KeysAndIds, NumberAssumption DEF ByteStrings
  <2> QED
    BY <2>1 DEF Certificates
<1>3. Sign(Key["ca"], CertificateContent(cert)) \in ByteStrings
  <2> HIDE DEF cert
  <2>1. CertificateContent(cert) \in ByteStrings
    BY <1>2, ContentCuts
  <2> QED
    BY <2>1, KeysAndIds, Appended DEF Sign
<1>4. /\ signed.entity_id = ClientId[c] /\ signed.vk_sign = Key[c]
      /\ signed.not_before = 0 /\ signed.not_after = Validity
      /\ signed.signature = Sign(Key["ca"], CertificateContent(cert))
      /\ CertificateContent(signed) = CertificateContent(cert)
  BY DEF CertificateContent
<1>5. signed \in Certificates
  <2> HIDE DEF cert
  <2> QED
    BY <1>2, <1>3 DEF Certificates
<1>6. ASSUME NEW now \in Nat
      PROVE  VerifyCert(signed, now) <=> now <= Validity
  <2> HIDE DEF cert, signed
  <2> QED
    BY <1>4 DEF VerifyCert
<1> HIDE DEF signed
<1> QED
  BY <1>1, <1>4, <1>5, <1>6

\* A nonce has its size.
LEMMA NoncesOf ==
  \A k \in Nat : [i \in 1..NonceSize |-> k + i] \in Nonces
<1> TAKE k \in Nat
<1>1. NonceSize \in Nat
  BY SizeAssumption
<1>2. [i \in 1..NonceSize |-> k + i] \in [1..NonceSize -> Nat]
  OBVIOUS
<1> DEFINE s == [i \in 1..NonceSize |-> k + i]
<1>3. s \in [1..NonceSize -> Nat]
  BY <1>2
<1> HIDE DEF s
<1>4. s \in Seq(Nat) /\ Len(s) = NonceSize
  BY <1>1, <1>3
<1> QED
  BY <1>4 DEF Nonces, ByteStrings, s

\* What create_auth_request makes is of its type.
LEMMA AuthRequestTyped ==
  ASSUME NEW c \in Parties
  PROVE  AuthRequest(c) \in AuthRequests
<1> DEFINE req == [encapsulation_key |-> <<1, 2, 3>>, nonce_client |-> ClientNonce,
                   client_id |-> ClientId[c], sequence_number |-> 5, signature |-> <<>>]
           signature == Sign(Key[c], RequestContent(req))
<1>1. ClientNonce \in Nonces /\ ClientNonce \in ByteStrings
  BY NoncesOf DEF ClientNonce, Nonces
<1>2. /\ <<1, 2, 3>> \in ByteStrings /\ <<5>> \in ByteStrings /\ <<>> \in ByteStrings
      /\ Key[c] \in ByteStrings /\ ClientId[c] \in ByteStrings
  BY KeysAndIds DEF ByteStrings
<1>3. signature \in ByteStrings
  <2> DEFINE one == <<1, 2, 3>>
             five == <<5>>
             content == ((one \o ClientNonce) \o ClientId[c]) \o five
  <2>1. RequestContent(req) = content
    BY DEF RequestContent
  <2>2. one \in ByteStrings /\ five \in ByteStrings
    BY <1>2
  <2> HIDE DEF one, five, req
  <2>3. one \o ClientNonce \in ByteStrings
    BY <1>1, <2>2, Appended
  <2>4. (one \o ClientNonce) \o ClientId[c] \in ByteStrings
    BY <1>2, <2>3, Appended
  <2>5. content \in ByteStrings
    BY <2>2, <2>4, Appended
  <2> HIDE DEF content
  <2> QED
    BY <1>2, <2>1, <2>5, Appended DEF Sign
<1>4. req \in AuthRequests
  BY <1>1, <1>2 DEF AuthRequests
<1>5. AuthRequest(c) = [req EXCEPT !.signature = signature]
  BY DEF AuthRequest
<1> HIDE DEF req, signature
<1> QED
  BY <1>3, <1>4, <1>5 DEF AuthRequests

\* What process_auth_request makes of a request is of its type.
LEMMA AuthResponseTyped ==
  ASSUME NEW req \in AuthRequests
  PROVE  AuthResponseTo(req) \in AuthResponses
<1> DEFINE nonce == [i \in 1..NonceSize |-> 20 + i]
           signature == Sign(Key["tta"], Transcript(nonce, req.nonce_client, req.client_id,
                                                    7, <<6, 7>>))
<1>1. nonce \in Nonces /\ nonce \in ByteStrings
  BY NoncesOf DEF Nonces
<1>2. /\ <<6, 7>> \in ByteStrings /\ <<7>> \in ByteStrings /\ Key["tta"] \in ByteStrings
      /\ req.nonce_client \in ByteStrings /\ req.client_id \in ByteStrings
  BY KeysAndIds DEF ByteStrings, AuthRequests, Nonces
<1>3. signature \in ByteStrings
  <2> DEFINE seven == <<7>>
             text == <<6, 7>>
             a == nonce \o req.nonce_client
             b == a \o req.client_id
             d == b \o seven
             content == d \o text
  <2>1. Transcript(nonce, req.nonce_client, req.client_id, 7, <<6, 7>>) = content
    BY DEF Transcript
  <2>2. seven \in ByteStrings /\ text \in ByteStrings
    BY <1>2
  <2> HIDE DEF seven, text, nonce
  <2>3. a \in ByteStrings
    BY <1>1, <1>2, Appended
  <2> HIDE DEF a
  <2>4. b \in ByteStrings
    BY <1>2, <2>3, Appended
  <2> HIDE DEF b
  <2>5. d \in ByteStrings
    BY <2>2, <2>4, Appended
  <2> HIDE DEF d
  <2>6. content \in ByteStrings
    BY <2>2, <2>5, Appended
  <2> HIDE DEF content
  <2> QED
    BY <1>2, <2>1, <2>6, Appended DEF Sign
<1>4. AuthResponseTo(req) = [ciphertext |-> <<6, 7>>, nonce_tta |-> nonce,
                             sequence_number |-> 7, signature |-> signature]
  BY DEF AuthResponseTo
<1> HIDE DEF nonce, signature
<1> QED
  BY <1>1, <1>2, <1>3, <1>4 DEF AuthResponses

------------------------------------------------------------------------------
\* validate_tsa_request grants what can be granted, one level or two.
LEMMA Validated ==
  ASSUME NEW req \in TSARequests, req.priority \in Priorities
  PROVE  /\ ValidateTSARequest(req) \in TSAResponses
         /\ ValidateTSARequest(req).accepted = 0 => Grantable(req) = {}
         /\ ValidateTSARequest(req).accepted = 1 =>
              /\ ValidateTSARequest(req).level_min \in 1..5
              /\ ValidateTSARequest(req).level_max
                   \in ValidateTSARequest(req).level_min..ValidateTSARequest(req).level_min + 1
              /\ ValidateTSARequest(req).level_max <= 5
              /\ ValidateTSARequest(req).level_min..ValidateTSARequest(req).level_max
                   = Grantable(req)
<1> DEFINE allowed == PriorityLevelRanges[req.priority]
           min == IF req.level_min > allowed.min THEN req.level_min ELSE allowed.min
           max == IF req.level_max < allowed.max THEN req.level_max ELSE allowed.max
           resp == ValidateTSARequest(req)
<1>1. req.level_min \in Nat /\ req.level_max \in Nat
  BY DEF TSARequests
<1>2. allowed.min \in 1..4 /\ allowed.max = allowed.min + 1
  <2>1. /\ PriorityLevelRanges[1] = [min |-> 1, max |-> 2]
        /\ PriorityLevelRanges[2] = [min |-> 2, max |-> 3]
        /\ PriorityLevelRanges[3] = [min |-> 3, max |-> 4]
        /\ PriorityLevelRanges[4] = [min |-> 4, max |-> 5]
    BY DEF PriorityLevelRanges
  <2>2. req.priority \in {1, 2, 3, 4}
    BY DEF Priorities
  <2> QED
    BY <2>1, <2>2
<1>3. resp = IF min > max
             THEN [accepted |-> 0, level_min |-> 0, level_max |-> 0, reason |-> Reason]
             ELSE [accepted |-> 1, level_min |-> min, level_max |-> max, reason |-> <<>>]
  BY DEF ValidateTSARequest
<1> HIDE DEF allowed
<1>4. /\ min \in Nat /\ max \in Nat /\ min >= allowed.min /\ max <= allowed.max
      /\ min >= req.level_min /\ max <= req.level_max
      /\ \A l \in Nat : (/\ req.level_min <= l /\ l <= req.level_max
                         /\ allowed.min <= l /\ l <= allowed.max) <=> min <= l /\ l <= max
  BY <1>1, <1>2
<1>5. Grantable(req) = {l \in Levels : min <= l /\ l <= max}
  <2>1. Grantable(req) = {l \in Levels : /\ req.level_min <= l /\ l <= req.level_max
                                         /\ allowed.min <= l /\ l <= allowed.max}
    BY DEF Grantable, allowed
  <2>2. \A l \in Levels : l \in Nat
    BY DEF Levels
  <2> HIDE DEF min, max
  <2> QED
    BY <1>4, <2>1, <2>2
<1> HIDE DEF min, max, resp
<1>6. Reason \in ByteStrings /\ <<>> \in ByteStrings
  BY TextAssumption DEF ByteStrings
<1>7. CASE min > max
  <2>1. resp = [accepted |-> 0, level_min |-> 0, level_max |-> 0, reason |-> Reason]
    BY <1>3, <1>7
  <2>2. resp \in TSAResponses /\ resp.accepted = 0
    BY <1>6, <2>1 DEF TSAResponses
  <2>3. Grantable(req) = {}
    BY <1>4, <1>5, <1>7 DEF Levels
  <2> QED
    BY <2>2, <2>3 DEF resp
<1>8. CASE ~(min > max)
  <2>1. resp = [accepted |-> 1, level_min |-> min, level_max |-> max, reason |-> <<>>]
    BY <1>3, <1>8
  <2>2. resp \in TSAResponses
    BY <1>4, <1>6, <2>1 DEF TSAResponses
  <2>3. min \in 1..5 /\ max \in min..min + 1 /\ max <= 5
    BY <1>2, <1>4, <1>8
  <2>4. min..max = Grantable(req)
    BY <1>5, <2>3 DEF Levels
  <2>5. resp.accepted = 1 /\ resp.level_min = min /\ resp.level_max = max
    BY <2>1
  <2> QED
    BY <2>2, <2>3, <2>4, <2>5 DEF resp
<1> QED
  BY <1>7, <1>8

------------------------------------------------------------------------------
\* The config of an association, and what is made of it.
LEMMA ConfigTyped ==
  ASSUME NEW topic \in ByteStrings, NEW min \in 1..5, NEW max \in min..min + 1, max <= 5,
         NEW level \in min..max, NEW epoch \in FirstEpochs, NEW id \in PublisherIds
  PROVE  LET config == NewConfig(topic, min, max, level, epoch, id)
         IN /\ config \in Configs
            /\ config.topic = topic /\ config.publisher_id = id /\ config.epoch_id = epoch
            /\ config.level_min = min /\ config.level_max = max
            /\ config.current_level = level
            /\ config.subtopic_keys[level] \in ByteStrings
<1> DEFINE levels == min..max \ {0}
           keys == [l \in levels |-> SubtopicKey(SeedOf(l), epoch)]
           seeds == [l \in levels |-> SeedOf(l)]
           config == NewConfig(topic, min, max, level, epoch, id)
           n == max - min + 1
<1>1. /\ min \in Nat /\ n \in 1..2 /\ min..max = min..min + n - 1 /\ levels = min..max
      /\ level \in levels /\ level \in Nat /\ max \in Nat
  OBVIOUS
<1>2. epoch \in Nat /\ id \in Nat
  BY FieldAssumption, SizeAssumption
<1>3. KeySize \in Nat
  BY NumberAssumption
<1>4. ASSUME NEW l \in levels
      PROVE  SeedOf(l) \in ByteStrings /\ SubtopicKey(SeedOf(l), epoch) \in ByteStrings
  <2>1. l \in Nat
    OBVIOUS
  <2> DEFINE s == [i \in 1..KeySize |-> l]
             k == [i \in 1..KeySize |-> 100 * epoch + s[i]]
  <2>2. s \in [1..KeySize -> Nat]
    BY <2>1
  <2>3. SeedOf(l) = s /\ SubtopicKey(SeedOf(l), epoch) = k
    BY DEF SeedOf, SubtopicKey
  <2> HIDE DEF s
  <2>4. k \in [1..KeySize -> Nat]
    <3>1. \A i \in 1..KeySize : 100 * epoch + s[i] \in Nat
      BY <1>2, <2>2
    <3> QED
      BY <3>1
  <2> HIDE DEF k
  <2>5. s \in ByteStrings /\ k \in ByteStrings
    BY <1>3, <2>2, <2>4, OfNumbers
  <2> QED
    BY <2>3, <2>5
<1>5. keys \in Tables(min, n) /\ seeds \in Tables(min, n)
  <2> HIDE DEF n
  <2>1. min..min + n - 1 = levels
    BY <1>1
  <2> HIDE DEF levels
  <2>2. keys \in [levels -> ByteStrings] /\ seeds \in [levels -> ByteStrings]
    BY <1>4
  <2> HIDE DEF keys, seeds
  <2> QED
    BY <2>1, <2>2 DEF Tables
<1>6. keys \in LevelTables /\ seeds \in LevelTables
  <2> HIDE DEF keys, seeds, n
  <2> QED
    BY <1>1, <1>5 DEF LevelTables
<1>7. SaltOf(epoch) \in Salts
  <2> DEFINE s == [i \in 1..SaltSize |-> 50 + epoch]
  <2>1. s \in [1..SaltSize -> Nat] /\ SaltSize \in Nat
    BY <1>2, SizeAssumption
  <2> HIDE DEF s
  <2>2. s \in Seq(Nat) /\ Len(s) = SaltSize
    BY <2>1
  <2> QED
    BY <2>2 DEF SaltOf, Salts, ByteStrings, s
<1>8. config = [topic |-> topic, publisher_id |-> id, epoch_id |-> epoch,
                level_min |-> min, level_max |-> max, current_level |-> level,
                salt_epoch |-> SaltOf(epoch), subtopic_keys |-> keys, seed_per_level |-> seeds]
  BY DEF NewConfig
<1>9. keys[level] \in ByteStrings
  BY <1>1, <1>4
<1> HIDE DEF keys, seeds, config
<1>10. config \in Configs
  BY <1>1, <1>2, <1>6, <1>7, <1>8 DEF Configs
<1> QED
  BY <1>8, <1>9, <1>10 DEF config

\* What is known of the entry when there is one.
LEMMA EntryTyped ==
  ASSUME RangeOK, EntryOK
  PROVE  /\ entry \in Configs /\ entry.topic = agreed.topic
         /\ entry.level_min = agreed.min /\ entry.level_max = agreed.max
         /\ entry.current_level \in agreed.min..agreed.max
         /\ entry.epoch_id \in FirstEpochs /\ entry.publisher_id \in PublisherIds
         /\ entry.subtopic_keys[entry.current_level] \in ByteStrings
<1>1. PICK level \in agreed.min..agreed.max, epoch \in FirstEpochs, id \in PublisherIds :
        entry = NewConfig(agreed.topic, agreed.min, agreed.max, level, epoch, id)
  BY DEF EntryOK
<1>2. /\ agreed.topic \in ByteStrings /\ agreed.min \in 1..5
      /\ agreed.max \in agreed.min..agreed.min + 1 /\ agreed.max <= 5
  BY DEF RangeOK
<1> DEFINE topic == agreed.topic
           min == agreed.min
           max == agreed.max
           config == NewConfig(topic, min, max, level, epoch, id)
<1>3. /\ topic \in ByteStrings /\ min \in 1..5 /\ max \in min..min + 1 /\ max <= 5
      /\ level \in min..max /\ entry = config
  BY <1>1, <1>2
<1> HIDE DEF topic, min, max
<1>4. /\ config \in Configs
      /\ config.topic = topic /\ config.publisher_id = id /\ config.epoch_id = epoch
      /\ config.level_min = min /\ config.level_max = max
      /\ config.current_level = level
      /\ config.subtopic_keys[level] \in ByteStrings
  BY <1>3, ConfigTyped
<1> HIDE DEF config
<1> QED
  BY <1>3, <1>4 DEF topic, min, max

\* A key request for a topic that has a name is answered with the entry, or not.
LEMMA KeyResponseTyped ==
  ASSUME NEW topic \in ByteStrings, topic # <<>>,
         entry # NoTopic => RangeOK /\ EntryOK
  PROVE  /\ KeyResponseTo(topic) \in KeyResponses
         /\ KeyResponseTo(topic).accepted = 1
              => entry # NoTopic /\ KeyResponseTo(topic) = KeyResponseTo(entry.topic)
         /\ KeyResponseTo(topic).accepted = 1 => topic = entry.topic
<1>1. CASE entry.topic = topic
  <2>1. entry # NoTopic
    BY <1>1 DEF NoTopic
  <2>2. entry \in Configs /\ entry.subtopic_keys[entry.current_level] \in ByteStrings
    BY <2>1, EntryTyped
  <2>3. KeyResponseTo(topic) =
          [accepted |-> 1, topic |-> topic, epoch_id |-> entry.epoch_id,
           current_level |-> entry.current_level, level_min |-> entry.level_min,
           level_max |-> entry.level_max,
           subtopic_key |-> entry.subtopic_keys[entry.current_level],
           salt_epoch |-> entry.salt_epoch, reason |-> <<>>]
    BY <1>1 DEF KeyResponseTo
  <2>4. <<>> \in ByteStrings
    BY DEF ByteStrings
  <2>5. KeyResponseTo(topic) \in KeyResponses
    BY <2>2, <2>3, <2>4 DEF KeyResponses, Configs
  <2> QED
    BY <1>1, <2>1, <2>5
<1>2. CASE entry.topic # topic
  <2> DEFINE s == [i \in 1..SaltSize |-> 0]
  <2>1. KeyResponseTo(topic) =
          [accepted |-> 0, topic |-> topic, epoch_id |-> 0, current_level |-> 0,
           level_min |-> 0, level_max |-> 0, subtopic_key |-> <<>>,
           salt_epoch |-> s, reason |-> Reason]
    BY <1>2 DEF KeyResponseTo
  <2>2. <<>> \in ByteStrings /\ Reason \in ByteStrings
    BY TextAssumption DEF ByteStrings
  <2>3. s \in [1..SaltSize -> Nat] /\ SaltSize \in Nat
    BY SizeAssumption
  <2> HIDE DEF s
  <2>4. s \in Salts
    <3>1. s \in Seq(Nat) /\ Len(s) = SaltSize
      BY <2>3
    <3> QED
      BY <3>1 DEF Salts, ByteStrings
  <2>5. KeyResponseTo(topic) \in KeyResponses /\ KeyResponseTo(topic).accepted = 0
    BY <2>1, <2>2, <2>4 DEF KeyResponses
  <2> QED
    BY <2>5
<1> QED
  BY <1>1, <1>2

------------------------------------------------------------------------------
(* Reading a link.                                                         *)

\* Whatever message is on a link, it is read as it was written.
LEMMA Arrives ==
  ASSUME NEW c \in Parties, LinkOK(c), SentOK(c), TopicOK
  PROVE  /\ link[c].kind = "Certificate" => ReadCertificate(link[c].wire) = sent[c]
         /\ link[c].kind = "AuthRequest" => Read(ParsedAuthRequest, link[c].wire) = sent[c]
         /\ link[c].kind = "AuthResponse" => Read(ParsedAuthResponse, link[c].wire) = sent[c]
         /\ link[c].kind = "TSARequest" => Read(ParsedTSARequest, link[c].wire) = sent[c]
         /\ link[c].kind = "TSAResponse" => Read(ParsedTSAResponse, link[c].wire) = sent[c]
         /\ link[c].kind = "SubTopicConfig" => ReadConfig(link[c].wire) = sent[c]
         /\ link[c].kind = "KeyRequest" => Read(ParsedKeyRequest, link[c].wire) = sent[c]
         /\ link[c].kind = "KeyResponse" => Read(ParsedKeyResponse, link[c].wire) = sent[c]
<1>1. ASSUME link[c].kind = "Certificate" PROVE ReadCertificate(link[c].wire) = sent[c]
  <2>1. link[c].wire = WriteCertificate(sent[c]) /\ sent[c] = CertificateOf(c)
    BY <1>1 DEF LinkOK, SentOK, Written
  <2> QED
    BY <2>1, CertificateTyped, CertificateArrives
<1>2. ASSUME link[c].kind = "AuthRequest" PROVE Read(ParsedAuthRequest, link[c].wire) = sent[c]
  <2>1. link[c].wire = Write(WrittenAuthRequest, sent[c]) /\ sent[c] \in AuthRequests
    BY <1>2 DEF LinkOK, SentOK, Written
  <2> QED
    BY <2>1, AuthRequestArrives
<1>3. ASSUME link[c].kind = "AuthResponse" PROVE Read(ParsedAuthResponse, link[c].wire) = sent[c]
  <2>1. link[c].wire = Write(WrittenAuthResponse, sent[c]) /\ sent[c] \in AuthResponses
    BY <1>3 DEF LinkOK, SentOK, Written
  <2> QED
    BY <2>1, AuthResponseArrives
<1>4. ASSUME link[c].kind = "TSARequest" PROVE Read(ParsedTSARequest, link[c].wire) = sent[c]
  <2>1. link[c].wire = Write(WrittenTSARequest, sent[c]) /\ sent[c] \in TSARequests
    BY <1>4 DEF LinkOK, SentOK, Written
  <2> QED
    BY <2>1, TSARequestArrives
<1>5. ASSUME link[c].kind = "TSAResponse" PROVE Read(ParsedTSAResponse, link[c].wire) = sent[c]
  <2>1. link[c].wire = Write(WrittenTSAResponse, sent[c]) /\ sent[c] \in TSAResponses
    BY <1>5 DEF LinkOK, SentOK, Written
  <2> QED
    BY <2>1, TSAResponseArrives
<1>6. ASSUME link[c].kind = "SubTopicConfig" PROVE ReadConfig(link[c].wire) = sent[c]
  <2>1. link[c].wire = WriteConfig(sent[c]) /\ sent[c] = entry /\ entry # NoTopic
    BY <1>6 DEF LinkOK, SentOK, Written
  <2>2. RangeOK /\ EntryOK
    BY <2>1 DEF TopicOK, Granted, Associated
  <2> QED
    BY <2>1, <2>2, EntryTyped, ConfigArrives
<1>7. ASSUME link[c].kind = "KeyRequest" PROVE Read(ParsedKeyRequest, link[c].wire) = sent[c]
  <2>1. link[c].wire = Write(WrittenKeyRequest, sent[c]) /\ sent[c] \in KeyRequests
    BY <1>7 DEF LinkOK, SentOK, Written
  <2> QED
    BY <2>1, KeyRequestArrives
<1>8. ASSUME link[c].kind = "KeyResponse" PROVE Read(ParsedKeyResponse, link[c].wire) = sent[c]
  <2>1. link[c].wire = Write(WrittenKeyResponse, sent[c]) /\ sent[c] \in KeyResponses
    BY <1>8 DEF LinkOK, SentOK, Written
  <2> QED
    BY <2>1, KeyResponseArrives
<1> QED
  BY <1>1, <1>2, <1>3, <1>4, <1>5, <1>6, <1>7, <1>8

------------------------------------------------------------------------------
(* What Put and Take leave alone.                                          *)

\* Nothing happens on the other party's link.
Others(c) == \A d \in Parties \ {c} :
  link'[d] = link[d] /\ sent'[d] = sent[d] /\ got'[d] = got[d] /\ phase'[d] = phase[d]

Shaped == /\ phase' \in [Parties -> Phases]
          /\ link' = [d \in Parties |-> link'[d]] /\ sent' = [d \in Parties |-> sent'[d]]
          /\ got' = [d \in Parties |-> got'[d]]

\* Putting a message on a link, after none was read.
LEMMA PutDoes ==
  ASSUME ShapeOK, NEW c \in Parties, NEW kind, NEW wire, NEW m, NEW next \in Phases,
         Put(c, kind, wire, m, next), got' = got
  PROVE  /\ Shaped /\ Others(c)
         /\ link'[c] = [kind |-> kind, wire |-> wire] /\ sent'[c] = m /\ phase'[c] = next
         /\ got'[c] = got[c]
BY DEF Put, ShapeOK, Shaped, Others

\* Putting a message on a link, after one was read from it.
LEMMA TakenPutDoes ==
  ASSUME ShapeOK, NEW c \in Parties, NEW kind, NEW wire, NEW m, NEW next \in Phases, NEW r,
         Put(c, kind, wire, m, next), Taken(c, r)
  PROVE  /\ Shaped /\ Others(c)
         /\ link'[c] = [kind |-> kind, wire |-> wire] /\ sent'[c] = m /\ phase'[c] = next
         /\ got'[c] = r
BY DEF Put, Taken, ShapeOK, Shaped, Others

\* Reading a message from a link that stays empty.
LEMMA TakeDoes ==
  ASSUME ShapeOK, NEW c \in Parties, NEW next \in Phases, NEW r,
         Take(c, r), phase' = [phase EXCEPT ![c] = next], sent' = sent
  PROVE  /\ Shaped /\ Others(c)
         /\ link'[c] = NoMessage /\ sent'[c] = sent[c] /\ phase'[c] = next
         /\ got'[c] = r
BY DEF Take, Taken, ShapeOK, Shaped, Others

\* A link on which nothing happens stays as it should be.
LEMMA LinkKept ==
  ASSUME NEW c \in Parties, LinkOK(c), SentOK(c), entry' = entry,
         link'[c] = link[c], sent'[c] = sent[c], got'[c] = got[c], phase'[c] = phase[c]
  PROVE  LinkOK(c)' /\ SentOK(c)'
<1>1. LinkOK(c)'
  BY DEF LinkOK, Written
<1>2. SentOK(c)'
  BY DEF SentOK, KeyResponseTo
<1> QED
  BY <1>1, <1>2

\* So do all links but the one on which something happens.
LEMMA OthersKept ==
  ASSUME NEW c \in Parties, Others(c), entry' = entry,
         \A d \in Parties : LinkOK(d) /\ SentOK(d), LinkOK(c)', SentOK(c)'
  PROVE  \A d \in Parties : LinkOK(d)' /\ SentOK(d)'
<1>1. ASSUME NEW d \in Parties, d # c
      PROVE  LinkOK(d)' /\ SentOK(d)'
  BY <1>1, LinkKept DEF Others
<1> QED
  BY <1>1

\* Nothing has to be said of an empty link.
LEMMA LinkEmptied ==
  ASSUME NEW c \in Parties, link'[c] = NoMessage
  PROVE  LinkOK(c)' /\ SentOK(c)'
<1>1. link'[c].kind = "none"
  BY DEF NoMessage
<1>2. LinkOK(c)'
  BY <1>1 DEF LinkOK, Written
<1>3. SentOK(c)'
  BY <1>1 DEF SentOK
<1> QED
  BY <1>2, <1>3

\* The phases in which the publisher has no topic yet.
Early == {"new", "certifying", "certified", "authenticating", "connected", "waiting"}

\* How far the publisher has come does not change in the early phases.
LEMMA FlagsKept ==
  ASSUME NEW c \in Parties, LinkOK(c), Others(c), phase[c] \in Early,
         phase'[c] \in Early \cup {"negotiating"},
         link'[c].kind # "TSAResponse"
  PROVE  (Granted' <=> Granted) /\ (Associated' <=> Associated) /\ (Publishing' <=> Publishing)
<1>1. CASE c = "publisher"
  <2>1. link[c].kind # "TSAResponse"
    BY DEF LinkOK, Written, Early
  <2> QED
    BY <1>1, <2>1 DEF Granted, Associated, Publishing, Early
<1>2. CASE c # "publisher"
  <2>1. "publisher" \in Parties \ {c}
    BY <1>2 DEF Parties
  <2> QED
    BY <2>1 DEF Granted, Associated, Publishing, Others
<1> QED
  BY <1>1, <1>2

\* What is known of the topic stays true while the topic is left alone.
LEMMA TopicKept ==
  ASSUME TopicOK, UnchangedTopic,
         (Granted' <=> Granted) /\ (Associated' <=> Associated) /\ (Publishing' <=> Publishing)
  PROVE  TopicOK'
<1>1. /\ agreed' = agreed /\ entry' = entry /\ publisher' = publisher
      /\ subscriber' = subscriber /\ frames' = frames
  BY DEF UnchangedTopic
<1>2. RangeOK' = RangeOK /\ EntryOK' = EntryOK /\ PublisherOK' = PublisherOK
      /\ SubscriberOK' = SubscriberOK
  BY <1>1 DEF RangeOK, EntryOK, PublisherOK, SubscriberOK, KeyResponseTo
<1>3. (\A f \in frames : FrameOK(f)) => (\A f \in frames : FrameOK(f))'
  BY <1>1 DEF FrameOK
<1> QED
  BY <1>1, <1>2, <1>3 DEF TopicOK

------------------------------------------------------------------------------
(* Each step keeps the invariant.                                          *)

\* At first nothing is on a link and nothing is agreed.
LEMMA InvInit == Init => IInv
<1> SUFFICES ASSUME Init PROVE IInv
  OBVIOUS
<1> USE DEF Init
<1>1. ShapeOK
  BY DEF ShapeOK, Phases
<1>2. \A c \in Parties : link[c].kind = "none" /\ phase[c] = "new"
  BY DEF NoMessage
<1>3. \A c \in Parties : LinkOK(c) /\ SentOK(c)
  BY <1>2 DEF LinkOK, SentOK, Written
<1>4. TopicOK
  BY <1>2 DEF TopicOK, Granted, Associated, Publishing, Parties
<1> QED
  BY <1>1, <1>3, <1>4 DEF IInv

\* What CertificatesHonoured and MessagesArrive say of a step.
StepOK ==
  /\ \A c \in Parties : got'[c] # got[c] => got'[c] = sent[c]
  /\ \A c \in Parties :
       link[c].kind = "Certificate" /\ link'[c] = NoMessage =>
         IF age[c] <= Validity
         THEN phase'[c] = "certified" /\ certified'[ClientId[c]] = Key[c]
         ELSE phase'[c] = "new" /\ certified' = certified

\* A step that takes no certificate from its link.
LEMMA NoCertificateTaken ==
  ASSUME NEW c \in Parties, Others(c), got'[c] = got[c] \/ got'[c] = sent[c],
         link[c].kind # "Certificate" \/ link'[c].kind # "none"
  PROVE  StepOK
<1>1. NoMessage.kind = "none"
  BY DEF NoMessage
<1>2. ASSUME NEW d \in Parties
      PROVE  /\ got'[d] # got[d] => got'[d] = sent[d]
             /\ ~(link[d].kind = "Certificate" /\ link'[d] = NoMessage)
  BY <1>1 DEF Others
<1> QED
  BY <1>2 DEF StepOK

\* A step of a party that has no topic in hand: what is left to show is that the
\* new message on its link is one of its kind.
LEMMA EarlyStep ==
  ASSUME IInv, NEW c \in Parties, Shaped, Others(c), UnchangedTopic, age' \in [Parties -> Nat],
         phase[c] \in Early, phase'[c] \in Early \cup {"negotiating"},
         link'[c].kind # "TSAResponse",
         LinkOK(c)', SentOK(c)'
  PROVE  IInv'
<1>1. TopicOK'
  <2>1. (Granted' <=> Granted) /\ (Associated' <=> Associated) /\ (Publishing' <=> Publishing)
    BY FlagsKept DEF IInv
  <2> QED
    BY <2>1, TopicKept DEF IInv
<1>2. \A d \in Parties : LinkOK(d)' /\ SentOK(d)'
  <2>1. entry' = entry /\ \A d \in Parties : LinkOK(d) /\ SentOK(d)
    BY DEF IInv, UnchangedTopic
  <2> QED
    BY <2>1, OthersKept
<1>3. ShapeOK'
  BY DEF ShapeOK, Shaped
<1> QED
  BY <1>1, <1>2, <1>3 DEF IInv

\* A certificate is sent as it was issued.
LEMMA SendCertificateInv ==
  ASSUME IInv, NEW c \in Parties, SendCertificate(c)
  PROVE  IInv' /\ StepOK
<1>1. /\ Shaped /\ Others(c) /\ sent'[c] = CertificateOf(c) /\ phase'[c] = "certifying"
      /\ link'[c] = [kind |-> "Certificate", wire |-> WriteCertificate(CertificateOf(c))]
      /\ got'[c] = got[c]
  BY PutDoes DEF SendCertificate, IInv, Phases
<1>2. LinkOK(c)' /\ SentOK(c)'
  BY <1>1 DEF LinkOK, SentOK, Written, CertificateOf
<1>3. IInv'
  BY <1>1, <1>2, EarlyStep DEF SendCertificate, Early, IInv, ShapeOK
<1> QED
  BY <1>1, <1>3, NoCertificateTaken

\* Only an age changes.
LEMMA DelayInv ==
  ASSUME IInv, NEW c \in Parties, Delay(c)
  PROVE  IInv' /\ StepOK
<1>1. /\ UnchangedTopic /\ age' \in [Parties -> Nat]
      /\ phase' = phase /\ link' = link /\ sent' = sent /\ got' = got
  BY DEF Delay, IInv, ShapeOK
<1>2. ShapeOK'
  BY <1>1 DEF IInv, ShapeOK
<1>3. \A d \in Parties : LinkOK(d)' /\ SentOK(d)'
  BY <1>1, LinkKept DEF IInv, UnchangedTopic
<1>4. TopicOK'
  BY <1>1, TopicKept DEF IInv, Granted, Associated, Publishing
<1>5. StepOK
  BY <1>1, NoCertificateTaken DEF Delay, Others
<1> QED
  BY <1>2, <1>3, <1>4, <1>5 DEF IInv

\* What CheckCertificate does with the certificate it has read.
LEMMA CertificateChecked ==
  ASSUME IInv, NEW c \in Parties, CheckCertificate(c)
  PROVE  /\ Shaped /\ Others(c) /\ phase[c] = "certifying" /\ link'[c] = NoMessage
         /\ got'[c] = sent[c]
         /\ age[c] <= Validity => /\ phase'[c] = "certified"
                                  /\ certified'[ClientId[c]] = Key[c]
         /\ ~(age[c] <= Validity) => phase'[c] = "new" /\ certified' = certified
<1> DEFINE cert == CertificateOf(c)
           next == IF VerifyCert(cert, age[c]) THEN "certified" ELSE "new"
<1>1. link[c].kind = "Certificate" /\ ReadCertificate(link[c].wire) = sent[c] /\ sent[c] = cert
      /\ phase[c] = "certifying"
  BY Arrives DEF CheckCertificate, IInv, SentOK, LinkOK, Written
<1>2. /\ Take(c, cert) /\ phase' = [phase EXCEPT ![c] = next] /\ sent' = sent
      /\ certified' = IF VerifyCert(cert, age[c])
                      THEN [id \in DOMAIN certified \cup {cert.entity_id} |->
                              IF id = cert.entity_id THEN cert.vk_sign ELSE certified[id]]
                      ELSE certified
  BY <1>1 DEF CheckCertificate
<1>3. next \in Phases
  BY DEF Phases
<1>4. /\ cert.entity_id = ClientId[c] /\ cert.vk_sign = Key[c] /\ age[c] \in Nat
      /\ VerifyCert(cert, age[c]) <=> age[c] <= Validity
  BY CertificateTyped DEF IInv, ShapeOK
<1> HIDE DEF cert
<1>5. Shaped /\ Others(c) /\ link'[c] = NoMessage /\ phase'[c] = next /\ got'[c] = cert
  <2> HIDE DEF next
  <2> QED
    BY <1>2, <1>3, TakeDoes DEF IInv
<1> QED
  BY <1>1, <1>2, <1>4, <1>5

\* The link is empty afterwards and the topic is left alone.
LEMMA CheckCertificateInv ==
  ASSUME IInv, NEW c \in Parties, CheckCertificate(c)
  PROVE  IInv' /\ StepOK
<1>1. /\ Shaped /\ Others(c) /\ phase[c] = "certifying" /\ link'[c] = NoMessage
      /\ phase'[c] \in {"certified", "new"}
  BY CertificateChecked
<1>2. UnchangedTopic /\ age' \in [Parties -> Nat]
  BY DEF CheckCertificate, IInv, ShapeOK
<1>3. IInv'
  BY <1>1, <1>2, LinkEmptied, EarlyStep DEF Early, NoMessage
<1>4. StepOK
  <2>1. ASSUME NEW d \in Parties, d # c
        PROVE  /\ got'[d] # got[d] => got'[d] = sent[d]
               /\ ~(link[d].kind = "Certificate" /\ link'[d] = NoMessage)
    BY <1>1, <2>1 DEF Others, NoMessage
  <2>2. /\ got'[c] = sent[c]
        /\ IF age[c] <= Validity
           THEN phase'[c] = "certified" /\ certified'[ClientId[c]] = Key[c]
           ELSE phase'[c] = "new" /\ certified' = certified
    BY CertificateChecked
  <2> QED
    BY <2>1, <2>2 DEF StepOK
<1> QED
  BY <1>3, <1>4

\* The request is of its type.
LEMMA SendAuthRequestInv ==
  ASSUME IInv, NEW c \in Parties, SendAuthRequest(c)
  PROVE  IInv' /\ StepOK
<1> DEFINE m == AuthRequest(c)
           wire == Write(WrittenAuthRequest, m)
<1>1. Put(c, "AuthRequest", wire, m, "authenticating")
  BY DEF SendAuthRequest
<1>2. m \in AuthRequests
  BY AuthRequestTyped
<1>3. wire = Write(WrittenAuthRequest, m)
  OBVIOUS
<1> HIDE DEF m, wire
<1>4. /\ Shaped /\ Others(c) /\ sent'[c] = m /\ phase'[c] = "authenticating"
      /\ link'[c] = [kind |-> "AuthRequest", wire |-> wire] /\ got'[c] = got[c]
  BY <1>1, PutDoes DEF SendAuthRequest, IInv, Phases
<1>5. LinkOK(c)' /\ SentOK(c)'
  BY <1>2, <1>3, <1>4 DEF LinkOK, SentOK, Written
<1>6. IInv'
  BY <1>4, <1>5, EarlyStep DEF SendAuthRequest, Early, IInv, ShapeOK
<1> QED
  BY <1>4, <1>6, NoCertificateTaken

\* The request arrives, and the response made of it is of its type.
LEMMA AnswerAuthRequestInv ==
  ASSUME IInv, NEW c \in Parties, AnswerAuthRequest(c)
  PROVE  IInv' /\ StepOK
<1> DEFINE m == AuthResponseTo(sent[c])
           wire == Write(WrittenAuthResponse, m)
<1>1. /\ link[c].kind = "AuthRequest" /\ phase[c] = "authenticating"
      /\ Read(ParsedAuthRequest, link[c].wire) = sent[c] /\ sent[c] \in AuthRequests
  BY Arrives DEF AnswerAuthRequest, IInv, SentOK, LinkOK, Written
<1>2. Put(c, "AuthResponse", wire, m, "authenticating") /\ Taken(c, sent[c])
  BY <1>1 DEF AnswerAuthRequest
<1>3. m \in AuthResponses
  BY <1>1, AuthResponseTyped
<1>4. wire = Write(WrittenAuthResponse, m)
  OBVIOUS
<1> HIDE DEF m, wire
<1>5. /\ Shaped /\ Others(c) /\ sent'[c] = m /\ phase'[c] = "authenticating"
      /\ link'[c] = [kind |-> "AuthResponse", wire |-> wire] /\ got'[c] = sent[c]
  BY <1>2, TakenPutDoes DEF IInv, Phases
<1>6. LinkOK(c)' /\ SentOK(c)'
  BY <1>3, <1>4, <1>5 DEF LinkOK, SentOK, Written
<1>7. IInv'
  BY <1>1, <1>5, <1>6, EarlyStep DEF AnswerAuthRequest, Early, IInv, ShapeOK
<1> QED
  BY <1>1, <1>5, <1>7, NoCertificateTaken

\* The link is empty afterwards and the topic is left alone.
LEMMA TakeAuthResponseInv ==
  ASSUME IInv, NEW c \in Parties, TakeAuthResponse(c)
  PROVE  IInv' /\ StepOK
<1>1. /\ link[c].kind = "AuthResponse" /\ phase[c] = "authenticating"
      /\ Read(ParsedAuthResponse, link[c].wire) = sent[c]
  BY Arrives DEF TakeAuthResponse, IInv, LinkOK, Written
<1>2. Take(c, sent[c]) /\ phase' = [phase EXCEPT ![c] = "connected"] /\ sent' = sent
  BY <1>1 DEF TakeAuthResponse
<1> DEFINE next == "connected"
           r == sent[c]
<1>3. /\ Shaped /\ Others(c) /\ phase'[c] = "connected" /\ link'[c] = NoMessage
      /\ got'[c] = sent[c]
  <2>1. next \in Phases /\ Take(c, r) /\ phase' = [phase EXCEPT ![c] = next] /\ sent' = sent
    BY <1>2 DEF Phases
  <2> HIDE DEF next, r
  <2>2. /\ Shaped /\ Others(c) /\ phase'[c] = next /\ link'[c] = NoMessage /\ got'[c] = r
    BY <2>1, TakeDoes DEF IInv
  <2> QED
    BY <2>2 DEF next, r
<1>4. IInv'
  BY <1>1, <1>3, LinkEmptied, EarlyStep DEF TakeAuthResponse, Early, IInv, ShapeOK, NoMessage
<1> QED
  BY <1>1, <1>3, <1>4, NoCertificateTaken

\* Before anything is agreed there is no entry, no context and no frame.
LEMMA NothingYet ==
  ASSUME TopicOK, ~Granted
  PROVE  /\ agreed = NoTopic /\ entry = NoTopic /\ publisher = NoTopic
         /\ subscriber = NoTopic /\ frames = {}
BY DEF TopicOK, Granted, Associated, Publishing, SubscriberOK, FrameOK

\* The topic has a name and the priority is one of the four.
LEMMA SendTSARequestInv ==
  ASSUME IInv, NEW topic \in Topics, NEW r \in Requests, SendTSARequest(topic, r)
  PROVE  IInv' /\ StepOK
<1> DEFINE c == "publisher"
           m == [topic |-> topic, priority |-> r.priority,
                 level_min |-> r.level_min, level_max |-> r.level_max]
           wire == Write(WrittenTSARequest, m)
<1>1. phase[c] = "connected" /\ Put(c, "TSARequest", wire, m, "negotiating") /\ got' = got
  BY DEF SendTSARequest
<1>2. m \in TSARequests /\ m.topic # <<>> /\ m.priority \in Priorities
  BY TopicAssumption, RequestAssumption DEF TSARequests, Priorities, ByteStrings
<1>3. wire = Write(WrittenTSARequest, m) /\ c \in Parties
  BY DEF Parties
<1> HIDE DEF m, wire, c
<1>4. /\ Shaped /\ Others(c) /\ sent'[c] = m /\ phase'[c] = "negotiating"
      /\ link'[c] = [kind |-> "TSARequest", wire |-> wire] /\ got'[c] = got[c]
  BY <1>1, <1>3, PutDoes DEF IInv, Phases
<1>5. LinkOK(c)' /\ SentOK(c)'
  BY <1>2, <1>3, <1>4 DEF LinkOK, SentOK, Written
<1>6. IInv'
  BY <1>1, <1>3, <1>4, <1>5, EarlyStep DEF SendTSARequest, Early, IInv, ShapeOK
<1> QED
  BY <1>3, <1>4, <1>6, NoCertificateTaken

\* The request arrives, and what is agreed is what can be granted of it.
LEMMA AnswerTSARequestInv ==
  ASSUME IInv, AnswerTSARequest
  PROVE  IInv' /\ StepOK
<1> DEFINE c == "publisher"
           req == sent[c]
           m == ValidateTSARequest(req)
           wire == Write(WrittenTSAResponse, m)
<1>1. c \in Parties
  BY DEF Parties
<1>2. /\ link[c].kind = "TSARequest" /\ phase[c] = "negotiating"
      /\ Read(ParsedTSARequest, link[c].wire) = req /\ req \in TSARequests
      /\ req.topic # <<>> /\ req.priority \in Priorities
  BY <1>1, Arrives DEF AnswerTSARequest, IInv, SentOK, LinkOK, Written
<1>3. /\ Put(c, "TSAResponse", wire, m, "negotiating") /\ Taken(c, req)
      /\ agreed' = IF m.accepted = 1
                   THEN [topic |-> req.topic, min |-> m.level_min, max |-> m.level_max,
                         request |-> req]
                   ELSE agreed
      /\ age' = age /\ entry' = entry /\ publisher' = publisher
      /\ subscriber' = subscriber /\ frames' = frames
  BY <1>2 DEF AnswerTSARequest
<1>4. /\ m \in TSAResponses
      /\ m.accepted = 0 => Grantable(req) = {}
      /\ m.accepted = 1 => /\ m.level_min \in 1..5
                           /\ m.level_max \in m.level_min..m.level_min + 1
                           /\ m.level_max <= 5
                           /\ m.level_min..m.level_max = Grantable(req)
  BY <1>2, Validated
<1>5. wire = Write(WrittenTSAResponse, m)
  OBVIOUS
<1> HIDE DEF m, wire
<1>6. /\ Shaped /\ Others(c) /\ sent'[c] = m /\ phase'[c] = "negotiating"
      /\ link'[c] = [kind |-> "TSAResponse", wire |-> wire] /\ got'[c] = req
  <2> HIDE DEF c, req
  <2> QED
    BY <1>1, <1>3, TakenPutDoes DEF IInv, Phases
<1>7. ~Granted
  BY <1>2 DEF Granted
<1>8. /\ agreed = NoTopic /\ entry' = NoTopic /\ publisher' = NoTopic
      /\ subscriber' = NoTopic /\ frames' = {}
  BY <1>3, <1>7, NothingYet DEF IInv
<1>9. (Granted' <=> m.accepted = 1) /\ ~Associated' /\ ~Publishing'
  BY <1>6 DEF Granted, Associated, Publishing
<1>10. TopicOK'
  <2>1. CASE m.accepted = 1
    <3> DEFINE a == [topic |-> req.topic, min |-> m.level_min, max |-> m.level_max,
                     request |-> req]
    <3>1. agreed' = a
      BY <1>3, <2>1
    <3>2. /\ a.topic = req.topic /\ a.min = m.level_min /\ a.max = m.level_max
          /\ a.request = req
      OBVIOUS
    <3>3. req.topic \in ByteStrings
      BY <1>2 DEF TSARequests
    <3> HIDE DEF a, req
    <3>4. agreed' # NoTopic
      <4>1. NoTopic.topic = <<>>
        BY DEF NoTopic
      <4> QED
        BY <1>2, <3>1, <3>2, <4>1
    <3>5. RangeOK'
      BY <1>2, <1>4, <2>1, <3>1, <3>2, <3>3 DEF RangeOK, Grantable
    <3> QED
      BY <1>8, <1>9, <2>1, <3>4, <3>5 DEF TopicOK
  <2>2. CASE m.accepted # 1
    <3>1. agreed' = NoTopic
      BY <1>3, <1>8, <2>2
    <3> QED
      BY <1>8, <1>9, <2>2, <3>1 DEF TopicOK
  <2> QED
    BY <2>1, <2>2
<1>11. LinkOK(c)' /\ SentOK(c)'
  <2>1. LinkOK(c)'
    BY <1>5, <1>6 DEF LinkOK, Written
  <2>2. ASSUME m.accepted = 0 PROVE Grantable(got[c])' = {}
    <3>1. Grantable(got[c])' = Grantable(req)
      <4> HIDE DEF c, req
      <4> QED
        BY <1>6 DEF Grantable
    <3> QED
      BY <1>4, <2>2, <3>1
  <2>3. SentOK(c)'
    <3> HIDE DEF c
    <3> QED
      BY <1>4, <1>6, <2>2 DEF SentOK
  <2> QED
    BY <2>1, <2>3
<1>12. \A d \in Parties : LinkOK(d)' /\ SentOK(d)'
  <2> HIDE DEF c, req
  <2> QED
    BY <1>1, <1>3, <1>6, <1>11, OthersKept DEF IInv
<1>13. ShapeOK'
  BY <1>3, <1>6 DEF IInv, ShapeOK, Shaped
<1>14. StepOK
  BY <1>1, <1>2, <1>6, NoCertificateTaken
<1> QED
  BY <1>10, <1>12, <1>13, <1>14 DEF IInv

\* The response arrives, so the publisher goes on if and only if a range is agreed.
LEMMA TakeTSAResponseInv ==
  ASSUME IInv, TakeTSAResponse
  PROVE  IInv' /\ StepOK
<1> DEFINE c == "publisher"
           r == sent[c]
           next == IF r.accepted = 1 THEN "agreed" ELSE "connected"
<1>1. c \in Parties
  BY DEF Parties
<1>2. /\ link[c].kind = "TSAResponse" /\ phase[c] = "negotiating"
      /\ Read(ParsedTSAResponse, link[c].wire) = r
  BY <1>1, Arrives DEF TakeTSAResponse, IInv, LinkOK, Written
<1>3. /\ Take(c, r) /\ phase' = [phase EXCEPT ![c] = next] /\ sent' = sent
      /\ UnchangedTopic /\ age' = age
  BY <1>2 DEF TakeTSAResponse
<1>4. next \in Phases
  BY DEF Phases
<1>5. Shaped /\ Others(c) /\ link'[c] = NoMessage /\ phase'[c] = next /\ got'[c] = sent[c]
  <2> HIDE DEF c, r, next
  <2>1. Shaped /\ Others(c) /\ link'[c] = NoMessage /\ phase'[c] = next /\ got'[c] = r
    BY <1>1, <1>3, <1>4, TakeDoes DEF IInv
  <2> QED
    BY <2>1 DEF r
<1>6. (Granted' <=> Granted) /\ (Associated' <=> Associated) /\ (Publishing' <=> Publishing)
  BY <1>2, <1>5 DEF Granted, Associated, Publishing, NoMessage
<1>7. TopicOK'
  BY <1>3, <1>6, TopicKept DEF IInv
<1>8. \A d \in Parties : LinkOK(d)' /\ SentOK(d)'
  <2> HIDE DEF c
  <2>1. entry' = entry /\ LinkOK(c)' /\ SentOK(c)'
    BY <1>1, <1>3, <1>5, LinkEmptied DEF UnchangedTopic
  <2> QED
    BY <1>1, <1>5, <2>1, OthersKept DEF IInv
<1>9. ShapeOK'
  BY <1>3, <1>5 DEF IInv, ShapeOK, Shaped
<1>10. StepOK
  BY <1>1, <1>2, <1>5, NoCertificateTaken
<1> QED
  BY <1>7, <1>8, <1>9, <1>10 DEF IInv

\* Before there is an entry no config and no key is on its way.
LEMMA NothingSent ==
  ASSUME NEW d \in Parties, SentOK(d), entry = NoTopic
  PROVE  /\ link[d].kind # "SubTopicConfig"
         /\ link[d].kind = "KeyResponse" => sent[d].accepted # 1
BY DEF SentOK

\* The entry is the first one, and its config is what is sent.
LEMMA CreateAssociationInv ==
  ASSUME IInv, NEW level \in Levels, NEW epoch \in FirstEpochs, NEW id \in PublisherIds,
         CreateAssociation(level, epoch, id)
  PROVE  IInv' /\ StepOK
<1> DEFINE c == "publisher"
           config == NewConfig(agreed.topic, agreed.min, agreed.max, level, epoch, id)
           wire == WriteConfig(config)
<1>1. c \in Parties
  BY DEF Parties
<1>2. /\ phase[c] = "agreed" /\ entry = NoTopic /\ level \in agreed.min..agreed.max
      /\ entry' = config /\ Put(c, "SubTopicConfig", wire, config, "configuring")
      /\ agreed' = agreed /\ publisher' = publisher /\ subscriber' = subscriber
      /\ frames' = frames /\ got' = got /\ age' = age
  BY DEF CreateAssociation
<1>3. wire = WriteConfig(config)
  OBVIOUS
<1>4. Granted /\ ~Publishing
  BY <1>2 DEF Granted, Publishing
<1>5. /\ agreed # NoTopic /\ RangeOK /\ publisher = NoTopic /\ subscriber = NoTopic
      /\ frames = {}
  BY <1>2, <1>4 DEF IInv, TopicOK, SubscriberOK, FrameOK
<1>6. EntryOK' /\ RangeOK'
  <2>1. EntryOK'
    BY <1>2 DEF EntryOK
  <2>2. RangeOK'
    BY <1>2, <1>5 DEF RangeOK
  <2> QED
    BY <2>1, <2>2
<1>7. entry' # NoTopic
  <2>1. entry'.topic = agreed.topic
    BY <1>2 DEF NewConfig
  <2> QED
    BY <1>5, <2>1 DEF RangeOK, NoTopic
<1> HIDE DEF config, wire
<1>8. /\ Shaped /\ Others(c) /\ sent'[c] = config /\ phase'[c] = "configuring"
      /\ link'[c] = [kind |-> "SubTopicConfig", wire |-> wire] /\ got'[c] = got[c]
  <2> HIDE DEF c
  <2> QED
    BY <1>1, <1>2, PutDoes DEF IInv, Phases
<1>9. TopicOK'
  <2>1. Granted' /\ Associated' /\ ~Publishing'
    BY <1>8 DEF Granted, Associated, Publishing
  <2> QED
    BY <1>2, <1>5, <1>6, <1>7, <2>1 DEF TopicOK
<1>10. LinkOK(c)' /\ SentOK(c)'
  <2> HIDE DEF c
  <2> QED
    BY <1>2, <1>3, <1>7, <1>8 DEF LinkOK, SentOK, Written
<1>11. ASSUME NEW d \in Parties, d # c
       PROVE  LinkOK(d)' /\ SentOK(d)'
  <2> HIDE DEF c
  <2>1. LinkOK(d) /\ SentOK(d)
    BY DEF IInv
  <2>2. /\ link'[d] = link[d] /\ sent'[d] = sent[d] /\ got'[d] = got[d]
        /\ phase'[d] = phase[d]
    BY <1>8, <1>11 DEF Others
  <2>3. /\ link[d].kind # "SubTopicConfig"
        /\ link[d].kind = "KeyResponse" => sent[d].accepted # 1
    BY <1>2, <2>1, NothingSent
  <2>4. LinkOK(d)'
    BY <2>1, <2>2 DEF LinkOK, Written
  <2>5. SentOK(d)'
    BY <2>1, <2>2, <2>3 DEF SentOK
  <2> QED
    BY <2>4, <2>5
<1>12. ShapeOK'
  BY <1>2, <1>8 DEF IInv, ShapeOK, Shaped
<1>13. StepOK
  <2>1. got'[c] = got[c] /\ link'[c].kind # "none"
    BY <1>8
  <2> HIDE DEF c
  <2> QED
    BY <1>1, <1>8, <2>1, NoCertificateTaken
<1> QED
  BY <1>9, <1>10, <1>11, <1>12, <1>13 DEF IInv

\* The config arrives, so the first context is the entry's.
LEMMA TakeConfigInv ==
  ASSUME IInv, TakeConfig
  PROVE  IInv' /\ StepOK
<1> DEFINE c == "publisher"
           next == "publishing"
<1>1. c \in Parties /\ next \in Phases
  BY DEF Parties, Phases
<1>2. /\ link[c].kind = "SubTopicConfig" /\ phase[c] = "configuring"
      /\ ReadConfig(link[c].wire) = sent[c] /\ sent[c] = entry /\ entry # NoTopic
  BY <1>1, Arrives DEF TakeConfig, IInv, LinkOK, SentOK, Written
<1>3. /\ Take(c, entry) /\ publisher' = ContextOf(entry, 0)
      /\ phase' = [phase EXCEPT ![c] = next] /\ sent' = sent
      /\ age' = age /\ agreed' = agreed /\ entry' = entry /\ subscriber' = subscriber
      /\ frames' = frames
  BY <1>2 DEF TakeConfig, ContextOf
<1>4. Shaped /\ Others(c) /\ link'[c] = NoMessage /\ phase'[c] = next /\ got'[c] = entry
  <2> HIDE DEF c, next
  <2> QED
    BY <1>1, <1>3, TakeDoes DEF IInv
<1>5. Granted /\ Associated /\ ~Publishing
  BY <1>2 DEF Granted, Associated, Publishing
<1>6. agreed # NoTopic /\ RangeOK /\ EntryOK /\ publisher = NoTopic /\ frames = {}
  BY <1>2, <1>5 DEF IInv, TopicOK, FrameOK
<1>7. publisher' # NoTopic
  <2>1. publisher'.topic = entry.topic
    BY <1>3 DEF ContextOf
  <2>2. entry.topic # <<>>
    BY <1>6, EntryTyped DEF RangeOK
  <2> QED
    BY <2>1, <2>2 DEF NoTopic
<1>8. PublisherOK'
  <2>1. publisher'.counter = 0
    BY <1>3 DEF ContextOf
  <2>2. 0 \in 0..CounterSpan - 1
    BY SizeAssumption
  <2> QED
    BY <1>3, <2>1, <2>2 DEF PublisherOK, ContextOf
<1>9. TopicOK'
  <2>1. Granted' /\ Associated' /\ Publishing'
    BY <1>4 DEF Granted, Associated, Publishing
  <2>2. RangeOK' /\ EntryOK'
    BY <1>3, <1>6 DEF RangeOK, EntryOK
  <2>3. subscriber # NoTopic => SubscriberOK'
    <3>1. SubscriberOK' = SubscriberOK
      BY <1>3 DEF SubscriberOK, KeyResponseTo
    <3> QED
      BY <3>1 DEF IInv, TopicOK
  <2> QED
    BY <1>2, <1>3, <1>6, <1>7, <1>8, <2>1, <2>2, <2>3 DEF TopicOK
<1>10. \A d \in Parties : LinkOK(d)' /\ SentOK(d)'
  <2> HIDE DEF c
  <2>1. entry' = entry /\ LinkOK(c)' /\ SentOK(c)'
    BY <1>1, <1>3, <1>4, LinkEmptied
  <2> QED
    BY <1>1, <1>4, <2>1, OthersKept DEF IInv
<1>11. ShapeOK'
  BY <1>3, <1>4 DEF IInv, ShapeOK, Shaped
<1>12. StepOK
  BY <1>1, <1>2, <1>4, NoCertificateTaken
<1> QED
  BY <1>9, <1>10, <1>11, <1>12 DEF IInv

\* A frame does not depend on how far the context has counted since.
LEMMA FrameKept ==
  ASSUME NEW config, NEW m, NEW n, NEW payload, NEW counter
  PROVE  FrameFor(payload, ContextOf(config, m), counter)
           = FrameFor(payload, ContextOf(config, n), counter)
BY DEF ContextOf, FrameFor

\* The frame is made with the context, and the context differs in its counter only.
LEMMA CreateDataFrameInv ==
  ASSUME IInv, NEW payload \in Payloads, CreateDataFrame(payload)
  PROVE  IInv' /\ StepOK
<1> DEFINE n == publisher.counter
           new == [frame |-> FrameFor(payload, publisher, n), payload |-> payload, counter |-> n]
<1>1. /\ phase["publisher"] = "publishing" /\ n + 1 < CounterSpan
      /\ Usable(publisher.level, publisher.key, publisher.salt)
      /\ publisher' = [publisher EXCEPT !.counter = n + 1]
      /\ frames' = frames \cup {new}
      /\ age' = age /\ phase' = phase /\ link' = link /\ sent' = sent /\ got' = got
      /\ agreed' = agreed /\ entry' = entry /\ subscriber' = subscriber
  BY DEF CreateDataFrame
<1>2. publisher # NoTopic /\ PublisherOK
  BY <1>1 DEF IInv, TopicOK, Publishing
<1>3. /\ n \in 0..CounterSpan - 1 /\ n + 1 \in 0..CounterSpan - 1
      /\ publisher = ContextOf(entry, n)
  <2>1. n \in 0..CounterSpan - 1 /\ publisher = ContextOf(entry, n) /\ CounterSpan \in Nat
    BY <1>2, SizeAssumption DEF PublisherOK
  <2> QED
    BY <1>1, <2>1
<1>4. publisher' = ContextOf(entry, n + 1)
  BY <1>1, <1>3 DEF ContextOf
<1>5. /\ publisher'.counter = n + 1 /\ publisher'.topic = publisher.topic
      /\ publisher'.level = publisher.level /\ publisher'.key = publisher.key
      /\ publisher'.salt = publisher.salt
  BY <1>3, <1>4 DEF ContextOf
<1>6. PublisherOK'
  BY <1>1, <1>3, <1>4, <1>5 DEF PublisherOK
<1>7. publisher' # NoTopic
  <2>1. RangeOK /\ EntryOK
    BY <1>1 DEF IInv, TopicOK, Granted, Associated
  <2>2. publisher'.topic # <<>>
    BY <1>3, <1>5, <2>1, EntryTyped DEF ContextOf, RangeOK
  <2> QED
    BY <2>2 DEF NoTopic
<1>8. ASSUME NEW f \in frames'
      PROVE  FrameOK(f)'
  <2>1. /\ f.payload \in ByteStrings /\ f.counter \in 0..CounterSpan - 1
        /\ f.frame = FrameFor(f.payload, publisher, f.counter)
    <3>1. CASE f \in frames
      BY <3>1 DEF IInv, TopicOK, FrameOK
    <3>2. CASE f = new
      BY <1>3, <3>2, TextAssumption DEF ByteStrings
    <3> QED
      BY <1>1, <3>1, <3>2
  <2>2. FrameFor(f.payload, publisher', f.counter) = FrameFor(f.payload, publisher, f.counter)
    <3> HIDE DEF n
    <3> QED
      BY <1>3, <1>4, FrameKept
  <2> QED
    BY <1>1, <1>5, <1>7, <2>1, <2>2 DEF FrameOK
<1>9. TopicOK'
  <2>1. (Granted' <=> Granted) /\ (Associated' <=> Associated) /\ (Publishing' <=> Publishing)
    BY <1>1 DEF Granted, Associated, Publishing
  <2>2. RangeOK' = RangeOK /\ EntryOK' = EntryOK /\ SubscriberOK' = SubscriberOK
    BY <1>1 DEF RangeOK, EntryOK, SubscriberOK, KeyResponseTo
  <2> HIDE DEF n, new
  <2>3. agreed' = agreed /\ entry' = entry /\ subscriber' = subscriber
    BY <1>1
  <2>4. Publishing
    BY <1>1 DEF Publishing
  <2>5. \A f \in frames' : FrameOK(f)'
    BY <1>8
  <2> QED
    BY <1>6, <1>7, <2>1, <2>2, <2>3, <2>4, <2>5 DEF IInv, TopicOK
<1>10. \A d \in Parties : LinkOK(d)' /\ SentOK(d)'
  BY <1>1, LinkKept DEF IInv
<1>11. ShapeOK'
  BY <1>1 DEF IInv, ShapeOK
<1>12. StepOK
  <2>1. ASSUME NEW d \in Parties
        PROVE  /\ got'[d] # got[d] => got'[d] = sent[d]
               /\ ~(link[d].kind = "Certificate" /\ link'[d] = NoMessage)
    BY <1>1 DEF NoMessage
  <2> QED
    BY <2>1 DEF StepOK
<1> QED
  BY <1>9, <1>10, <1>11, <1>12 DEF IInv

\* The topic has a name.
LEMMA SendKeyRequestInv ==
  ASSUME IInv, NEW topic \in Topics, SendKeyRequest(topic)
  PROVE  IInv' /\ StepOK
<1> DEFINE c == "subscriber"
           m == [topic |-> topic, subscriber_id |-> ClientId["subscriber"]]
           wire == Write(WrittenKeyRequest, m)
<1>1. phase[c] = "connected" /\ Put(c, "KeyRequest", wire, m, "waiting") /\ got' = got
  BY DEF SendKeyRequest
<1>2. m \in KeyRequests /\ m.topic # <<>>
  BY TopicAssumption, KeysAndIds DEF KeyRequests, ByteStrings, Parties
<1>3. wire = Write(WrittenKeyRequest, m) /\ c \in Parties
  BY DEF Parties
<1> HIDE DEF m, wire, c
<1>4. /\ Shaped /\ Others(c) /\ sent'[c] = m /\ phase'[c] = "waiting"
      /\ link'[c] = [kind |-> "KeyRequest", wire |-> wire] /\ got'[c] = got[c]
  BY <1>1, <1>3, PutDoes DEF IInv, Phases
<1>5. LinkOK(c)' /\ SentOK(c)'
  BY <1>2, <1>3, <1>4 DEF LinkOK, SentOK, Written
<1>6. IInv'
  BY <1>1, <1>3, <1>4, <1>5, EarlyStep DEF SendKeyRequest, Early, IInv, ShapeOK
<1> QED
  BY <1>3, <1>4, <1>6, NoCertificateTaken

\* The request arrives, and an accepted answer is the entry's.
LEMMA AnswerKeyRequestInv ==
  ASSUME IInv, AnswerKeyRequest
  PROVE  IInv' /\ StepOK
<1> DEFINE c == "subscriber"
           req == sent[c]
           m == KeyResponseTo(req.topic)
           wire == Write(WrittenKeyResponse, m)
<1>1. c \in Parties
  BY DEF Parties
<1>2. /\ link[c].kind = "KeyRequest" /\ phase[c] = "waiting"
      /\ Read(ParsedKeyRequest, link[c].wire) = req /\ req \in KeyRequests
      /\ req.topic # <<>>
  BY <1>1, Arrives DEF AnswerKeyRequest, IInv, SentOK, LinkOK, Written
<1>3. /\ Put(c, "KeyResponse", wire, m, "waiting") /\ Taken(c, req)
      /\ UnchangedTopic /\ age' = age
  BY <1>2 DEF AnswerKeyRequest
<1>4. /\ m \in KeyResponses
      /\ m.accepted = 1 => entry # NoTopic /\ m = KeyResponseTo(entry.topic)
  <2>1. req.topic \in ByteStrings
    BY <1>2 DEF KeyRequests
  <2>2. entry # NoTopic => RangeOK /\ EntryOK
    BY DEF IInv, TopicOK, Granted, Associated
  <2> QED
    BY <1>2, <2>1, <2>2, KeyResponseTyped
<1>5. wire = Write(WrittenKeyResponse, m)
  OBVIOUS
<1> HIDE DEF m, wire
<1>6. /\ Shaped /\ Others(c) /\ sent'[c] = m /\ phase'[c] = "waiting"
      /\ link'[c] = [kind |-> "KeyResponse", wire |-> wire] /\ got'[c] = req
  <2> HIDE DEF c, req
  <2> QED
    BY <1>1, <1>3, TakenPutDoes DEF IInv, Phases
<1>7. LinkOK(c)' /\ SentOK(c)'
  <2>1. entry' = entry
    BY <1>3 DEF UnchangedTopic
  <2>2. m.accepted = 1 => entry' # NoTopic /\ m = KeyResponseTo(entry.topic)'
    BY <1>4, <2>1 DEF KeyResponseTo
  <2> HIDE DEF c, req
  <2>3. LinkOK(c)'
    BY <1>5, <1>6 DEF LinkOK, Written
  <2>4. SentOK(c)'
    BY <1>4, <1>6, <2>2 DEF SentOK
  <2> QED
    BY <2>3, <2>4
<1>8. IInv'
  <2> HIDE DEF req
  <2>1. link'[c].kind # "TSAResponse" /\ age' \in [Parties -> Nat]
    BY <1>3, <1>6 DEF IInv, ShapeOK
  <2>2. phase[c] \in Early /\ phase'[c] \in Early
    BY <1>2, <1>6 DEF Early
  <2> HIDE DEF c
  <2> QED
    BY <1>1, <1>3, <1>6, <1>7, <2>1, <2>2, EarlyStep
<1> QED
  BY <1>1, <1>2, <1>6, <1>8, NoCertificateTaken

\* The response arrives, so what the subscriber keeps is the entry's.
LEMMA TakeKeyResponseInv ==
  ASSUME IInv, TakeKeyResponse
  PROVE  IInv' /\ StepOK
<1> DEFINE c == "subscriber"
           r == sent[c]
           next == "connected"
<1>1. c \in Parties /\ next \in Phases
  BY DEF Parties, Phases
<1>2. /\ link[c].kind = "KeyResponse" /\ phase[c] = "waiting"
      /\ Read(ParsedKeyResponse, link[c].wire) = r
      /\ r.accepted = 1 => entry # NoTopic /\ r = KeyResponseTo(entry.topic)
  BY <1>1, Arrives DEF TakeKeyResponse, IInv, LinkOK, SentOK, Written
<1>3. /\ Take(c, r) /\ phase' = [phase EXCEPT ![c] = next] /\ sent' = sent
      /\ subscriber' = IF r.accepted = 1 THEN r ELSE subscriber
      /\ age' = age /\ agreed' = agreed /\ entry' = entry /\ publisher' = publisher
      /\ frames' = frames
  BY <1>2 DEF TakeKeyResponse
<1>4. Shaped /\ Others(c) /\ link'[c] = NoMessage /\ phase'[c] = next /\ got'[c] = sent[c]
  <2> HIDE DEF c, r, next
  <2>1. Shaped /\ Others(c) /\ link'[c] = NoMessage /\ phase'[c] = next /\ got'[c] = r
    BY <1>1, <1>3, TakeDoes DEF IInv
  <2> QED
    BY <2>1 DEF r
<1>5. (Granted' <=> Granted) /\ (Associated' <=> Associated) /\ (Publishing' <=> Publishing)
  <2>1. /\ phase[c] \in Early /\ phase'[c] \in Early /\ link'[c].kind # "TSAResponse"
    BY <1>2, <1>4 DEF Early, NoMessage
  <2> HIDE DEF c
  <2> QED
    BY <1>1, <1>4, <2>1, FlagsKept DEF IInv
<1>6. subscriber' # NoTopic => SubscriberOK'
  <2> HIDE DEF c, r
  <2>1. KeyResponseTo(entry.topic)' = KeyResponseTo(entry.topic)
    BY <1>3 DEF KeyResponseTo
  <2>2. CASE r.accepted = 1
    <3>1. subscriber' = r /\ entry # NoTopic /\ r = KeyResponseTo(entry.topic)
      BY <1>2, <1>3, <2>2
    <3> QED
      BY <1>3, <2>1, <3>1 DEF SubscriberOK
  <2>3. CASE r.accepted # 1
    <3>1. subscriber' = subscriber
      BY <1>3, <2>3
    <3> QED
      BY <1>3, <2>1, <3>1 DEF IInv, TopicOK, SubscriberOK
  <2> QED
    BY <2>2, <2>3
<1>7. TopicOK'
  <2> HIDE DEF c, r
  <2>1. RangeOK' = RangeOK /\ EntryOK' = EntryOK /\ PublisherOK' = PublisherOK
    BY <1>3 DEF RangeOK, EntryOK, PublisherOK
  <2>2. \A f \in frames' : FrameOK(f)'
    BY <1>3 DEF IInv, TopicOK, FrameOK
  <2> QED
    BY <1>3, <1>5, <1>6, <2>1, <2>2 DEF IInv, TopicOK
<1>8. \A d \in Parties : LinkOK(d)' /\ SentOK(d)'
  <2> HIDE DEF c
  <2>1. entry' = entry /\ LinkOK(c)' /\ SentOK(c)'
    BY <1>1, <1>3, <1>4, LinkEmptied
  <2> QED
    BY <1>1, <1>4, <2>1, OthersKept DEF IInv
<1>9. ShapeOK'
  BY <1>3, <1>4 DEF IInv, ShapeOK, Shaped
<1>10. StepOK
  BY <1>1, <1>2, <1>4, NoCertificateTaken
<1> QED
  BY <1>7, <1>8, <1>9, <1>10 DEF IInv

\* Nothing changes.
LEMMA StutterInv ==
  ASSUME IInv, UNCHANGED vars
  PROVE  IInv' /\ StepOK
<1>1. /\ phase' = phase /\ link' = link /\ sent' = sent /\ got' = got /\ age' = age
      /\ UnchangedTopic
  BY DEF vars, UnchangedTopic
<1>2. \A d \in Parties : LinkOK(d)' /\ SentOK(d)'
  BY <1>1, LinkKept DEF IInv, UnchangedTopic
<1>3. TopicOK'
  BY <1>1, TopicKept DEF IInv, Granted, Associated, Publishing
<1>4. ShapeOK'
  BY <1>1 DEF IInv, ShapeOK
<1>5. StepOK
  <2>1. ASSUME NEW d \in Parties
        PROVE  /\ got'[d] # got[d] => got'[d] = sent[d]
               /\ ~(link[d].kind = "Certificate" /\ link'[d] = NoMessage)
    BY <1>1 DEF NoMessage
  <2> QED
    BY <2>1 DEF StepOK
<1> QED
  BY <1>2, <1>3, <1>4, <1>5 DEF IInv

\* Every step keeps the invariant, reads what was written and honours certificates.
LEMMA NextInv ==
  ASSUME IInv, [Next]_vars
  PROVE  IInv' /\ StepOK
<1>1. ASSUME NEW c \in Parties, SendCertificate(c) PROVE IInv' /\ StepOK
  BY <1>1, SendCertificateInv
<1>2. ASSUME NEW c \in Parties, Delay(c) PROVE IInv' /\ StepOK
  BY <1>2, DelayInv
<1>3. ASSUME NEW c \in Parties, CheckCertificate(c) PROVE IInv' /\ StepOK
  BY <1>3, CheckCertificateInv
<1>4. ASSUME NEW c \in Parties, SendAuthRequest(c) PROVE IInv' /\ StepOK
  BY <1>4, SendAuthRequestInv
<1>5. ASSUME NEW c \in Parties, AnswerAuthRequest(c) PROVE IInv' /\ StepOK
  BY <1>5, AnswerAuthRequestInv
<1>6. ASSUME NEW c \in Parties, TakeAuthResponse(c) PROVE IInv' /\ StepOK
  BY <1>6, TakeAuthResponseInv
<1>7. ASSUME NEW t \in Topics, NEW r \in Requests, SendTSARequest(t, r) PROVE IInv' /\ StepOK
  BY <1>7, SendTSARequestInv
<1>8. CASE AnswerTSARequest
  BY <1>8, AnswerTSARequestInv
<1>9. CASE TakeTSAResponse
  BY <1>9, TakeTSAResponseInv
<1>10. ASSUME NEW l \in Levels, NEW e \in FirstEpochs, NEW i \in PublisherIds,
              CreateAssociation(l, e, i)
       PROVE  IInv' /\ StepOK
  BY <1>10, CreateAssociationInv
<1>11. CASE TakeConfig
  BY <1>11, TakeConfigInv
<1>12. ASSUME NEW p \in Payloads, CreateDataFrame(p) PROVE IInv' /\ StepOK
  BY <1>12, CreateDataFrameInv
<1>13. ASSUME NEW t \in Topics, SendKeyRequest(t) PROVE IInv' /\ StepOK
  BY <1>13, SendKeyRequestInv
<1>14. CASE AnswerKeyRequest
  BY <1>14, AnswerKeyRequestInv
<1>15. CASE TakeKeyResponse
  BY <1>15, TakeKeyResponseInv
<1>16. CASE UNCHANGED vars
  BY <1>16, StutterInv
<1> QED
  BY <1>1, <1>2, <1>3, <1>4, <1>5, <1>6, <1>7, <1>8, <1>9, <1>10, <1>11, <1>12, <1>13,
     <1>14, <1>15, <1>16 DEF Next

------------------------------------------------------------------------------
(* What the invariant gives.                                               *)

\* The invariant of the whole provisioning: every message, context and frame is
\* made of what was agreed.
THEOREM InductiveInvariant == Spec => []IInv
<1>1. IInv /\ [Next]_vars => IInv'
  BY NextInv
<1> QED
  BY <1>1, InvInit, PTL DEF Spec

\* The publisher's context is the entry's.
LEMMA PublisherTyped ==
  ASSUME IInv, publisher # NoTopic
  PROVE  /\ agreed # NoTopic /\ entry # NoTopic /\ RangeOK
         /\ agreed.min \in 1..5 /\ agreed.max \in 1..5
         /\ publisher.topic = entry.topic
         /\ publisher.level \in agreed.min..agreed.max /\ publisher.min = agreed.min
         /\ publisher.id \in PublisherIds /\ publisher.epoch \in FirstEpochs
         /\ publisher.counter \in 0..CounterSpan - 1
         /\ publisher.key = entry.subtopic_keys[entry.current_level]
         /\ publisher.salt = entry.salt_epoch /\ publisher.salt \in ByteStrings
<1>1. Publishing /\ PublisherOK
  BY DEF IInv, TopicOK
<1>2. Granted /\ Associated
  BY <1>1 DEF Granted, Associated, Publishing
<1>3. agreed # NoTopic /\ entry # NoTopic /\ RangeOK /\ EntryOK
  BY <1>2 DEF IInv, TopicOK
<1>4. agreed.min \in 1..5 /\ agreed.max \in 1..5
  BY <1>3 DEF RangeOK
<1>5. /\ publisher.topic = entry.topic /\ publisher.level = entry.current_level
      /\ publisher.min = entry.level_min /\ publisher.id = entry.publisher_id
      /\ publisher.epoch = entry.epoch_id
      /\ publisher.key = entry.subtopic_keys[entry.current_level]
      /\ publisher.salt = entry.salt_epoch
      /\ publisher.counter \in 0..CounterSpan - 1
  BY <1>1 DEF PublisherOK, ContextOf
<1>6. /\ entry \in Configs /\ entry.level_min = agreed.min
      /\ entry.current_level \in agreed.min..agreed.max
      /\ entry.epoch_id \in FirstEpochs /\ entry.publisher_id \in PublisherIds
  BY <1>3, EntryTyped
<1>7. entry.salt_epoch \in ByteStrings
  BY <1>6 DEF Configs, Salts
<1> QED
  BY <1>3, <1>4, <1>5, <1>6, <1>7

\* Where there is a frame there is a context that made it.
LEMMA FramesMade ==
  ASSUME IInv, NEW f \in frames
  PROVE  publisher # NoTopic /\ FrameOK(f) /\ Publishable(publisher)
<1>1. publisher # NoTopic /\ FrameOK(f)
  BY DEF IInv, TopicOK, FrameOK
<1>2. /\ agreed.min \in 1..5 /\ agreed.max \in 1..5
      /\ publisher.level \in agreed.min..agreed.max /\ publisher.min = agreed.min
      /\ publisher.id \in PublisherIds /\ publisher.epoch \in FirstEpochs
  BY <1>1, PublisherTyped
<1>3. publisher.level \in Levels /\ publisher.level >= 1 /\ publisher.min \in Levels
  BY <1>2 DEF Levels
<1>4. publisher.id \in 0..IdSpan - 1 /\ publisher.epoch \in 0..EpochSpan - 1
  <2>1. publisher.id \in 1..IdSpan - 1 /\ publisher.epoch \in 0..EpochSpan - 1
    BY <1>2, FieldAssumption
  <2>2. IdSpan \in Int
    BY SizeAssumption
  <2> QED
    BY <2>1, <2>2
<1> QED
  BY <1>1, <1>3, <1>4 DEF Publishable, FrameOK

\* The first two bytes of a header are bytes.
LEMMA HeaderBytesFit ==
  ASSUME NEW level \in Levels, NEW min \in Levels, level >= 1, NEW id, NEW counter, NEW epoch
  PROVE  /\ EncodeForLevel(level, min, id, counter, epoch).byte1 \in 0..255
         /\ EncodeForLevel(level, min, id, counter, epoch).byte2 \in 0..255
<1> DEFINE flag == IF level >= 2 THEN 128 ELSE 0
           hash == HashIds[LevelToHash[level]]
           cipher == CipherIds[LevelToCipher[level]]
<1>1. hash \in 0..7
  BY TablesAgree DEF HashIds, HashNames
<1>2. cipher \in 0..15
  BY TablesAgree DEF CipherIds, CipherNames
<1>3. level \in 0..15 /\ min \in 0..15 /\ level # 0
  BY DEF Levels
<1>4. flag \in {0, 128}
  OBVIOUS
<1>5. /\ EncodeForLevel(level, min, id, counter, epoch).byte1 = 16 * (level % 16) + (min % 16)
      /\ EncodeForLevel(level, min, id, counter, epoch).byte2
           = flag + 16 * (hash % 8) + (cipher % 16)
  BY <1>3 DEF EncodeForLevel, Encode
<1> HIDE DEF flag, hash, cipher
<1> QED
  BY <1>1, <1>2, <1>3, <1>4, <1>5, FirstByte, SecondByte

\* What the types say, from the invariant.
LEMMA TypeFollows == IInv => TypeOK
<1> SUFFICES ASSUME IInv PROVE TypeOK
  OBVIOUS
<1>1. phase \in [Parties -> Phases]
  BY DEF IInv, ShapeOK
<1>2. agreed = NoTopic \/ {agreed.min, agreed.max} \subseteq Levels
  <2>1. agreed # NoTopic => RangeOK
    BY DEF IInv, TopicOK
  <2> QED
    BY <2>1 DEF RangeOK, Levels
<1>3. publisher = NoTopic \/ /\ publisher.level \in Levels /\ publisher.min \in Levels
                             /\ publisher.id \in 1..IdSpan - 1
                             /\ publisher.epoch \in 0..EpochSpan - 1
                             /\ publisher.counter \in 0..CounterSpan - 1
  <2> SUFFICES ASSUME publisher # NoTopic
               PROVE  /\ publisher.level \in Levels /\ publisher.min \in Levels
                      /\ publisher.id \in 1..IdSpan - 1
                      /\ publisher.epoch \in 0..EpochSpan - 1
                      /\ publisher.counter \in 0..CounterSpan - 1
    OBVIOUS
  <2>1. /\ agreed.min \in 1..5 /\ agreed.max \in 1..5
        /\ publisher.level \in agreed.min..agreed.max /\ publisher.min = agreed.min
        /\ publisher.id \in PublisherIds /\ publisher.epoch \in FirstEpochs
        /\ publisher.counter \in 0..CounterSpan - 1
    BY PublisherTyped
  <2>2. publisher.level \in Levels /\ publisher.min \in Levels
    BY <2>1 DEF Levels
  <2> QED
    BY <2>1, <2>2, FieldAssumption
<1>4. subscriber = NoTopic \/ /\ subscriber.current_level \in Levels
                              /\ subscriber.epoch_id \in 0..EpochSpan - 1
  <2> SUFFICES ASSUME subscriber # NoTopic
               PROVE  /\ subscriber.current_level \in Levels
                      /\ subscriber.epoch_id \in 0..EpochSpan - 1
    OBVIOUS
  <2>1. entry # NoTopic /\ subscriber = KeyResponseTo(entry.topic)
    BY DEF IInv, TopicOK, SubscriberOK
  <2>2. RangeOK /\ EntryOK
    BY <2>1 DEF IInv, TopicOK, Granted, Associated
  <2>3. subscriber.current_level = entry.current_level /\ subscriber.epoch_id = entry.epoch_id
    BY <2>1 DEF KeyResponseTo
  <2>4. entry.current_level \in agreed.min..agreed.max /\ entry.epoch_id \in FirstEpochs
    BY <2>2, EntryTyped
  <2>5. agreed.min \in 1..5 /\ agreed.max \in 1..5
    BY <2>2 DEF RangeOK
  <2>6. entry.current_level \in Levels
    BY <2>4, <2>5 DEF Levels
  <2> QED
    BY <2>3, <2>4, <2>6, FieldAssumption
<1>5. ASSUME NEW f \in frames
      PROVE  f.frame.header.byte1 \in 0..255 /\ f.frame.header.byte2 \in 0..255
  <2>1. /\ publisher.level \in Levels /\ publisher.level >= 1 /\ publisher.min \in Levels
        /\ f.frame = FrameFor(f.payload, publisher, f.counter)
    BY FramesMade DEF Publishable, FrameOK
  <2>2. f.frame.header = EncodeForLevel(publisher.level, publisher.min, publisher.id,
                                        f.counter, publisher.epoch)
    BY <2>1 DEF FrameFor
  <2> QED
    BY <2>1, <2>2, HeaderBytesFit
<1> QED
  BY <1>1, <1>2, <1>3, <1>4, <1>5 DEF TypeOK, Phases

\* The parties' contexts have their types, for any topics, requests and payloads.
THEOREM TypeCorrect == Spec => []TypeOK
  BY InductiveInvariant, TypeFollows, PTL

\* What is agreed is what can be granted, and the rest is made of it.
LEMMA RangeFollows == IInv => RangeHonoured
<1> SUFFICES ASSUME IInv PROVE RangeHonoured
  OBVIOUS
<1>1. (link["publisher"].kind = "TSAResponse" /\ sent["publisher"].accepted = 0)
        => Grantable(got["publisher"]) = {}
  <2>1. "publisher" \in Parties
    BY DEF Parties
  <2> QED
    BY <2>1 DEF IInv, SentOK
<1> DEFINE levels == Grantable(agreed.request)
<1>2. ASSUME agreed # NoTopic
      PROVE  /\ agreed.min..agreed.max = levels
             /\ publisher # NoTopic => publisher.level \in levels
             /\ subscriber # NoTopic =>
                  /\ subscriber.current_level \in levels
                  /\ subscriber.level_min..subscriber.level_max = levels
             /\ \A f \in frames : LET h == Decode(f.frame.header)
                                  IN {h.maxLevel, h.minLevel} \subseteq levels
  <2>1. RangeOK /\ agreed.min..agreed.max = levels
    BY <1>2 DEF IInv, TopicOK, RangeOK
  <2> HIDE DEF levels
  <2>2. publisher # NoTopic => publisher.level \in levels
    BY <2>1, PublisherTyped
  <2>3. ASSUME subscriber # NoTopic
        PROVE  /\ subscriber.current_level \in levels
               /\ subscriber.level_min..subscriber.level_max = levels
    <3>1. entry # NoTopic /\ subscriber = KeyResponseTo(entry.topic)
      BY <2>3 DEF IInv, TopicOK, SubscriberOK
    <3>2. EntryOK
      BY <3>1 DEF IInv, TopicOK
    <3>3. /\ subscriber.current_level = entry.current_level
          /\ subscriber.level_min = entry.level_min /\ subscriber.level_max = entry.level_max
      BY <3>1 DEF KeyResponseTo
    <3>4. /\ entry.current_level \in agreed.min..agreed.max
          /\ entry.level_min = agreed.min /\ entry.level_max = agreed.max
      BY <2>1, <3>2, EntryTyped
    <3> QED
      BY <2>1, <3>3, <3>4
  <2>4. ASSUME NEW f \in frames
        PROVE  {Decode(f.frame.header).maxLevel, Decode(f.frame.header).minLevel}
                 \subseteq levels
    <3>1. publisher # NoTopic /\ FrameOK(f) /\ Publishable(publisher)
      BY FramesMade
    <3>2. /\ Decode(f.frame.header).maxLevel = publisher.level
          /\ Decode(f.frame.header).minLevel = publisher.min
      BY <3>1, FrameHeader DEF FrameOK
    <3>3. publisher.level \in levels
      BY <2>2, <3>1
    <3>4. publisher.min \in levels
      <4>1. publisher.min = agreed.min
        BY <3>1, PublisherTyped
      <4>2. agreed.min \in agreed.min..agreed.max
        BY <2>1 DEF RangeOK
      <4> QED
        BY <2>1, <4>1, <4>2
    <3> QED
      BY <3>2, <3>3, <3>4
  <2> QED
    BY <2>1, <2>2, <2>3, <2>4 DEF levels
<1> QED
  BY <1>1, <1>2 DEF RangeHonoured

\* No frame, no key and no context of a level the publisher did not ask for or the
\* priority does not allow, and no refusal of what could be granted
\* (validate_tsa_request and all that is built on its answer).
THEOREM RangesHonoured == Spec => []RangeHonoured
  BY InductiveInvariant, RangeFollows, PTL

\* The header was made for the level of the context (FrameHeader).
LEMMA HeadersFollow == IInv => HeaderDescribesFrame
<1> SUFFICES ASSUME IInv, NEW f \in frames
             PROVE  LET h == Decode(f.frame.header)
                        level == publisher.level
                    IN /\ h.maxLevel = level /\ h.minLevel = publisher.min
                       /\ <<h.publisherId, h.counter, h.epochId>>
                            = <<publisher.id, f.counter, publisher.epoch>>
                       /\ h.intConf = HasConfidentiality[level]
                       /\ f.payload # <<>> =>
                            (h.intConf <=> ~IsPrefix(Plain(f.payload), f.frame.body))
                       /\ NameOf(HashIds, h.hashId) = HashParams[level]
                       /\ NameOf(HashIds, h.hashId) = HashAlg[level] <=> level >= 2
                       /\ CipherKeyBits[NameOf(CipherIds, h.cipherId)] = AesKeyBits[level]
                       /\ 8 * AeadKeySizes[level] = AesKeyBits[level]
  BY DEF HeaderDescribesFrame
<1> DEFINE h == Decode(f.frame.header)
           level == publisher.level
<1>1. publisher # NoTopic /\ FrameOK(f) /\ Publishable(publisher)
  BY FramesMade
<1>2. /\ f.payload \in ByteStrings /\ f.counter \in 0..CounterSpan - 1
      /\ f.frame = FrameFor(f.payload, publisher, f.counter)
  BY <1>1 DEF FrameOK
<1>3. /\ h.maxLevel = level /\ h.minLevel = publisher.min
      /\ h.publisherId = publisher.id /\ h.counter = f.counter
      /\ h.epochId = publisher.epoch
      /\ h.intConf = HasConfidentiality[level]
      /\ NameOf(HashIds, h.hashId) = HashParams[level]
      /\ NameOf(CipherIds, h.cipherId) = LevelToCipher[level]
  BY <1>1, <1>2, FrameHeader
<1>4. level \in Levels /\ level >= 1
  BY <1>1 DEF Publishable
<1>5. /\ CipherKeyBits[LevelToCipher[level]] = AesKeyBits[level]
      /\ 8 * AeadKeySizes[level] = AesKeyBits[level]
      /\ HasConfidentiality[level] = (level >= 2)
  BY <1>4, CipherOfLevel, TablesAgree
<1>6. ASSUME f.payload # <<>>
      PROVE  h.intConf <=> ~IsPrefix(Plain(f.payload), f.frame.body)
  <2>1. publisher.salt \in ByteStrings
    BY <1>1, PublisherTyped
  <2>2. IsPrefix(Plain(f.payload), f.frame.body) <=> level = 1
    BY <1>1, <1>2, <1>6, <2>1, PayloadShown
  <2>3. (level >= 2) <=> ~(level = 1)
    BY <1>4 DEF Levels
  <2>4. h.intConf <=> level >= 2
    BY <1>3, <1>5
  <2> HIDE DEF h, level
  <2> QED
    BY <2>2, <2>3, <2>4
<1>7. HashParams[level] = HashAlg[level] <=> level >= 2
  <2>1. level \in {1, 2, 3, 4, 5}
    BY <1>4 DEF Levels
  <2> HIDE DEF level
  <2> QED
    BY <2>1 DEF HashParams, HashAlg, ByLevel, Levels
<1> QED
  BY <1>3, <1>5, <1>6, <1>7

\* The header of a frame says what the frame was made with: level, hash, cipher,
\* key size, confidentiality, publisher, counter and epoch (create_data_frame,
\* HeaderCodec.encode_for_level and decode).  The level is the current one, and the
\* hash is the hash_alg of security_levels.py from level 2 on and not at level 1.
THEOREM HeadersDescribeFrames == Spec => []HeaderDescribesFrame
  BY InductiveInvariant, HeadersFollow, PTL

\* Key and salt of subscriber and publisher are those of the entry (FrameRead).
LEMMA ReadableFollows == IInv => FramesReadable
<1> SUFFICES ASSUME IInv, subscriber.topic # <<>>, subscriber.topic = publisher.topic,
                    NEW f \in frames
             PROVE  LET read == DecryptDataFrame(f.frame, subscriber.subtopic_key,
                                                 subscriber.salt_epoch)
                    IN read.ok /\ read.plaintext = f.payload /\ read.header.counter = f.counter
  BY DEF FramesReadable
<1>1. publisher # NoTopic /\ FrameOK(f) /\ Publishable(publisher)
  BY FramesMade
<1>2. /\ f.payload \in ByteStrings /\ f.counter \in 0..CounterSpan - 1
      /\ f.frame = FrameFor(f.payload, publisher, f.counter)
  BY <1>1 DEF FrameOK
<1>3. subscriber # NoTopic
  BY DEF NoTopic
<1>4. subscriber = KeyResponseTo(entry.topic)
  BY <1>3 DEF IInv, TopicOK, SubscriberOK
<1>5. /\ subscriber.subtopic_key = entry.subtopic_keys[entry.current_level]
      /\ subscriber.salt_epoch = entry.salt_epoch
  BY <1>4 DEF KeyResponseTo
<1>6. subscriber.subtopic_key = publisher.key /\ subscriber.salt_epoch = publisher.salt
  BY <1>1, <1>5, PublisherTyped
<1> QED
  BY <1>1, <1>2, <1>6, FrameRead

\* A subscriber that has the topic's key response reads every frame published on
\* the topic (encrypt_key_response to decrypt_data_frame).
THEOREM EveryFrameReadable == Spec => []FramesReadable
  BY InductiveInvariant, ReadableFollows, PTL

\* Whenever a party or the TTA reads a message, it reads what was written (every
\* serialize and deserialize of Phases I, II, III and V).
THEOREM ReadAsWritten == Spec => MessagesArrive
<1>1. IInv /\ [Next]_vars => [\A c \in Parties : got'[c] # got[c] => got'[c] = sent[c]]_vars
  BY NextInv DEF StepOK
<1> QED
  BY <1>1, InductiveInvariant, PTL DEF Spec, MessagesArrive

\* The TTA takes the client's own key from a certificate up to its last valid
\* moment and nothing from it afterwards (issue_cert, verify_cert).
THEOREM CertificatesBind == Spec => CertificatesHonoured
<1>1. IInv /\ [Next]_vars =>
        [\A c \in Parties :
           link[c].kind = "Certificate" /\ link'[c] = NoMessage =>
             IF age[c] <= Validity
             THEN phase'[c] = "certified" /\ certified'[ClientId[c]] = Key[c]
             ELSE phase'[c] = "new" /\ certified' = certified]_vars
  BY NextInv DEF StepOK
<1> QED
  BY <1>1, InductiveInvariant, PTL DEF Spec, CertificatesHonoured
=============================================================================
