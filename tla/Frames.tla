-------------------------------- MODULE Frames --------------------------------
(***************************************************************************)
(* The frames of Phase IV (src/protocol/phase4_data.py) with the wrappers  *)
(* of the primitives they call (aead.py, hash.py, derive_data_iv).         *)
(*                                                                         *)
(* A frame is its header and a body, a sequence of bytes of which each     *)
(* says what it was made with: key, nonce, associated data and the bytes a *)
(* tag was computed over.  Nobody makes such a byte without these.  A call *)
(* that raises is one that is not Usable, or a decryption that is not ok.  *)
(***************************************************************************)
EXTENDS HeaderCodec, Sequences, SequencesExt

Made(key, nonce, aad, data) == [key |-> key, nonce |-> nonce, aad |-> aad, data |-> data]
Under(bytes, made) == [i \in DOMAIN bytes |-> [byte |-> bytes[i], made |-> made]]
Bytes(body) == [i \in DOMAIN body |-> body[i].byte]

Plain(bytes) == Under(bytes, Made(<<>>, <<>>, <<>>, <<>>))
Tag(size, made) == Under([i \in 1..size |-> i], made)

\* HashWrapper(1).mac.
Kmac(key, data) == Tag(KmacTagSize, Made(key, <<>>, <<>>, data))

\* AEADWrapper.encrypt: a ciphertext as long as the plaintext, and the tag.
GcmEncrypt(key, nonce, plaintext, aad) ==
  Under(plaintext, Made(key, nonce, <<>>, <<>>))
    \o Tag(GcmTagSize, Made(key, nonce, aad, plaintext))

DataIv(salt, id, counter) == salt \o <<id % IdSpan, counter % CounterSpan>>

AeadKey(level, key) == SubSeq(key, 1, IF Len(key) < AeadKeySizes[level]
                                      THEN Len(key) ELSE AeadKeySizes[level])

\* The checks of AEADWrapper and of derive_data_iv.
Usable(level, key, salt) ==
  level >= 2 => /\ level \in Levels
                /\ Len(AeadKey(level, key)) = AeadKeySizes[level]
                /\ Len(salt) = SaltSize

HeaderBytes(b) == <<b.byte1, b.byte2, b.publisherId, b.counter, b.epochId>>

MacInput(payload, id, counter, epoch) == payload \o <<counter, epoch, id>>

------------------------------------------------------------------------------
\* create_data_frame, for the counter that next_counter returned.
FrameFor(plaintext, ctx, counter) ==
  LET header == EncodeForLevel(ctx.level, ctx.min, ctx.id, counter, ctx.epoch)
  IN [header |-> header,
      body |-> CASE ctx.level = 0 -> Plain(plaintext)
                 [] ctx.level = 1 ->
                      Plain(plaintext)
                        \o Kmac(ctx.key, MacInput(plaintext, ctx.id, counter, ctx.epoch))
                 [] OTHER -> GcmEncrypt(AeadKey(ctx.level, ctx.key),
                                        DataIv(ctx.salt, ctx.id, counter),
                                        plaintext, HeaderBytes(header))]

\* A faulty variant of TagSize: one size for every tag.
TagSizeGcm(level) == IF level = 0 THEN 0 ELSE GcmTagSize

TagSize(level) == CASE level = 0 -> 0 [] level = 1 -> KmacTagSize [] OTHER -> GcmTagSize

\* parse_data_frame.  The frame is at least as long as its header and its tag.
ParseDataFrame(frame) ==
  LET h == Decode(frame.header)
      cut == Len(frame.body) - TagSize(h.maxLevel)
  IN [header |-> h,
      payload |-> SubSeq(frame.body, 1, cut),
      tag |-> SubSeq(frame.body, cut + 1, Len(frame.body))]

\* decrypt_data_frame: ok says that it does not raise.
DecryptDataFrame(frame, key, salt) ==
  LET parsed == ParseDataFrame(frame)
      h == parsed.header
      bytes == Bytes(parsed.payload)
  IN [ok |-> CASE h.maxLevel = 0 -> TRUE
               [] h.maxLevel = 1 ->
                    parsed.tag = Kmac(key, MacInput(bytes, h.publisherId, h.counter, h.epochId))
               [] OTHER -> /\ Usable(h.maxLevel, key, salt)
                           /\ parsed.payload \o parsed.tag =
                                GcmEncrypt(AeadKey(h.maxLevel, key),
                                           DataIv(salt, h.publisherId, h.counter),
                                           bytes, HeaderBytes(frame.header)),
      header |-> h,
      plaintext |-> bytes]
=============================================================================
