----------------------------- MODULE HeaderCodec -----------------------------
(***************************************************************************)
(* class HeaderCodec of src/protocol/common.py: the header in front of     *)
(* every data frame.  Bits are taken apart and put together with quotients *)
(* and remainders; the three numbers keep as many bits as their field has. *)
(***************************************************************************)
EXTENDS SecurityLevels, WireSizes

HashNames == {"SHA3-256", "SHA3-384", "SHAKE-256", "KMAC-256"}
CipherNames == {"none", "AES-128-GCM", "AES-192-GCM", "AES-256-GCM"}

\* HASH_IDS and CIPHER_IDS; "none" is Python's None.
HashIds == [n \in HashNames |-> CASE n = "SHA3-256" -> 1 [] n = "SHA3-384" -> 2
                                  [] n = "SHAKE-256" -> 3 [] n = "KMAC-256" -> 4]
CipherIds == [n \in CipherNames |-> CASE n = "none" -> 0 [] n = "AES-128-GCM" -> 1
                                      [] n = "AES-192-GCM" -> 2 [] n = "AES-256-GCM" -> 3]

\* hash_name and cipher_name of a decoded header.
NameOf(ids, id) == IF \E n \in DOMAIN ids : ids[n] = id
                   THEN CHOOSE n \in DOMAIN ids : ids[n] = id ELSE "none"

LevelToCipher == ByLevel(<<"none", "none", "AES-128-GCM", "AES-192-GCM",
                           "AES-256-GCM", "AES-256-GCM">>)
LevelToHash == ByLevel(<<"none", "KMAC-256", "SHA3-256", "SHA3-384",
                         "SHA3-384", "SHAKE-256">>)

\* encode, from the identifiers of the hash and the cipher on.
Encode(h) ==
  [byte1 |-> 16 * (h.maxLevel % 16) + (h.minLevel % 16),
   byte2 |-> (IF h.intConf THEN 128 ELSE 0) + 16 * (h.hashId % 8) + (h.cipherId % 16),
   publisherId |-> h.publisherId % IdSpan,
   counter |-> h.counter % CounterSpan,
   epochId |-> h.epochId % EpochSpan]

Decode(b) ==
  [maxLevel |-> b.byte1 \div 16, minLevel |-> b.byte1 % 16,
   intConf |-> b.byte2 \div 128 = 1,
   hashId |-> (b.byte2 \div 16) % 8, cipherId |-> b.byte2 % 16,
   publisherId |-> b.publisherId, counter |-> b.counter, epochId |-> b.epochId]

\* A faulty variant of EncodeForLevel: level 1 passes for encrypted.
EncodeForLevelFlag(level, minLevel, id, counter, epoch) ==
  Encode([maxLevel |-> level, minLevel |-> minLevel, intConf |-> level >= 1,
          hashId |-> HashIds[IF level = 0 THEN "SHA3-256" ELSE LevelToHash[level]],
          cipherId |-> CipherIds[LevelToCipher[level]],
          publisherId |-> id, counter |-> counter, epochId |-> epoch])

\* encode_for_level: the present level goes into the field of the maximum.
EncodeForLevel(level, minLevel, id, counter, epoch) ==
  Encode([maxLevel |-> level, minLevel |-> minLevel, intConf |-> level >= 2,
          hashId |-> HashIds[IF level = 0 THEN "SHA3-256" ELSE LevelToHash[level]],
          cipherId |-> CipherIds[LevelToCipher[level]],
          publisherId |-> id, counter |-> counter, epochId |-> epoch])

------------------------------------------------------------------------------
\* The headers whose values fit their fields.
Headers == [maxLevel : 0..15, minLevel : 0..15, intConf : BOOLEAN,
            hashId : 0..7, cipherId : 0..15, publisherId : 0..IdSpan - 1,
            counter : 0..CounterSpan - 1, epochId : 0..EpochSpan - 1]
=============================================================================
