------------------------------- MODULE WireProofs -------------------------------
(***************************************************************************)
(* What goes over the wire is read as it was written, for any sizes and    *)
(* spans of the fields: the header of a frame, which also says what the    *)
(* tables say of its level, and the messages of Phases I to V.             *)
(*                                                                         *)
(* A message is proved about by its layout: byte strings put one after the *)
(* other are cut out again at the sums of their lengths (RoundTrip), so a  *)
(* message whose two layouts agree arrives (RecordArrives).  The tables by *)
(* level of a config follow an entry at a time (TableArrives).  The two    *)
(* recursive functions, Offset and Starts, have a layout's four byte       *)
(* strings and a table's two levels to add up: what they return is shown   *)
(* by naming the function and checking that it satisfies the recursion.    *)
(***************************************************************************)
EXTENDS HeaderCodec, Messages, SequenceTheorems, FiniteSetTheorems, TLAPS

------------------------------------------------------------------------------
(* The header.                                                             *)

\* A number that fits its field is not changed by the mask.
LEMMA MaskKeeps ==
  ASSUME NEW n \in Nat \ {0}, NEW x \in 0..n - 1
  PROVE  x % n = x
  BY SMT

\* The two halves of the first byte.
LEMMA FirstByte ==
  ASSUME NEW max \in 0..15, NEW min \in 0..15
  PROVE  LET byte1 == 16 * (max % 16) + (min % 16)
         IN byte1 \in 0..255 /\ byte1 \div 16 = max /\ byte1 % 16 = min
  BY SMT

\* Flag, hash and cipher in the second byte.
LEMMA SecondByte ==
  ASSUME NEW flag \in {0, 128}, NEW hash \in 0..7, NEW cipher \in 0..15
  PROVE  LET byte2 == flag + 16 * (hash % 8) + (cipher % 16)
         IN /\ byte2 \in 0..255
            /\ (byte2 \div 128 = 1) <=> flag = 128
            /\ (byte2 \div 16) % 8 = hash
            /\ byte2 % 16 = cipher
  BY SMT

\* Decoding undoes encoding for every header whose values fit their fields
\* (HeaderCodec.encode and decode).
THEOREM DecodeUndoesEncode == \A h \in Headers : Decode(Encode(h)) = h
<1> SUFFICES ASSUME NEW h \in Headers PROVE Decode(Encode(h)) = h
  OBVIOUS
<1> DEFINE flag == IF h.intConf THEN 128 ELSE 0
<1>1. /\ h.maxLevel \in 0..15 /\ h.minLevel \in 0..15 /\ h.intConf \in BOOLEAN
      /\ h.hashId \in 0..7 /\ h.cipherId \in 0..15
      /\ h.publisherId \in 0..IdSpan - 1 /\ h.counter \in 0..CounterSpan - 1
      /\ h.epochId \in 0..EpochSpan - 1
  BY DEF Headers
<1>2. /\ Encode(h).byte1 \div 16 = h.maxLevel
      /\ Encode(h).byte1 % 16 = h.minLevel
  BY <1>1, FirstByte DEF Encode
<1>3. /\ (Encode(h).byte2 \div 128 = 1) = h.intConf
      /\ (Encode(h).byte2 \div 16) % 8 = h.hashId
      /\ Encode(h).byte2 % 16 = h.cipherId
  <2>1. Encode(h).byte2 = flag + 16 * (h.hashId % 8) + (h.cipherId % 16)
    BY DEF Encode
  <2>2. flag \in {0, 128} /\ (flag = 128 <=> h.intConf)
    BY <1>1
  <2> HIDE DEF flag
  <2>3. /\ (Encode(h).byte2 \div 128 = 1) <=> flag = 128
        /\ (Encode(h).byte2 \div 16) % 8 = h.hashId
        /\ Encode(h).byte2 % 16 = h.cipherId
    BY <1>1, <2>1, <2>2, SecondByte
  <2> QED
    BY <1>1, <2>2, <2>3
<1>4. /\ Encode(h).publisherId = h.publisherId
      /\ Encode(h).counter = h.counter
      /\ Encode(h).epochId = h.epochId
  BY <1>1, SizeAssumption, MaskKeeps DEF Encode
<1>5. h = [maxLevel |-> h.maxLevel, minLevel |-> h.minLevel, intConf |-> h.intConf,
           hashId |-> h.hashId, cipherId |-> h.cipherId, publisherId |-> h.publisherId,
           counter |-> h.counter, epochId |-> h.epochId]
  BY DEF Headers
<1> QED
  BY <1>2, <1>3, <1>4, <1>5 DEF Decode

------------------------------------------------------------------------------
\* Every identifier belongs to one name.
LEMMA HashIdsNamed == \A n \in HashNames : NameOf(HashIds, HashIds[n]) = n
<1>1. DOMAIN HashIds = HashNames /\ \A m, n \in HashNames : HashIds[m] = HashIds[n] => m = n
  BY DEF HashIds, HashNames
<1> QED
  BY <1>1 DEF NameOf

\* The same for the ciphers.
LEMMA CipherIdsNamed == \A n \in CipherNames : NameOf(CipherIds, CipherIds[n]) = n
<1>1. /\ DOMAIN CipherIds = CipherNames
      /\ \A m, n \in CipherNames : CipherIds[m] = CipherIds[n] => m = n
  BY DEF CipherIds, CipherNames
<1> QED
  BY <1>1 DEF NameOf

\* The rows of common.py, aead.py and hash.py that HeaderDescribesFrame compares,
\* for the levels a priority allows.
LEMMA TablesAgree ==
  ASSUME NEW level \in Levels, level >= 1
  PROVE  /\ LevelToHash[level] \in HashNames /\ LevelToHash[level] = HashParams[level]
         /\ LevelToCipher[level] \in CipherNames
         /\ HasConfidentiality[level] = (level >= 2)
         /\ 8 * AeadKeySizes[level] = AesKeyBits[level]
<1>1. level \in {1, 2, 3, 4, 5}
  BY DEF Levels
<1>2. LevelToHash[level] = HashParams[level] /\ LevelToHash[level] \in HashNames
  <2>1. /\ LevelToHash[1] = "KMAC-256" /\ LevelToHash[2] = "SHA3-256"
        /\ LevelToHash[3] = "SHA3-384" /\ LevelToHash[4] = "SHA3-384"
        /\ LevelToHash[5] = "SHAKE-256"
    BY DEF Levels, ByLevel, LevelToHash
  <2>2. HashParams = LevelToHash
    BY DEF HashParams, LevelToHash
  <2> QED
    BY <1>1, <2>1, <2>2 DEF HashNames
<1>3. LevelToCipher[level] \in CipherNames
  <2>1. /\ LevelToCipher[1] = "none" /\ LevelToCipher[2] = "AES-128-GCM"
        /\ LevelToCipher[3] = "AES-192-GCM" /\ LevelToCipher[4] = "AES-256-GCM"
        /\ LevelToCipher[5] = "AES-256-GCM"
    BY DEF Levels, ByLevel, LevelToCipher
  <2> QED
    BY <1>1, <2>1 DEF CipherNames
<1>4. HasConfidentiality[level] = (level >= 2)
  <2> DEFINE row == <<FALSE, FALSE, TRUE, TRUE, TRUE, TRUE>>
  <2>1. HasConfidentiality[level] = row[level + 1]
    BY DEF ByLevel, HasConfidentiality
  <2>2. /\ row[2] = FALSE /\ row[3] = TRUE /\ row[4] = TRUE
        /\ row[5] = TRUE /\ row[6] = TRUE
    OBVIOUS
  <2> HIDE DEF row
  <2>3. CASE level = 1
    <3>1. level + 1 = 2 /\ (level >= 2) = FALSE
      BY <2>3
    <3> QED
      BY <3>1, <2>1, <2>2
  <2>4. CASE level \in {2, 3, 4, 5}
    <3>1. level + 1 \in {3, 4, 5, 6} /\ (level >= 2) = TRUE
      BY <2>4
    <3>2. row[level + 1] = TRUE
      BY <3>1, <2>2
    <3> QED
      BY <3>1, <3>2, <2>1
  <2> QED
    BY <1>1, <2>3, <2>4
<1>5. 8 * AeadKeySizes[level] = AesKeyBits[level]
  <2>1. /\ AeadKeySizes[1] = 0 /\ AeadKeySizes[2] = 16 /\ AeadKeySizes[3] = 24
        /\ AeadKeySizes[4] = 32 /\ AeadKeySizes[5] = 32
    BY DEF Levels, ByLevel, AeadKeySizes
  <2>2. /\ AesKeyBits[1] = 0 /\ AesKeyBits[2] = 128 /\ AesKeyBits[3] = 192
        /\ AesKeyBits[4] = 256 /\ AesKeyBits[5] = 256
    BY DEF Levels, ByLevel, AesKeyBits
  <2> QED
    BY <1>1, <2>1, <2>2
<1> QED
  BY <1>2, <1>3, <1>4, <1>5

\* The header of a frame of a level from 1 on tells the level, the hash and the
\* cipher of the tables, and publisher, counter and epoch in full, whatever the
\* spans of the fields (HeaderCodec.encode_for_level).
THEOREM HeaderOfLevel ==
  ASSUME NEW level \in Levels, NEW minLevel \in Levels, level >= 1,
         NEW id \in 0..IdSpan - 1, NEW counter \in 0..CounterSpan - 1,
         NEW epoch \in 0..EpochSpan - 1
  PROVE  LET h == Decode(EncodeForLevel(level, minLevel, id, counter, epoch))
         IN /\ h.maxLevel = level /\ h.minLevel = minLevel
            /\ <<h.publisherId, h.counter, h.epochId>> = <<id, counter, epoch>>
            /\ h.intConf = HasConfidentiality[level]
            /\ NameOf(HashIds, h.hashId) = HashParams[level]
            /\ NameOf(CipherIds, h.cipherId) = LevelToCipher[level]
<1> DEFINE g == [maxLevel |-> level, minLevel |-> minLevel, intConf |-> level >= 2,
                 hashId |-> HashIds[LevelToHash[level]],
                 cipherId |-> CipherIds[LevelToCipher[level]],
                 publisherId |-> id, counter |-> counter, epochId |-> epoch]
<1>1. HashIds[LevelToHash[level]] \in 0..7
  BY TablesAgree DEF HashIds, HashNames
<1>2. CipherIds[LevelToCipher[level]] \in 0..15
  BY TablesAgree DEF CipherIds, CipherNames
<1>3. g \in Headers
  BY <1>1, <1>2 DEF Headers, Levels
<1>4. EncodeForLevel(level, minLevel, id, counter, epoch) = Encode(g)
  BY DEF EncodeForLevel, Levels
<1>5. Decode(EncodeForLevel(level, minLevel, id, counter, epoch)) = g
  BY <1>3, <1>4, DecodeUndoesEncode
<1> QED
  BY <1>5, TablesAgree, HashIdsNamed, CipherIdsNamed

------------------------------------------------------------------------------
(* Byte strings and what is cut out of them.                               *)

ByteStrings == Seq(Nat)

LEMMA Appended ==
  \A a, b \in ByteStrings : /\ a \o b \in ByteStrings
                            /\ Len(a \o b) = Len(a) + Len(b)
                            /\ Len(a) \in Nat /\ Len(b) \in Nat
  BY ConcatProperties DEF ByteStrings

\* Bytes that are appended do not change what was cut out before.
LEMMA CutKept ==
  ASSUME NEW a \in ByteStrings, NEW t \in ByteStrings,
         NEW p \in Nat, NEW q \in Nat, p <= q, q <= Len(a)
  PROVE  Slice(a \o t, p, q) = Slice(a, p, q)
<1>1. a \o t \in Seq(Nat) /\ Len(a \o t) = Len(a) + Len(t) /\ Len(a) \in Nat /\ Len(t) \in Nat
  BY ConcatProperties DEF ByteStrings
<1>2. Slice(a \o t, p, q) = SubSeq(a \o t, p + 1, q) /\ Slice(a, p, q) = SubSeq(a, p + 1, q)
  <2>1. (IF q < Len(a) THEN q ELSE Len(a)) = q /\ (IF q < Len(a \o t) THEN q ELSE Len(a \o t)) = q
    BY <1>1
  <2> QED
    BY <2>1 DEF Slice
<1>3. CASE p = q
  BY <1>2, <1>3, SubSeqEmpty
<1>4. CASE p < q
  <2>1. p + 1 \in 1..Len(a) /\ q \in 1..Len(a)
    BY <1>1, <1>4
  <2> QED
    BY <1>2, <2>1, SubSeqOfConcat1 DEF ByteStrings
<1> QED
  BY <1>3, <1>4

\* The bytes appended last are cut out again.
LEMMA CutLast ==
  ASSUME NEW a \in ByteStrings, NEW t \in ByteStrings
  PROVE  Slice(a \o t, Len(a), Len(a) + Len(t)) = t
<1>1. a \o t \in Seq(Nat) /\ Len(a \o t) = Len(a) + Len(t) /\ Len(a) \in Nat /\ Len(t) \in Nat
  BY ConcatProperties DEF ByteStrings
<1> DEFINE p == Len(a)
           q == Len(a) + Len(t)
<1>2. Slice(a \o t, p, q) = SubSeq(a \o t, p + 1, q)
  <2>1. (IF q < Len(a \o t) THEN q ELSE Len(a \o t)) = q
    BY <1>1
  <2> QED
    BY <2>1 DEF Slice
<1>3. CASE Len(t) = 0
  <2>1. t = <<>>
    BY <1>3 DEF ByteStrings
  <2>2. q < p + 1 /\ q \in Int /\ p + 1 \in Int
    BY <1>1, <1>3
  <2> QED
    BY <1>2, <2>1, <2>2, SubSeqEmpty
<1>4. CASE Len(t) > 0
  <2>1. p + 1 \in Len(a) + 1..Len(a) + Len(t) /\ q \in Len(a) + 1..Len(a) + Len(t)
    BY <1>1, <1>4
  <2>2. SubSeq(a \o t, p + 1, q) = SubSeq(t, p + 1 - Len(a), q - Len(a))
    BY <2>1, SubSeqOfConcat2 DEF ByteStrings
  <2>3. p + 1 - Len(a) = 1 /\ q - Len(a) = Len(t)
    BY <1>1
  <2> QED
    BY <1>2, <2>2, <2>3, SubSeqFull DEF ByteStrings
<1> QED
  BY <1>1, <1>3, <1>4

\* FlattenSeq of four byte strings at most, one after the other.
LEMMA Flattened ==
  ASSUME NEW n \in 1..4, NEW s \in [1..n -> ByteStrings]
  PROVE  \E flat \in [1..n -> ByteStrings] :
           /\ flat[1] = s[1]
           /\ \A i \in 1..n : i # 1 => flat[i] = flat[i - 1] \o s[i]
           /\ FlattenSeq(s) = flat[n]
<1> DEFINE Is(f) == f = [i \in 1..n |-> IF i = 1 THEN s[i] ELSE f[i - 1] \o s[i]]
           two == s[1] \o s[2]
           three == two \o s[3]
           g == [i \in 1..n |-> IF i = 1 THEN s[i] ELSE IF i = 2 THEN two
                                ELSE IF i = 3 THEN three ELSE three \o s[4]]
           flat == CHOOSE f : Is(f)
<1>1. Is(g)
  <2> HIDE DEF two, three
  <2>1. \A i \in 1..n : i \in {1, 2, 3, 4}
    OBVIOUS
  <2>2. ASSUME NEW i \in 1..n
        PROVE  g[i] = IF i = 1 THEN s[i] ELSE g[i - 1] \o s[i]
    <3>1. CASE i = 1
      BY <3>1
    <3>2. CASE i = 2
      <4>1. i - 1 = 1 /\ i - 1 \in 1..n
        BY <3>2
      <4> QED
        BY <3>2, <4>1 DEF two
    <3>3. CASE i = 3
      <4>1. i - 1 = 2 /\ i - 1 \in 1..n
        BY <3>3
      <4> QED
        BY <3>3, <4>1 DEF three
    <3>4. CASE i = 4
      <4>1. i - 1 = 3 /\ i - 1 \in 1..n
        BY <3>4
      <4> QED
        BY <3>4, <4>1
    <3> QED
      BY <2>1, <3>1, <3>2, <3>3, <3>4
  <2>3. g = [i \in 1..n |-> g[i]]
    OBVIOUS
  <2> HIDE DEF g
  <2> QED
    BY <2>2, <2>3
<1>2. Is(flat)
  <2> HIDE DEF Is, g
  <2> QED
    BY <1>1
<1>3. FlattenSeq(s) = flat[n]
  <2>1. s \in Seq(ByteStrings) /\ Len(s) = n /\ n # 0
    OBVIOUS
  <2> QED
    BY <2>1 DEF FlattenSeq
<1> HIDE DEF flat
<1>4. flat = [i \in 1..n |-> flat[i]] /\ \A i \in 1..n : flat[i] = IF i = 1 THEN s[i] ELSE flat[i - 1] \o s[i]
  BY <1>2
<1>5. \A a, b \in ByteStrings : a \o b \in ByteStrings
  BY ConcatProperties DEF ByteStrings
<1>6. /\ 1 \in 1..n /\ flat[1] = s[1]
      /\ \A i \in 1..n : i # 1 => flat[i] = flat[i - 1] \o s[i]
      /\ \A i \in 1..n : s[i] \in ByteStrings
  <2>1. 1 \in 1..n
    OBVIOUS
  <2> QED
    BY <1>4, <2>1
<1> HIDE DEF Is
<1>10. ASSUME NEW i \in 1..n, i # 1, flat[i - 1] \in ByteStrings
       PROVE  flat[i] \in ByteStrings
  BY <1>5, <1>6, <1>10
<1>9. \A i \in 1..n : flat[i] \in ByteStrings
  <2>1. flat[1] \in ByteStrings
    BY <1>6
  <2>2. 2 \in 1..n => flat[2] \in ByteStrings
    BY <2>1, <1>10
  <2>3. 3 \in 1..n => flat[3] \in ByteStrings
    <3>1. 3 \in 1..n => 2 \in 1..n /\ 3 - 1 = 2
      OBVIOUS
    <3> QED
      BY <2>2, <3>1, <1>10
  <2>4. 4 \in 1..n => flat[4] \in ByteStrings
    <3>1. 4 \in 1..n => 3 \in 1..n /\ 4 - 1 = 3
      OBVIOUS
    <3> QED
      BY <2>3, <3>1, <1>10
  <2>5. \A i \in 1..n : i \in {1, 2, 3, 4}
    OBVIOUS
  <2> QED
    BY <2>1, <2>2, <2>3, <2>4, <2>5
<1>7. flat \in [1..n -> ByteStrings]
  BY <1>4, <1>9
<1> QED
  BY <1>3, <1>6, <1>7

------------------------------------------------------------------------------
\* The layouts have four byte strings at most; the salt has no length in front.
WellFormed(L) ==
  /\ Len(L.cuts) \in 1..4 /\ DOMAIN L.cuts = 1..Len(L.cuts)
  /\ "salt_epoch" \notin ToSet(L.front)

\* Message m has the byte strings of layout L, those of a fixed size in that size.
Fits(L, m) ==
  \A f \in ToSet(L.cuts) :
    /\ m[f] \in ByteStrings
    /\ f \notin ToSet(L.front) =>
         Len(m[f]) = IF f = "salt_epoch" THEN SaltSize ELSE NonceSize

\* The offsets add up the sizes.
LEMMA Offsets ==
  ASSUME NEW L, NEW wire, NEW n \in 1..4, Len(L.cuts) = n
  PROVE  /\ Offset(L, wire)[0] = 0
         /\ \A i \in 1..n : Offset(L, wire)[i]
                              = Offset(L, wire)[i - 1] + Size(L, wire, L.cuts[i])
<1> DEFINE size(i) == Size(L, wire, L.cuts[i])
           Is(f) == f = [i \in 0..n |-> IF i = 0 THEN 0 ELSE f[i - 1] + size(i)]
           one == 0 + size(1)
           two == one + size(2)
           three == two + size(3)
           g == [i \in 0..n |-> IF i = 0 THEN 0 ELSE IF i = 1 THEN one
                                ELSE IF i = 2 THEN two
                                ELSE IF i = 3 THEN three ELSE three + size(4)]
           after == CHOOSE f : Is(f)
<1>1. Is(g)
  <2> HIDE DEF one, two, three, size
  <2>1. \A i \in 0..n : i \in {0, 1, 2, 3, 4}
    OBVIOUS
  <2>2. ASSUME NEW i \in 0..n
        PROVE  g[i] = IF i = 0 THEN 0 ELSE g[i - 1] + size(i)
    <3>0. CASE i = 0
      BY <3>0
    <3>1. CASE i = 1
      <4>1. i - 1 = 0 /\ i - 1 \in 0..n
        BY <3>1
      <4> QED
        BY <3>1, <4>1 DEF one
    <3>2. CASE i = 2
      <4>1. i - 1 = 1 /\ i - 1 \in 0..n
        BY <3>2
      <4> QED
        BY <3>2, <4>1 DEF two
    <3>3. CASE i = 3
      <4>1. i - 1 = 2 /\ i - 1 \in 0..n
        BY <3>3
      <4> QED
        BY <3>3, <4>1 DEF three
    <3>4. CASE i = 4
      <4>1. i - 1 = 3 /\ i - 1 \in 0..n
        BY <3>4
      <4> QED
        BY <3>4, <4>1
    <3> QED
      BY <2>1, <3>0, <3>1, <3>2, <3>3, <3>4
  <2>3. g = [i \in 0..n |-> g[i]]
    OBVIOUS
  <2> HIDE DEF g
  <2> QED
    BY <2>2, <2>3
<1>2. Is(after)
  <2> HIDE DEF Is, g
  <2> QED
    BY <1>1
<1>3. Offset(L, wire) = after
  BY DEF Offset
<1> HIDE DEF after
<1>4. \A i \in 0..n : after[i] = IF i = 0 THEN 0 ELSE after[i - 1] + size(i)
  BY <1>2
<1>5. 0 \in 0..n /\ \A i \in 1..n : i \in 0..n /\ i # 0
  OBVIOUS
<1> QED
  BY <1>3, <1>4, <1>5

\* The number in front for a name is the one that was written for it.
LEMMA Numbered ==
  ASSUME NEW L, NEW m, NEW wire, WellFormed(L), wire.front = Write(L, m).front,
         NEW f \in ToSet(L.front)
  PROVE  Number(L, wire, f) = IF f \in ToSet(L.cuts) THEN Len(m[f]) ELSE m[f]
<1> DEFINE at == CHOOSE i \in DOMAIN L.front : L.front[i] = f
<1>1. at \in DOMAIN L.front /\ L.front[at] = f
  BY DEF ToSet
<1>2. Number(L, wire, f) = wire.front[at]
  BY DEF Number
<1> HIDE DEF at
<1> QED
  BY <1>1, <1>2 DEF Write

\* The sizes read are the lengths of the byte strings written.
LEMMA Sized ==
  ASSUME NEW L, NEW m, NEW wire, WellFormed(L), Fits(L, m),
         wire.front = Write(L, m).front, NEW f \in ToSet(L.cuts)
  PROVE  Size(L, wire, f) = Len(m[f]) /\ Len(m[f]) \in Nat
<1>1. m[f] \in Seq(Nat) /\ Len(m[f]) \in Nat
  BY DEF Fits, ByteStrings
<1>2. CASE f \in ToSet(L.front)
  <2>1. Number(L, wire, f) = Len(m[f])
    BY <1>2, Numbered
  <2> QED
    BY <1>1, <1>2, <2>1 DEF Size, WellFormed
<1>3. CASE f \notin ToSet(L.front)
  <2>1. Size(L, wire, f) = IF f = "salt_epoch" THEN SaltSize ELSE NonceSize
    BY <1>3 DEF Size
  <2>2. Len(m[f]) = IF f = "salt_epoch" THEN SaltSize ELSE NonceSize
    BY <1>3 DEF Fits
  <2> QED
    BY <1>1, <2>1, <2>2
<1> QED
  BY <1>2, <1>3

\* Of the first i byte strings of s, put one after the other in flat[i], each
\* is cut out at its offsets.
CutsOut(flat, after, s, i) ==
  /\ Len(flat[i]) = after[i]
  /\ \A j \in 1..i : /\ after[j - 1] <= after[j] /\ after[j] <= after[i]
                     /\ Slice(flat[i], after[j - 1], after[j]) = s[j]

\* One byte string more, and the cuts so far stay.
LEMMA OneMore ==
  ASSUME NEW n \in 1..4, NEW i \in 1..n, i # 1,
         NEW flat \in [1..n -> ByteStrings], NEW s \in [1..n -> ByteStrings],
         NEW after,
         \A j \in 0..n : after[j] \in Nat,
         \A j \in 1..n : after[j] = after[j - 1] + Len(s[j]),
         flat[i] = flat[i - 1] \o s[i],
         CutsOut(flat, after, s, i - 1)
  PROVE  CutsOut(flat, after, s, i)
<1>0. /\ Len(flat[i - 1]) = after[i - 1]
      /\ \A j \in 1..i - 1 : /\ after[j - 1] <= after[j] /\ after[j] <= after[i - 1]
                              /\ Slice(flat[i - 1], after[j - 1], after[j]) = s[j]
  BY DEF CutsOut
<1>1. /\ i - 1 \in 1..n /\ i - 1 \in 0..n /\ i \in 0..n
      /\ flat[i - 1] \in ByteStrings /\ s[i] \in ByteStrings
  OBVIOUS
<1>2. /\ Len(flat[i]) = Len(flat[i - 1]) + Len(s[i]) /\ Len(s[i]) \in Nat
  BY <1>1, Appended
<1>3. /\ after[i] = after[i - 1] + Len(s[i]) /\ after[i] \in Nat /\ after[i - 1] \in Nat
  BY <1>1
<1>4. ASSUME NEW j \in 1..i - 1
      PROVE  /\ after[j - 1] <= after[j] /\ after[j] <= after[i]
             /\ Slice(flat[i], after[j - 1], after[j]) = s[j]
  <2>1. /\ j \in 0..n /\ j - 1 \in 0..n
        /\ after[j - 1] \in Nat /\ after[j] \in Nat
    OBVIOUS
  <2>2. after[j - 1] <= after[j] /\ after[j] <= Len(flat[i - 1])
    BY <1>0
  <2>3. Slice(flat[i], after[j - 1], after[j]) = Slice(flat[i - 1], after[j - 1], after[j])
    BY <1>1, <2>1, <2>2, CutKept
  <2>4. after[j] <= after[i]
    BY <1>0, <1>2, <1>3, <2>1
  <2> QED
    BY <1>0, <2>2, <2>3, <2>4
<1>5. /\ after[i - 1] <= after[i] /\ after[i] <= after[i]
      /\ Slice(flat[i], after[i - 1], after[i]) = s[i]
  <2>1. Slice(flat[i], Len(flat[i - 1]), Len(flat[i - 1]) + Len(s[i])) = s[i]
    BY <1>1, CutLast
  <2>2. after[i - 1] <= after[i] /\ after[i] <= after[i]
    BY <1>2, <1>3
  <2> QED
    BY <1>0, <1>3, <2>1, <2>2
<1>6. \A j \in 1..i : j \in 1..i - 1 \/ j = i
  OBVIOUS
<1>7. Len(flat[i]) = after[i]
  BY <1>0, <1>2, <1>3
<1> QED
  BY <1>4, <1>5, <1>6, <1>7 DEF CutsOut

\* A slice from the first byte to the last leaves nothing out.
LEMMA CutWhole ==
  ASSUME NEW a \in ByteStrings
  PROVE  Slice(a, 0, Len(a)) = a
<1>1. Slice(a, 0, Len(a)) = SubSeq(a, 1, Len(a))
  <2>1. Len(a) \in Nat /\ (IF Len(a) < Len(a) THEN Len(a) ELSE Len(a)) = Len(a)
    BY Appended
  <2> QED
    BY <2>1 DEF Slice
<1> QED
  BY <1>1, SubSeqFull DEF ByteStrings

\* Whatever is appended to a message, its layout reads from the bytes what it
\* wrote into them, and ends where they end.
LEMMA RoundTrip ==
  ASSUME NEW L, NEW m, NEW t \in ByteStrings, NEW wire,
         WellFormed(L), Fits(L, m),
         wire.front = Write(L, m).front, wire.body = Write(L, m).body \o t
  PROVE  /\ \A f \in ToSet(L.front) \cup ToSet(L.cuts) : Read(L, wire)[f] = m[f]
         /\ Offset(L, wire)[Len(L.cuts)] = Len(Write(L, m).body)
         /\ Write(L, m).body \in ByteStrings
<1>1. PICK n \in 1..4 : Len(L.cuts) = n /\ DOMAIN L.cuts = 1..n
  BY DEF WellFormed
<1> DEFINE s == [i \in 1..n |-> m[L.cuts[i]]]
           after == Offset(L, wire)
<1>2. /\ DOMAIN L.cuts = 1..n /\ Len(L.cuts) = n
      /\ \A i \in 1..n : L.cuts[i] \in ToSet(L.cuts)
  BY <1>1 DEF ToSet
<1>3. s \in [1..n -> ByteStrings]
  BY <1>2 DEF Fits
<1>4. Write(L, m).body = FlattenSeq(s)
  BY <1>2 DEF Write
<1>5. PICK flat \in [1..n -> ByteStrings] :
           /\ flat[1] = s[1]
           /\ \A i \in 1..n : i # 1 => flat[i] = flat[i - 1] \o s[i]
           /\ FlattenSeq(s) = flat[n]
  <2> HIDE DEF s
  <2> QED
    BY <1>3, Flattened
<1>6. /\ after[0] = 0
      /\ \A i \in 1..n : after[i] = after[i - 1] + Len(s[i])
      /\ \A i \in 1..n : Len(s[i]) \in Nat
  <2>1. \A i \in 1..n : /\ Size(L, wire, L.cuts[i]) = Len(m[L.cuts[i]])
                        /\ Len(m[L.cuts[i]]) \in Nat
    BY <1>2, Sized
  <2>2. \A i \in 1..n : s[i] = m[L.cuts[i]]
    OBVIOUS
  <2>3. /\ after[0] = 0
        /\ \A i \in 1..n : after[i] = after[i - 1] + Size(L, wire, L.cuts[i])
    BY <1>2, Offsets
  <2> HIDE DEF s, after
  <2> QED
    BY <2>1, <2>2, <2>3
<1> HIDE DEF s, after
<1>7. \A i \in 0..n : after[i] \in Nat
  <2>1. ASSUME NEW i \in 1..n, after[i - 1] \in Nat
        PROVE  after[i] \in Nat
    BY <1>6, <2>1
  <2>2. after[0] \in Nat
    BY <1>6
  <2>3. 1 \in 1..n => after[1] \in Nat
    BY <2>1, <2>2
  <2>4. 2 \in 1..n => after[2] \in Nat
    <3>1. 2 \in 1..n => 1 \in 1..n /\ 2 - 1 = 1
      OBVIOUS
    <3> QED
      BY <2>1, <2>3, <3>1
  <2>5. 3 \in 1..n => after[3] \in Nat
    <3>1. 3 \in 1..n => 2 \in 1..n /\ 3 - 1 = 2
      OBVIOUS
    <3> QED
      BY <2>1, <2>4, <3>1
  <2>6. 4 \in 1..n => after[4] \in Nat
    <3>1. 4 \in 1..n => 3 \in 1..n /\ 4 - 1 = 3
      OBVIOUS
    <3> QED
      BY <2>1, <2>5, <3>1
  <2>7. \A i \in 0..n : i = 0 \/ (i \in {1, 2, 3, 4} /\ i \in 1..n)
    OBVIOUS
  <2> QED
    BY <2>2, <2>3, <2>4, <2>5, <2>6, <2>7
<1> DEFINE P(i) == CutsOut(flat, after, s, i)
<1>8. P(n)
  <2>1. ASSUME NEW i \in 1..n, i # 1, P(i - 1)
        PROVE  P(i)
    <3>1. flat[i] = flat[i - 1] \o s[i]
      BY <1>5, <2>1
    <3> QED
      BY <1>3, <1>6, <1>7, <2>1, <3>1, OneMore
  <2>2. P(1)
    <3>1. 1 \in 1..n /\ s[1] \in ByteStrings
      BY <1>3
    <3>2. after[0] = 0 /\ after[1] = Len(s[1]) /\ Len(s[1]) \in Nat
      <4>1. after[1] = after[1 - 1] + Len(s[1]) /\ 1 - 1 = 0
        BY <1>6, <3>1
      <4> QED
        BY <1>6, <3>1, <4>1
    <3>3. Slice(s[1], 0, Len(s[1])) = s[1]
      BY <3>1, CutWhole
    <3>4. \A j \in 1..1 : j = 1 /\ j - 1 = 0
      OBVIOUS
    <3> QED
      BY <1>5, <3>2, <3>3, <3>4 DEF CutsOut
  <2> HIDE DEF P
  <2>3. 2 \in 1..n => P(2)
    <3>1. 2 - 1 = 1
      OBVIOUS
    <3> QED
      BY <2>1, <2>2, <3>1
  <2>4. 3 \in 1..n => P(3)
    <3>1. 3 \in 1..n => 2 \in 1..n /\ 3 - 1 = 2
      OBVIOUS
    <3> QED
      BY <2>1, <2>3, <3>1
  <2>5. 4 \in 1..n => P(4)
    <3>1. 4 \in 1..n => 3 \in 1..n /\ 4 - 1 = 3
      OBVIOUS
    <3> QED
      BY <2>1, <2>4, <3>1
  <2>6. n \in {1, 2, 3, 4} /\ n \in 1..n
    OBVIOUS
  <2> QED
    BY <2>2, <2>3, <2>4, <2>5, <2>6
<1>9. flat[n] \in ByteStrings
  OBVIOUS
<1>10. ASSUME NEW j \in 1..n
       PROVE  Slice(wire.body, after[j - 1], after[j]) = m[L.cuts[j]]
  <2>1. wire.body = flat[n] \o t
    BY <1>4, <1>5
  <2>2. /\ after[j - 1] <= after[j] /\ after[j] <= Len(flat[n])
        /\ Slice(flat[n], after[j - 1], after[j]) = s[j]
    BY <1>8 DEF CutsOut
  <2>3. after[j - 1] \in Nat /\ after[j] \in Nat
    BY <1>7
  <2>4. Slice(flat[n] \o t, after[j - 1], after[j]) = s[j]
    BY <1>9, <2>2, <2>3, CutKept
  <2>5. s[j] = m[L.cuts[j]]
    BY DEF s
  <2> QED
    BY <2>1, <2>4, <2>5
<1>11. ASSUME NEW f \in ToSet(L.cuts)
       PROVE  Read(L, wire)[f] = m[f]
  <2> DEFINE at == CHOOSE i \in DOMAIN L.cuts : L.cuts[i] = f
  <2>1. at \in 1..n /\ L.cuts[at] = f
    BY <1>2 DEF ToSet
  <2>2. Read(L, wire)[f] = Slice(wire.body, after[at - 1], after[at])
    BY DEF Read, after
  <2> HIDE DEF at
  <2> QED
    BY <1>10, <2>1, <2>2
<1>12. ASSUME NEW f \in ToSet(L.front), f \notin ToSet(L.cuts)
       PROVE  Read(L, wire)[f] = m[f]
  <2>1. Read(L, wire)[f] = Number(L, wire, f)
    BY <1>12 DEF Read
  <2> QED
    BY <1>12, <2>1, Numbered
<1>13. after[Len(L.cuts)] = Len(Write(L, m).body) /\ Write(L, m).body \in ByteStrings
  BY <1>2, <1>4, <1>5, <1>8, <1>9 DEF CutsOut
<1> QED
  BY <1>11, <1>12, <1>13 DEF after

\* The same without anything behind.
LEMMA RoundTripAlone ==
  ASSUME NEW L, NEW m, WellFormed(L), Fits(L, m)
  PROVE  \A f \in ToSet(L.front) \cup ToSet(L.cuts) : Read(L, Write(L, m))[f] = m[f]
<1>1. <<>> \in ByteStrings
  BY DEF ByteStrings
<1>2. PICK n \in 1..4 : Len(L.cuts) = n /\ DOMAIN L.cuts = 1..n
  BY DEF WellFormed
<1>3. Write(L, m).body \in ByteStrings
  <2> DEFINE s == [i \in 1..n |-> m[L.cuts[i]]]
  <2>1. s \in [1..n -> ByteStrings] /\ Write(L, m).body = FlattenSeq(s)
    BY <1>2 DEF Write, Fits, ToSet
  <2>2. n \in 1..n
    OBVIOUS
  <2> HIDE DEF s
  <2> QED
    <3>1. PICK flat \in [1..n -> ByteStrings] : FlattenSeq(s) = flat[n]
      BY <2>1, Flattened
    <3> QED
      BY <2>1, <2>2, <3>1
<1>4. Write(L, m).body = Write(L, m).body \o <<>>
  BY <1>3, ConcatEmptySeq DEF ByteStrings
<1> DEFINE wire == Write(L, m)
<1>5. wire.front = Write(L, m).front /\ wire.body = Write(L, m).body \o <<>>
  BY <1>4
<1> HIDE DEF wire
<1>6. \A f \in ToSet(L.front) \cup ToSet(L.cuts) : Read(L, wire)[f] = m[f]
  <2> DEFINE t == <<>>
  <2>1. t \in ByteStrings /\ wire.front = Write(L, m).front /\ wire.body = Write(L, m).body \o t
    BY <1>1, <1>5
  <2> HIDE DEF t
  <2> QED
    BY <2>1, RoundTrip
<1> QED
  BY <1>6 DEF wire

------------------------------------------------------------------------------
(* The seven layouts: writer and reader agree on each.                     *)

\* AuthRequest.serialize and deserialize in phase1_auth.py.
LEMMA AuthRequestLayout ==
  /\ ParsedAuthRequest = WrittenAuthRequest /\ WellFormed(WrittenAuthRequest)
  /\ ToSet(WrittenAuthRequest.front) = {"encapsulation_key", "client_id",
                                             "signature", "sequence_number"}
  /\ ToSet(WrittenAuthRequest.cuts) = {"encapsulation_key", "nonce_client",
                                            "client_id", "signature"}
<1> DEFINE front == <<"encapsulation_key", "client_id", "signature",
                      "sequence_number">>
           cuts == <<"encapsulation_key", "nonce_client", "client_id", "signature">>
<1>1. /\ WrittenAuthRequest.front = front /\ WrittenAuthRequest.cuts = cuts
      /\ ParsedAuthRequest = WrittenAuthRequest
  BY DEF WrittenAuthRequest, ParsedAuthRequest, Layout
<1>2. Len(cuts) = 4 /\ DOMAIN cuts = 1..4
  OBVIOUS
<1>3. ToSet(front) = {"encapsulation_key", "client_id", "signature",
                      "sequence_number"}
  BY DEF ToSet
<1>4. ToSet(cuts) = {"encapsulation_key", "nonce_client", "client_id", "signature"}
  BY DEF ToSet
<1> HIDE DEF front, cuts
<1> QED
  BY <1>1, <1>2, <1>3, <1>4 DEF WellFormed

\* AuthResponse in phase1_auth.py.
LEMMA AuthResponseLayout ==
  /\ ParsedAuthResponse = WrittenAuthResponse /\ WellFormed(WrittenAuthResponse)
  /\ ToSet(WrittenAuthResponse.front) = {"ciphertext", "signature",
                                              "sequence_number"}
  /\ ToSet(WrittenAuthResponse.cuts) = {"ciphertext", "nonce_tta", "signature"}
<1> DEFINE front == <<"ciphertext", "signature", "sequence_number">>
           cuts == <<"ciphertext", "nonce_tta", "signature">>
<1>1. /\ WrittenAuthResponse.front = front /\ WrittenAuthResponse.cuts = cuts
      /\ ParsedAuthResponse = WrittenAuthResponse
  BY DEF WrittenAuthResponse, ParsedAuthResponse, Layout
<1>2. Len(cuts) = 3 /\ DOMAIN cuts = 1..3
  OBVIOUS
<1>3. ToSet(front) = {"ciphertext", "signature", "sequence_number"}
  BY DEF ToSet
<1>4. ToSet(cuts) = {"ciphertext", "nonce_tta", "signature"}
  BY DEF ToSet
<1> HIDE DEF front, cuts
<1> QED
  BY <1>1, <1>2, <1>3, <1>4 DEF WellFormed

\* TSARequest in phase2_tsa.py.
LEMMA TSARequestLayout ==
  /\ ParsedTSARequest = WrittenTSARequest /\ WellFormed(WrittenTSARequest)
  /\ ToSet(WrittenTSARequest.front) = {"topic", "priority", "level_min",
                                            "level_max"}
  /\ ToSet(WrittenTSARequest.cuts) = {"topic"}
<1> DEFINE front == <<"topic", "priority", "level_min", "level_max">>
           cuts == <<"topic">>
<1>1. /\ WrittenTSARequest.front = front /\ WrittenTSARequest.cuts = cuts
      /\ ParsedTSARequest = WrittenTSARequest
  BY DEF WrittenTSARequest, ParsedTSARequest, Layout
<1>2. Len(cuts) = 1 /\ DOMAIN cuts = 1..1
  OBVIOUS
<1>3. ToSet(front) = {"topic", "priority", "level_min", "level_max"}
  BY DEF ToSet
<1>4. ToSet(cuts) = {"topic"}
  BY DEF ToSet
<1> HIDE DEF front, cuts
<1> QED
  BY <1>1, <1>2, <1>3, <1>4 DEF WellFormed

\* TSAResponse in phase2_tsa.py.
LEMMA TSAResponseLayout ==
  /\ ParsedTSAResponse = WrittenTSAResponse /\ WellFormed(WrittenTSAResponse)
  /\ ToSet(WrittenTSAResponse.front) = {"accepted", "level_min", "level_max",
                                             "reason"}
  /\ ToSet(WrittenTSAResponse.cuts) = {"reason"}
<1> DEFINE front == <<"accepted", "level_min", "level_max", "reason">>
           cuts == <<"reason">>
<1>1. /\ WrittenTSAResponse.front = front /\ WrittenTSAResponse.cuts = cuts
      /\ ParsedTSAResponse = WrittenTSAResponse
  BY DEF WrittenTSAResponse, ParsedTSAResponse, Layout
<1>2. Len(cuts) = 1 /\ DOMAIN cuts = 1..1
  OBVIOUS
<1>3. ToSet(front) = {"accepted", "level_min", "level_max", "reason"}
  BY DEF ToSet
<1>4. ToSet(cuts) = {"reason"}
  BY DEF ToSet
<1> HIDE DEF front, cuts
<1> QED
  BY <1>1, <1>2, <1>3, <1>4 DEF WellFormed

\* SubTopicConfig in phase3_agreement.py, up to its tables.
LEMMA ConfigLayout ==
  /\ ParsedConfig = WrittenConfig /\ WellFormed(WrittenConfig)
  /\ ToSet(WrittenConfig.front) = {"topic", "publisher_id", "epoch_id",
                                        "level_min", "level_max", "current_level"}
  /\ ToSet(WrittenConfig.cuts) = {"topic", "salt_epoch"}
<1> DEFINE front == <<"topic", "publisher_id", "epoch_id", "level_min",
                      "level_max", "current_level">>
           cuts == <<"topic", "salt_epoch">>
<1>1. /\ WrittenConfig.front = front /\ WrittenConfig.cuts = cuts
      /\ ParsedConfig = WrittenConfig
  BY DEF WrittenConfig, ParsedConfig, Layout
<1>2. Len(cuts) = 2 /\ DOMAIN cuts = 1..2
  OBVIOUS
<1>3. ToSet(front) = {"topic", "publisher_id", "epoch_id", "level_min",
                      "level_max", "current_level"}
  BY DEF ToSet
<1>4. ToSet(cuts) = {"topic", "salt_epoch"}
  BY DEF ToSet
<1> HIDE DEF front, cuts
<1> QED
  BY <1>1, <1>2, <1>3, <1>4 DEF WellFormed

\* KeyRequest in phase5_retrieval.py.
LEMMA KeyRequestLayout ==
  /\ ParsedKeyRequest = WrittenKeyRequest /\ WellFormed(WrittenKeyRequest)
  /\ ToSet(WrittenKeyRequest.front) = {"topic", "subscriber_id"}
  /\ ToSet(WrittenKeyRequest.cuts) = {"topic", "subscriber_id"}
<1> DEFINE front == <<"topic", "subscriber_id">>
           cuts == <<"topic", "subscriber_id">>
<1>1. /\ WrittenKeyRequest.front = front /\ WrittenKeyRequest.cuts = cuts
      /\ ParsedKeyRequest = WrittenKeyRequest
  BY DEF WrittenKeyRequest, ParsedKeyRequest, Layout
<1>2. Len(cuts) = 2 /\ DOMAIN cuts = 1..2
  OBVIOUS
<1>3. ToSet(front) = {"topic", "subscriber_id"}
  BY DEF ToSet
<1>4. ToSet(cuts) = {"topic", "subscriber_id"}
  BY DEF ToSet
<1> HIDE DEF front, cuts
<1> QED
  BY <1>1, <1>2, <1>3, <1>4 DEF WellFormed

\* KeyResponse in phase5_retrieval.py.
LEMMA KeyResponseLayout ==
  /\ ParsedKeyResponse = WrittenKeyResponse /\ WellFormed(WrittenKeyResponse)
  /\ ToSet(WrittenKeyResponse.front) = {"accepted", "topic", "epoch_id",
                                             "current_level", "level_min",
                                             "level_max", "subtopic_key", "reason"}
  /\ ToSet(WrittenKeyResponse.cuts) = {"topic", "subtopic_key", "salt_epoch",
                                            "reason"}
<1> DEFINE front == <<"accepted", "topic", "epoch_id", "current_level",
                      "level_min", "level_max", "subtopic_key", "reason">>
           cuts == <<"topic", "subtopic_key", "salt_epoch", "reason">>
<1>1. /\ WrittenKeyResponse.front = front /\ WrittenKeyResponse.cuts = cuts
      /\ ParsedKeyResponse = WrittenKeyResponse
  BY DEF WrittenKeyResponse, ParsedKeyResponse, Layout
<1>2. Len(cuts) = 4 /\ DOMAIN cuts = 1..4
  OBVIOUS
<1>3. ToSet(front) = {"accepted", "topic", "epoch_id", "current_level",
                      "level_min", "level_max", "subtopic_key", "reason"}
  BY DEF ToSet
<1>4. ToSet(cuts) = {"topic", "subtopic_key", "salt_epoch", "reason"}
  BY DEF ToSet
<1> HIDE DEF front, cuts
<1> QED
  BY <1>1, <1>2, <1>3, <1>4 DEF WellFormed

------------------------------------------------------------------------------
(* The messages.                                                           *)

Nonces == {n \in ByteStrings : Len(n) = NonceSize}
Salts == {s \in ByteStrings : Len(s) = SaltSize}

AuthRequests == [encapsulation_key : ByteStrings, nonce_client : Nonces,
                 client_id : ByteStrings, sequence_number : Nat,
                 signature : ByteStrings]

AuthResponses == [ciphertext : ByteStrings, nonce_tta : Nonces,
                  sequence_number : Nat, signature : ByteStrings]

TSARequests == [topic : ByteStrings, priority : Nat, level_min : Nat, level_max : Nat]

TSAResponses == [accepted : {0, 1}, level_min : Nat, level_max : Nat,
                 reason : ByteStrings]

KeyRequests == [topic : ByteStrings, subscriber_id : ByteStrings]

KeyResponses == [accepted : {0, 1}, topic : ByteStrings, epoch_id : Nat,
                 current_level : Nat, level_min : Nat, level_max : Nat,
                 subtopic_key : ByteStrings, salt_epoch : Salts, reason : ByteStrings]

\* A message with no other fields than its layout's is read as it was written,
\* whatever the lengths of its byte strings (every serialize and deserialize that
\* puts lengths and numbers in front and byte strings behind).
THEOREM RecordArrives ==
  ASSUME NEW L, NEW m, WellFormed(L), Fits(L, m),
         m = [f \in ToSet(L.front) \cup ToSet(L.cuts) |-> m[f]]
  PROVE  Read(L, Write(L, m)) = m
<1> DEFINE r == Read(L, Write(L, m))
<1>1. r = [f \in ToSet(L.front) \cup ToSet(L.cuts) |-> r[f]]
  BY DEF Read
<1>2. \A f \in ToSet(L.front) \cup ToSet(L.cuts) : r[f] = m[f]
  BY RoundTripAlone
<1> HIDE DEF r
<1>3. r = m
  BY <1>1, <1>2
<1> QED
  BY <1>3 DEF r

\* The six messages that are nothing but their layout, one by one.
LEMMA AuthRequestArrives ==
  \A m \in AuthRequests : Read(ParsedAuthRequest, Write(WrittenAuthRequest, m)) = m
<1> SUFFICES ASSUME NEW m \in AuthRequests
             PROVE  Read(WrittenAuthRequest, Write(WrittenAuthRequest, m)) = m
  BY AuthRequestLayout
<1>1. Fits(WrittenAuthRequest, m)
  BY AuthRequestLayout DEF Fits, AuthRequests, Nonces
<1>2. m = [f \in ToSet(WrittenAuthRequest.front) \cup ToSet(WrittenAuthRequest.cuts) |-> m[f]]
  BY AuthRequestLayout DEF AuthRequests
<1> QED
  BY <1>1, <1>2, AuthRequestLayout, RecordArrives

LEMMA AuthResponseArrives ==
  \A m \in AuthResponses : Read(ParsedAuthResponse, Write(WrittenAuthResponse, m)) = m
<1> SUFFICES ASSUME NEW m \in AuthResponses
             PROVE  Read(WrittenAuthResponse, Write(WrittenAuthResponse, m)) = m
  BY AuthResponseLayout
<1>1. Fits(WrittenAuthResponse, m)
  BY AuthResponseLayout DEF Fits, AuthResponses, Nonces
<1>2. m = [f \in ToSet(WrittenAuthResponse.front) \cup ToSet(WrittenAuthResponse.cuts) |-> m[f]]
  BY AuthResponseLayout DEF AuthResponses
<1> QED
  BY <1>1, <1>2, AuthResponseLayout, RecordArrives

LEMMA TSARequestArrives ==
  \A m \in TSARequests : Read(ParsedTSARequest, Write(WrittenTSARequest, m)) = m
<1> SUFFICES ASSUME NEW m \in TSARequests
             PROVE  Read(WrittenTSARequest, Write(WrittenTSARequest, m)) = m
  BY TSARequestLayout
<1>1. Fits(WrittenTSARequest, m)
  BY TSARequestLayout DEF Fits, TSARequests
<1>2. m = [f \in ToSet(WrittenTSARequest.front) \cup ToSet(WrittenTSARequest.cuts) |-> m[f]]
  BY TSARequestLayout DEF TSARequests
<1> QED
  BY <1>1, <1>2, TSARequestLayout, RecordArrives

LEMMA TSAResponseArrives ==
  \A m \in TSAResponses : Read(ParsedTSAResponse, Write(WrittenTSAResponse, m)) = m
<1> SUFFICES ASSUME NEW m \in TSAResponses
             PROVE  Read(WrittenTSAResponse, Write(WrittenTSAResponse, m)) = m
  BY TSAResponseLayout
<1>1. Fits(WrittenTSAResponse, m)
  BY TSAResponseLayout DEF Fits, TSAResponses
<1>2. m = [f \in ToSet(WrittenTSAResponse.front) \cup ToSet(WrittenTSAResponse.cuts) |-> m[f]]
  BY TSAResponseLayout DEF TSAResponses
<1> QED
  BY <1>1, <1>2, TSAResponseLayout, RecordArrives

LEMMA KeyRequestArrives ==
  \A m \in KeyRequests : Read(ParsedKeyRequest, Write(WrittenKeyRequest, m)) = m
<1> SUFFICES ASSUME NEW m \in KeyRequests
             PROVE  Read(WrittenKeyRequest, Write(WrittenKeyRequest, m)) = m
  BY KeyRequestLayout
<1>1. Fits(WrittenKeyRequest, m)
  BY KeyRequestLayout DEF Fits, KeyRequests
<1>2. m = [f \in ToSet(WrittenKeyRequest.front) \cup ToSet(WrittenKeyRequest.cuts) |-> m[f]]
  BY KeyRequestLayout DEF KeyRequests
<1> QED
  BY <1>1, <1>2, KeyRequestLayout, RecordArrives

LEMMA KeyResponseArrives ==
  \A m \in KeyResponses : Read(ParsedKeyResponse, Write(WrittenKeyResponse, m)) = m
<1> SUFFICES ASSUME NEW m \in KeyResponses
             PROVE  Read(WrittenKeyResponse, Write(WrittenKeyResponse, m)) = m
  BY KeyResponseLayout
<1>1. Fits(WrittenKeyResponse, m)
  BY KeyResponseLayout DEF Fits, KeyResponses, Salts
<1>2. m = [f \in ToSet(WrittenKeyResponse.front) \cup ToSet(WrittenKeyResponse.cuts) |-> m[f]]
  BY KeyResponseLayout DEF KeyResponses
<1> QED
  BY <1>1, <1>2, KeyResponseLayout, RecordArrives

\* What one side writes of Phases I, II and V is what the other side reads: of each
\* of the six messages deserialize undoes serialize, for every value of its fields.
THEOREM SixMessagesArrive ==
  /\ \A m \in AuthRequests : Read(ParsedAuthRequest, Write(WrittenAuthRequest, m)) = m
  /\ \A m \in AuthResponses : Read(ParsedAuthResponse, Write(WrittenAuthResponse, m)) = m
  /\ \A m \in TSARequests : Read(ParsedTSARequest, Write(WrittenTSARequest, m)) = m
  /\ \A m \in TSAResponses : Read(ParsedTSAResponse, Write(WrittenTSAResponse, m)) = m
  /\ \A m \in KeyRequests : Read(ParsedKeyRequest, Write(WrittenKeyRequest, m)) = m
  /\ \A m \in KeyResponses : Read(ParsedKeyResponse, Write(WrittenKeyResponse, m)) = m
BY AuthRequestArrives, AuthResponseArrives, TSARequestArrives, TSAResponseArrives,
   KeyRequestArrives, KeyResponseArrives

------------------------------------------------------------------------------
(* A table of one entry, or of the entries of two levels on end.           *)

Regroups(a, b, c) == (a \o b) \o c = a \o (b \o c)

\* Appending is associative.
LEMMA Regrouped ==
  ASSUME NEW a \in ByteStrings, NEW b \in ByteStrings, NEW c \in ByteStrings
  PROVE  Regroups(a, b, c)
BY ConcatAssociative DEF ByteStrings, Regroups

\* Where the bytes of two strings are when one is appended to the other.
LEMMA Placed ==
  ASSUME NEW a \in ByteStrings, NEW b \in ByteStrings
  PROVE  /\ \A i \in 1..Len(a) : (a \o b)[i] = a[i]
         /\ \A i \in 1..Len(b) : (a \o b)[Len(a) + i] = b[i]
<1>1. /\ Len(a) \in Nat /\ Len(b) \in Nat
      /\ \A i \in 1..Len(a) + Len(b) : (a \o b)[i] = IF i <= Len(a) THEN a[i] ELSE b[i - Len(a)]
  BY ConcatProperties DEF ByteStrings
<1>2. ASSUME NEW i \in 1..Len(a)
      PROVE  (a \o b)[i] = a[i]
  BY <1>1
<1>3. ASSUME NEW i \in 1..Len(b)
      PROVE  (a \o b)[Len(a) + i] = b[i]
  <2>1. /\ Len(a) + i \in 1..Len(a) + Len(b) /\ ~(Len(a) + i <= Len(a))
        /\ (Len(a) + i) - Len(a) = i
    BY <1>1
  <2> QED
    BY <1>1, <2>1
<1> QED
  BY <1>2, <1>3

\* One number and two are byte strings.
LEMMA Numbers ==
  /\ \A x, y \in Nat : <<x, y>> \in ByteStrings /\ Len(<<x, y>>) = 2
  /\ \A x \in Nat : <<x>> \in ByteStrings /\ Len(<<x>>) = 1
BY DEF ByteStrings

\* The levels of a table of one or two in the order they are written.
LEMMA OneInOrder ==
  ASSUME NEW lo \in Nat
  PROVE  InOrder({lo}) = <<lo>>
<1> DEFINE Sorted(s) == s \in [1..1 -> {lo}] /\ \A i, j \in DOMAIN s : i < j => s[i] < s[j]
<1>1. Cardinality({lo}) = 1
  BY FS_Singleton
<1>2. Sorted(<<lo>>)
  OBVIOUS
<1>3. InOrder({lo}) = CHOOSE s : Sorted(s)
  BY <1>1 DEF InOrder
<1>4. Sorted(CHOOSE s : Sorted(s))
  <2> HIDE DEF Sorted
  <2> QED
    BY <1>2
<1>5. \A s : Sorted(s) => s = <<lo>>
  OBVIOUS
<1> QED
  BY <1>3, <1>4, <1>5

\* Of two the lower one comes first.
LEMMA TwoInOrder ==
  ASSUME NEW lo \in Nat
  PROVE  InOrder({lo, lo + 1}) = <<lo, lo + 1>>
<1> DEFINE S == {lo, lo + 1}
           Sorted(s) == s \in [1..2 -> S] /\ \A i, j \in DOMAIN s : i < j => s[i] < s[j]
<1>1. Cardinality(S) = 2
  <2>1. IsFiniteSet({lo}) /\ Cardinality({lo}) = 1
    BY FS_Singleton
  <2>3. lo + 1 \notin {lo}
    OBVIOUS
  <2>2. S = {lo} \cup {lo + 1}
    OBVIOUS
  <2>4. Cardinality({lo} \cup {lo + 1}) = Cardinality({lo}) + 1
    BY <2>1, <2>3, FS_AddElement
  <2> QED
    BY <2>1, <2>2, <2>4
<1>2. Sorted(<<lo, lo + 1>>)
  OBVIOUS
<1>3. InOrder(S) = CHOOSE s : Sorted(s)
  BY <1>1 DEF InOrder
<1>4. Sorted(CHOOSE s : Sorted(s))
  <2> HIDE DEF Sorted
  <2> QED
    BY <1>2
<1>5. ASSUME NEW s, Sorted(s)
      PROVE  s = <<lo, lo + 1>>
  <2>1. s \in [1..2 -> S] /\ s[1] < s[2]
    BY <1>5
  <2>2. s[1] \in S /\ s[2] \in S
    BY <2>1
  <2>3. s[1] = lo /\ s[2] = lo + 1
    BY <2>1, <2>2
  <2> QED
    BY <2>1, <2>3
<1> HIDE DEF Sorted
<1> QED
  BY <1>3, <1>4, <1>5

\* The bytes of a table: how many entries, and level, length and key of each.
LEMMA TableOfOne ==
  ASSUME NEW lo \in Nat, NEW table \in [{lo} -> ByteStrings]
  PROVE  WriteTable(table) = (<<1>> \o <<lo, Len(table[lo])>>) \o table[lo]
<1> DEFINE k == table[lo]
           s == [i \in 1..1 |-> <<lo, Len(k)>> \o k]
<1>1. k \in ByteStrings /\ <<lo, Len(k)>> \in ByteStrings /\ <<1>> \in ByteStrings
  BY Numbers, Appended
<1>2. s \in [1..1 -> ByteStrings]
  BY <1>1, Appended
<1>3. FlattenSeq(s) = s[1] /\ s[1] = <<lo, Len(k)>> \o k
  <2>1. 1 \in 1..4 /\ s[1] = <<lo, Len(k)>> \o k
    OBVIOUS
  <2> HIDE DEF s
  <2> QED
    BY <1>2, <2>1, Flattened
<1>4. WriteTable(table) = <<1>> \o FlattenSeq(s)
  <2> DEFINE levels == <<lo>>
  <2>1. InOrder(DOMAIN table) = levels
    BY OneInOrder
  <2>2. /\ Len(levels) = 1 /\ DOMAIN levels = 1..1 /\ levels[1] = lo
        /\ \A i \in 1..1 : levels[i] = lo
    OBVIOUS
  <2>3. WriteTable(table) = <<Len(levels)>> \o FlattenSeq([i \in DOMAIN levels |->
          <<levels[i], Len(table[levels[i]])>> \o table[levels[i]]])
    BY <2>1 DEF WriteTable
  <2> HIDE DEF levels
  <2>4. [i \in DOMAIN levels |-> <<levels[i], Len(table[levels[i]])>> \o table[levels[i]]] = s
    BY <2>2
  <2> HIDE DEF s
  <2> QED
    BY <2>2, <2>3, <2>4
<1> HIDE DEF s
<1>5. <<1>> \o (<<lo, Len(k)>> \o k) = (<<1>> \o <<lo, Len(k)>>) \o k
  BY <1>1, ConcatAssociative DEF ByteStrings
<1> QED
  BY <1>3, <1>4, <1>5

\* The same for two levels, grouped as they are appended.
LEMMA TableOfTwo ==
  ASSUME NEW lo \in Nat, NEW table \in [{lo, lo + 1} -> ByteStrings]
  PROVE  WriteTable(table) =
           (((<<2>> \o <<lo, Len(table[lo])>>) \o table[lo])
              \o <<lo + 1, Len(table[lo + 1])>>) \o table[lo + 1]
<1> DEFINE k == table[lo]
           l == table[lo + 1]
           x == <<lo, Len(k)>>
           y == <<lo + 1, Len(l)>>
           levels == <<lo, lo + 1>>
           s == [i \in 1..2 |-> <<levels[i], Len(table[levels[i]])>> \o table[levels[i]]]
<1>1. /\ k \in ByteStrings /\ x \in ByteStrings /\ l \in ByteStrings /\ y \in ByteStrings
      /\ <<2>> \in ByteStrings
  BY Numbers, Appended
<1>2. Len(levels) = 2 /\ DOMAIN levels = 1..2 /\ levels[1] = lo /\ levels[2] = lo + 1
  OBVIOUS
<1>3. WriteTable(table) = <<2>> \o FlattenSeq(s)
  <2>1. InOrder(DOMAIN table) = levels
    BY TwoInOrder
  <2> HIDE DEF levels
  <2>2. WriteTable(table) = <<Len(levels)>> \o FlattenSeq([i \in DOMAIN levels |->
          <<levels[i], Len(table[levels[i]])>> \o table[levels[i]]])
    BY <2>1 DEF WriteTable
  <2> QED
    BY <1>2, <2>2
<1> HIDE DEF levels
<1>4. s[1] = x \o k /\ s[2] = y \o l
  BY <1>2
<1>9. /\ x \o k \in ByteStrings /\ y \o l \in ByteStrings
      /\ <<2>> \o x \in ByteStrings /\ (<<2>> \o x) \o k \in ByteStrings
  <2> DEFINE w == <<2>>
  <2>1. w \in ByteStrings
    BY <1>1
  <2> HIDE DEF x, y, k, l, w
  <2>2. x \o k \in ByteStrings /\ y \o l \in ByteStrings /\ w \o x \in ByteStrings
    BY <1>1, <2>1, Appended
  <2>3. (w \o x) \o k \in ByteStrings
    BY <1>1, <2>2, Appended
  <2> QED
    BY <2>2, <2>3 DEF w
<1>5. s \in [1..2 -> ByteStrings]
  <2>1. \A i \in 1..2 : i = 1 \/ i = 2
    OBVIOUS
  <2>2. s[1] \in ByteStrings /\ s[2] \in ByteStrings
    <3> HIDE DEF x, y, k, l, s
    <3> QED
      BY <1>4, <1>9
  <2>3. s = [i \in 1..2 |-> s[i]]
    OBVIOUS
  <2> HIDE DEF s
  <2> QED
    BY <2>1, <2>2, <2>3
<1> HIDE DEF s
<1>6. FlattenSeq(s) = (x \o k) \o (y \o l)
  <2>1. PICK flat \in [1..2 -> ByteStrings] :
           /\ flat[1] = s[1]
           /\ \A i \in 1..2 : i # 1 => flat[i] = flat[i - 1] \o s[i]
           /\ FlattenSeq(s) = flat[2]
    <3>1. 2 \in 1..4
      OBVIOUS
    <3> QED
      BY <1>5, <3>1, Flattened
  <2>2. flat[2] = flat[1] \o s[2]
    <3>1. 2 \in 1..2 /\ 2 # 1 /\ 2 - 1 = 1
      OBVIOUS
    <3> QED
      BY <2>1, <3>1
  <2> QED
    BY <1>4, <2>1, <2>2
<1>8. <<2>> \o ((x \o k) \o (y \o l)) = (((<<2>> \o x) \o k) \o y) \o l
  <2> DEFINE w == <<2>>
             xk == x \o k
             wx == w \o x
             wxk == wx \o k
             yl == y \o l
  <2>1. /\ w \in ByteStrings /\ xk \in ByteStrings /\ yl \in ByteStrings
        /\ wx \in ByteStrings /\ wxk \in ByteStrings
    BY <1>1, <1>9
  <2> HIDE DEF x, y, k, l, w
  <2>2. Regroups(w, x, k) /\ Regroups(wxk, y, l) /\ Regroups(w, xk, yl)
    <3> HIDE DEF xk, wxk, wx, yl
    <3> QED
      BY <1>1, <2>1, Regrouped
  <2>5. w \o xk = wxk
    BY <2>2 DEF Regroups
  <2> HIDE DEF xk, wxk
  <2>6. wxk \o yl = (wxk \o y) \o l
    BY <2>2 DEF Regroups
  <2> HIDE DEF yl
  <2>4. w \o (xk \o yl) = (w \o xk) \o yl
    BY <2>2 DEF Regroups
  <2>7. w \o (xk \o yl) = (wxk \o y) \o l
    BY <2>4, <2>5, <2>6
  <2> QED
    BY <2>7 DEF xk, yl, wxk, wx, w
<1> QED
  BY <1>3, <1>6, <1>8

\* The entry of a table at offset p: level, length and bytes k.
EntryAt(bytes, p, level, k) ==
  /\ bytes[p + 1] = level /\ bytes[p + 2] = Len(k)
  /\ Slice(bytes, p + 2, p + 2 + Len(k)) = k

\* An entry is where it was appended.
LEMMA EntryPut ==
  ASSUME NEW a \in ByteStrings, NEW k \in ByteStrings, NEW level \in Nat
  PROVE  /\ EntryAt((a \o <<level, Len(k)>>) \o k, Len(a), level, k)
         /\ (a \o <<level, Len(k)>>) \o k \in ByteStrings
         /\ Len((a \o <<level, Len(k)>>) \o k) = Len(a) + 2 + Len(k)
<1> DEFINE x == <<level, Len(k)>>
           ax == a \o x
           axk == ax \o k
<1>1. x \in ByteStrings /\ Len(x) = 2 /\ x[1] = level /\ x[2] = Len(k)
  BY Numbers, Appended
<1> HIDE DEF x
<1>2. ax \in ByteStrings /\ Len(ax) = Len(a) + 2 /\ Len(a) \in Nat
  <2>1. ax \in ByteStrings /\ Len(ax) = Len(a) + Len(x) /\ Len(a) \in Nat
    BY <1>1, Appended
  <2> HIDE DEF ax
  <2> QED
    BY <1>1, <2>1
<1>3. ax[Len(a) + 1] = level /\ ax[Len(a) + 2] = Len(k)
  <2>1. 1 \in 1..Len(x) /\ 2 \in 1..Len(x)
    BY <1>1
  <2> QED
    BY <1>1, <2>1, Placed
<1> HIDE DEF ax
<1>4. axk \in ByteStrings /\ Len(axk) = Len(a) + 2 + Len(k) /\ Len(k) \in Nat
  BY <1>2, Appended
<1>5. axk[Len(a) + 1] = level /\ axk[Len(a) + 2] = Len(k)
  <2>1. Len(a) + 1 \in 1..Len(ax) /\ Len(a) + 2 \in 1..Len(ax)
    BY <1>2
  <2> QED
    BY <1>2, <1>3, <2>1, Placed
<1>6. Slice(axk, Len(a) + 2, Len(a) + 2 + Len(k)) = k
  BY <1>2, CutLast
<1>7. EntryAt(axk, Len(a), level, k)
  BY <1>5, <1>6 DEF EntryAt
<1> QED
  BY <1>4, <1>7 DEF axk, ax, x

\* It stays there when more is appended.
LEMMA EntryKept ==
  ASSUME NEW b \in ByteStrings, NEW z \in ByteStrings, NEW k \in ByteStrings,
         NEW level \in Nat, NEW p \in Nat, p + 2 + Len(k) <= Len(b),
         EntryAt(b, p, level, k)
  PROVE  EntryAt(b \o z, p, level, k)
<1>1. Len(b) \in Nat /\ Len(k) \in Nat
  BY Appended
<1>2. (b \o z)[p + 1] = level /\ (b \o z)[p + 2] = Len(k)
  <2>1. p + 1 \in 1..Len(b) /\ p + 2 \in 1..Len(b)
    BY <1>1
  <2> QED
    BY <2>1, Placed DEF EntryAt
<1>3. Slice(b \o z, p + 2, p + 2 + Len(k)) = k
  <2> DEFINE f == p + 2
             t == p + 2 + Len(k)
  <2>1. f \in Nat /\ t \in Nat /\ f <= t /\ t <= Len(b)
    BY <1>1
  <2>2. Slice(b, f, t) = k
    BY DEF EntryAt
  <2> HIDE DEF f, t
  <2>3. Slice(b \o z, f, t) = Slice(b, f, t)
    BY <2>1, CutKept
  <2> QED
    BY <2>2, <2>3 DEF f, t
<1> QED
  BY <1>2, <1>3 DEF EntryAt

\* Where the entries of a table start.
LEMMA StartsAdd ==
  ASSUME NEW bytes \in ByteStrings, NEW o \in Nat, NEW n \in 1..2, bytes[o + 1] = n
  PROVE  /\ Starts(bytes, o)[0] = o + 1
         /\ \A i \in 1..n : Starts(bytes, o)[i]
              = Starts(bytes, o)[i - 1] + 2 + bytes[Starts(bytes, o)[i - 1] + 2]
<1> DEFINE Is(f) == f = [i \in 0..n |-> IF i = 0 THEN o + 1
                                        ELSE f[i - 1] + 2 + bytes[f[i - 1] + 2]]
           zero == o + 1
           one == zero + 2 + bytes[zero + 2]
           two == one + 2 + bytes[one + 2]
           g == [i \in 0..n |-> IF i = 0 THEN zero ELSE IF i = 1 THEN one ELSE two]
           start == CHOOSE f : Is(f)
<1>1. Is(g)
  <2> HIDE DEF one, two
  <2>1. \A i \in 0..n : i \in {0, 1, 2}
    OBVIOUS
  <2>2. ASSUME NEW i \in 0..n
        PROVE  g[i] = IF i = 0 THEN o + 1 ELSE g[i - 1] + 2 + bytes[g[i - 1] + 2]
    <3>0. CASE i = 0
      BY <3>0
    <3>1. CASE i = 1
      <4>1. i - 1 = 0 /\ i - 1 \in 0..n
        BY <3>1
      <4> QED
        BY <3>1, <4>1 DEF one
    <3>2. CASE i = 2
      <4>1. i - 1 = 1 /\ i - 1 \in 0..n
        BY <3>2
      <4> QED
        BY <3>2, <4>1 DEF two
    <3> QED
      BY <2>1, <3>0, <3>1, <3>2
  <2>3. g = [i \in 0..n |-> g[i]]
    OBVIOUS
  <2> HIDE DEF g
  <2> QED
    BY <2>2, <2>3
<1>2. Is(start)
  <2> HIDE DEF Is, g
  <2> QED
    BY <1>1
<1>3. Starts(bytes, o) = start
  BY DEF Starts
<1> HIDE DEF start
<1>4. \A i \in 0..n : start[i] = IF i = 0 THEN o + 1 ELSE start[i - 1] + 2 + bytes[start[i - 1] + 2]
  BY <1>2
<1>5. 0 \in 0..n /\ \A i \in 1..n : i \in 0..n /\ i # 0
  OBVIOUS
<1> QED
  BY <1>3, <1>4, <1>5

Tables(lo, n) == [lo..lo + n - 1 -> ByteStrings]

EntriesAt(bytes, o, n, lo, table) ==
  /\ EntryAt(bytes, o + 1, lo, table[lo])
  /\ n = 2 => EntryAt(bytes, o + 3 + Len(table[lo]), lo + 1, table[lo + 1])

IsRead(bytes, o, n, lo, table) ==
  /\ ReadTable(bytes, o).table = table
  /\ ReadTable(bytes, o).next = IF n = 1 THEN o + 3 + Len(table[lo])
                                ELSE o + 5 + Len(table[lo]) + Len(table[lo + 1])

\* A table of one or two entries that are where its starts say they are is read.
LEMMA TableRead ==
  ASSUME NEW bytes \in ByteStrings, NEW o \in Nat, NEW n \in 1..2, bytes[o + 1] = n,
         NEW lo \in Nat, NEW table \in Tables(lo, n), EntriesAt(bytes, o, n, lo, table)
  PROVE  IsRead(bytes, o, n, lo, table)
<1>14. /\ EntryAt(bytes, o + 1, lo, table[lo])
       /\ n = 2 => EntryAt(bytes, o + 3 + Len(table[lo]), lo + 1, table[lo + 1])
  BY DEF EntriesAt
<1> DEFINE start == Starts(bytes, o)
           Entry(level) == CHOOSE i \in 1..n : bytes[start[i - 1] + 1] = level
<1>1. /\ lo \in lo..lo + n - 1 /\ \A l \in lo..lo + n - 1 : l - lo + 1 \in 1..n /\ lo + (l - lo + 1) - 1 = l
      /\ n = 2 => lo + 1 \in lo..lo + n - 1
      /\ \A i \in 1..n : i = 1 \/ (n = 2 /\ i = 2)
  OBVIOUS
<1>2. /\ table[lo] \in ByteStrings /\ Len(table[lo]) \in Nat
      /\ n = 2 => table[lo + 1] \in ByteStrings /\ Len(table[lo + 1]) \in Nat
  BY <1>1, Appended DEF Tables
<1>3. start[0] = o + 1 /\ start[1] = o + 3 + Len(table[lo])
  <2>1. /\ start[0] = o + 1
        /\ \A i \in 1..n : start[i] = start[i - 1] + 2 + bytes[start[i - 1] + 2]
    BY StartsAdd
  <2>2. 1 \in 1..n /\ 1 - 1 = 0
    OBVIOUS
  <2>3. start[1] = start[0] + 2 + bytes[start[0] + 2]
    <3> HIDE DEF start
    <3> QED
      BY <2>1, <2>2
  <2>4. bytes[o + 1 + 2] = Len(table[lo])
    BY <1>14 DEF EntryAt
  <2> HIDE DEF start
  <2> QED
    BY <1>2, <2>1, <2>3, <2>4
<1>4. n = 2 => start[2] = o + 5 + Len(table[lo]) + Len(table[lo + 1])
  <2> SUFFICES ASSUME n = 2 PROVE start[2] = o + 5 + Len(table[lo]) + Len(table[lo + 1])
    OBVIOUS
  <2>1. \A i \in 1..n : start[i] = start[i - 1] + 2 + bytes[start[i - 1] + 2]
    BY StartsAdd
  <2>2. 2 \in 1..n /\ 2 - 1 = 1
    OBVIOUS
  <2>3. start[2] = start[1] + 2 + bytes[start[1] + 2]
    <3> HIDE DEF start
    <3> QED
      BY <2>1, <2>2
  <2> DEFINE a == Len(table[lo])
             b == Len(table[lo + 1])
  <2>4. bytes[o + 3 + a + 2] = b
    BY <1>14 DEF EntryAt
  <2>5. a \in Nat /\ b \in Nat
    BY <1>2
  <2>6. start[1] = o + 3 + a
    BY <1>3
  <2> HIDE DEF start, a, b
  <2>7. start[2] = o + 3 + a + 2 + b
    BY <2>3, <2>4, <2>6
  <2>8. start[2] = o + 5 + a + b
    BY <2>5, <2>7
  <2> QED
    BY <2>8 DEF a, b
<1>5. ASSUME NEW i \in 1..n
      PROVE  /\ bytes[start[i - 1] + 1] = lo + i - 1
             /\ Slice(bytes, start[i - 1] + 2, start[i]) = table[lo + i - 1]
  <2> HIDE DEF start
  <2>1. CASE i = 1
    <3>4. i - 1 = 0 /\ lo + i - 1 = lo
      BY <2>1
    <3>1. /\ lo + i - 1 = lo /\ start[i - 1] = o + 1 /\ start[i] = o + 3 + Len(table[lo])
      BY <1>3, <2>1, <3>4
    <3>2. o + 1 + 2 + Len(table[lo]) = o + 3 + Len(table[lo])
      BY <1>2
    <3>3. /\ bytes[o + 1 + 1] = lo
          /\ Slice(bytes, o + 1 + 2, o + 1 + 2 + Len(table[lo])) = table[lo]
      BY <1>14 DEF EntryAt
    <3> QED
      BY <3>1, <3>2, <3>3
  <2>2. CASE i = 2 /\ n = 2
    <3> DEFINE p == o + 3 + Len(table[lo])
               k == table[lo + 1]
    <3>5. i - 1 = 1 /\ lo + i - 1 = lo + 1
      BY <2>2
    <3>1. lo + i - 1 = lo + 1 /\ start[i - 1] = p
      BY <1>3, <3>5
    <3>2. start[i] = p + 2 + Len(k)
      <4> DEFINE a == Len(table[lo])
                 b == Len(k)
      <4>1. a \in Nat /\ b \in Nat
        BY <1>2, <2>2
      <4>2. start[2] = o + 5 + a + b
        BY <1>4, <2>2
      <4> HIDE DEF start, a, b
      <4>3. start[2] = o + 3 + a + 2 + b
        BY <4>1, <4>2
      <4> QED
        BY <2>2, <4>3 DEF a, b
    <3>3. bytes[p + 1] = lo + 1 /\ Slice(bytes, p + 2, p + 2 + Len(k)) = k
      BY <1>14, <2>2 DEF EntryAt
    <3> HIDE DEF p, k
    <3>4. lo + i - 1 = lo + 1 /\ table[lo + i - 1] = k
      BY <3>1 DEF k
    <3> QED
      BY <3>1, <3>2, <3>3, <3>4
  <2> QED
    BY <1>1, <2>1, <2>2
<1>6. {bytes[start[i - 1] + 1] : i \in 1..n} = lo..lo + n - 1
  <2> HIDE DEF start
  <2>1. {bytes[start[i - 1] + 1] : i \in 1..n} = {lo + i - 1 : i \in 1..n}
    BY <1>5
  <2>2. {lo + i - 1 : i \in 1..n} = lo..lo + n - 1
    <3>1. ASSUME NEW l \in lo..lo + n - 1
          PROVE  \E i \in 1..n : l = lo + i - 1
      <4>1. l - lo + 1 \in 1..n /\ l = lo + (l - lo + 1) - 1
        OBVIOUS
      <4> QED
        BY <4>1
    <3>2. \A i \in 1..n : lo + i - 1 \in lo..lo + n - 1
      OBVIOUS
    <3> QED
      BY <3>1, <3>2
  <2> QED
    BY <2>1, <2>2
<1>7. ASSUME NEW l \in lo..lo + n - 1
      PROVE  Slice(bytes, start[Entry(l) - 1] + 2, start[Entry(l)]) = table[l]
  <2>1. l - lo + 1 \in 1..n /\ lo + (l - lo + 1) - 1 = l
    OBVIOUS
  <2>2. bytes[start[(l - lo + 1) - 1] + 1] = l
    <3> DEFINE j == l - lo + 1
    <3>1. j \in 1..n /\ lo + j - 1 = l
      BY <2>1
    <3> HIDE DEF j, start
    <3>2. bytes[start[j - 1] + 1] = l
      BY <1>5, <3>1
    <3> QED
      BY <3>2 DEF j
  <2>3. Entry(l) \in 1..n /\ bytes[start[Entry(l) - 1] + 1] = l
    <3> HIDE DEF start
    <3> QED
      BY <2>1, <2>2
  <2> DEFINE e == Entry(l)
  <2>5. e \in 1..n /\ bytes[start[e - 1] + 1] = l
    BY <2>3
  <2> HIDE DEF e, start
  <2>6. lo + e - 1 = l
    BY <1>5, <2>5
  <2>7. Slice(bytes, start[e - 1] + 2, start[e]) = table[lo + e - 1]
    BY <1>5, <2>5
  <2> QED
    BY <2>6, <2>7 DEF e
<1>8. ReadTable(bytes, o).table = [l \in lo..lo + n - 1 |->
         Slice(bytes, start[Entry(l) - 1] + 2, start[Entry(l)])]
  <2> DEFINE levels == {bytes[start[i - 1] + 1] : i \in 1..n}
             Cut(l) == Slice(bytes, start[Entry(l) - 1] + 2, start[Entry(l)])
  <2>1. ReadTable(bytes, o).table = [l \in levels |-> Cut(l)]
    BY DEF ReadTable
  <2>2. levels = lo..lo + n - 1
    BY <1>6
  <2> HIDE DEF levels, Cut
  <2>3. ReadTable(bytes, o).table = [l \in lo..lo + n - 1 |-> Cut(l)]
    BY <2>1, <2>2
  <2> QED
    BY <2>3 DEF Cut
<1>9. ReadTable(bytes, o).next = start[n]
  BY DEF ReadTable
<1>10. ReadTable(bytes, o).table = table
  <2> DEFINE Cut(l) == Slice(bytes, start[Entry(l) - 1] + 2, start[Entry(l)])
  <2>1. \A l \in lo..lo + n - 1 : Cut(l) = table[l]
    BY <1>7
  <2>2. ReadTable(bytes, o).table = [l \in lo..lo + n - 1 |-> Cut(l)]
    BY <1>8
  <2>3. table = [l \in lo..lo + n - 1 |-> table[l]]
    BY DEF Tables
  <2> HIDE DEF Cut
  <2> QED
    BY <2>1, <2>2, <2>3
<1> HIDE DEF start
<1>11. CASE n = 1
  BY <1>3, <1>9, <1>10, <1>11 DEF IsRead
<1>12. CASE n = 2
  <2>1. n # 1
    BY <1>12
  <2> QED
    BY <1>4, <1>9, <1>10, <1>12, <2>1 DEF IsRead
<1>13. n = 1 \/ n = 2
  OBVIOUS
<1> QED
  BY <1>11, <1>12, <1>13

\* A table is read where it was written, and what is behind it begins where it
\* ends.
LEMMA TableArrives ==
  ASSUME NEW a \in ByteStrings, NEW z \in ByteStrings, NEW n \in 1..2,
         NEW lo \in Nat, NEW table \in Tables(lo, n)
  PROVE  /\ WriteTable(table) \in ByteStrings
         /\ ReadTable((a \o WriteTable(table)) \o z, Len(a)).table = table
         /\ ReadTable((a \o WriteTable(table)) \o z, Len(a)).next = Len(a) + Len(WriteTable(table))
<1> DEFINE w == WriteTable(table)
           h == <<n>>
           k == table[lo]
           x == <<lo, Len(k)>>
           ah == a \o h
           b == (ah \o x) \o k
           bytes == (a \o w) \o z
<1>1. lo \in lo..lo + n - 1 /\ (n = 2 => lo + 1 \in lo..lo + n - 1)
  OBVIOUS
<1>2. /\ k \in ByteStrings /\ Len(k) \in Nat /\ Len(a) \in Nat
      /\ h \in ByteStrings /\ Len(h) = 1 /\ h[1] = n
  BY <1>1, Appended, Numbers DEF Tables
<1>3. x \in ByteStrings /\ Len(x) = 2
  BY <1>2, Numbers
<1>4. ah \in ByteStrings /\ Len(ah) = Len(a) + 1 /\ ah[Len(a) + 1] = n
  <2> HIDE DEF h
  <2>1. ah \in ByteStrings /\ Len(ah) = Len(a) + Len(h)
    BY <1>2, Appended
  <2>2. 1 \in 1..Len(h)
    BY <1>2
  <2>3. ah[Len(a) + 1] = h[1]
    BY <1>2, <2>2, Placed
  <2> HIDE DEF ah
  <2> QED
    BY <1>2, <2>1, <2>3
<1>5. /\ b \in ByteStrings /\ Len(b) = Len(a) + 3 + Len(k)
      /\ EntryAt(b, Len(a) + 1, lo, k)
  <2> HIDE DEF ah, k
  <2>1. /\ b \in ByteStrings /\ Len(b) = Len(ah) + 2 + Len(k)
        /\ EntryAt(b, Len(ah), lo, k)
    BY <1>2, <1>4, EntryPut
  <2> HIDE DEF b
  <2> QED
    BY <1>2, <1>4, <2>1
<1>6. b[Len(a) + 1] = n
  <2> HIDE DEF ah, k, x
  <2>1. ah \o x \in ByteStrings /\ Len(ah \o x) = Len(ah) + 2
    <3>1. ah \o x \in ByteStrings /\ Len(ah \o x) = Len(ah) + Len(x)
      BY <1>3, <1>4, Appended
    <3> QED
      BY <1>3, <3>1
  <2>2. Len(a) + 1 \in 1..Len(ah) /\ Len(a) + 1 \in 1..Len(ah \o x)
    BY <1>2, <1>4, <2>1
  <2>3. (ah \o x)[Len(a) + 1] = n
    BY <1>3, <1>4, <2>2, Placed
  <2> QED
    BY <1>2, <2>1, <2>2, <2>3, Placed
<1>7. a \o ((h \o x) \o k) = b /\ (h \o x) \o k \in ByteStrings
      /\ Len((h \o x) \o k) = 3 + Len(k)
  <2> DEFINE hx == h \o x
             ahx == ah \o x
  <2> HIDE DEF h, x, k
  <2>1. hx \in ByteStrings /\ Len(hx) = 3
    <3>1. hx \in ByteStrings /\ Len(hx) = Len(h) + Len(x)
      BY <1>2, <1>3, Appended
    <3> HIDE DEF hx
    <3> QED
      BY <1>2, <1>3, <3>1
  <2>2. hx \o k \in ByteStrings /\ Len(hx \o k) = Len(hx) + Len(k)
    <3> HIDE DEF hx
    <3> QED
      BY <1>2, <2>1, Appended
  <2>3. Regroups(a, h, x) /\ Regroups(a, hx, k)
    <3> HIDE DEF hx
    <3> QED
      BY <1>2, <1>3, <2>1, Regrouped
  <2>4. ahx = a \o hx
    BY <2>3 DEF Regroups
  <2> HIDE DEF hx, ahx
  <2>5. a \o (hx \o k) = ahx \o k
    BY <2>3, <2>4 DEF Regroups
  <2> QED
    BY <2>1, <2>2, <2>5 DEF ahx, hx
<1> DEFINE One == /\ w \in ByteStrings /\ ReadTable(bytes, Len(a)).table = table
                  /\ ReadTable(bytes, Len(a)).next = Len(a) + Len(w)
<1>8. ASSUME n = 1 PROVE One
  <2>1. table \in [{lo} -> ByteStrings]
    <3>1. lo..lo + n - 1 = {lo}
      BY <1>8
    <3> QED
      BY <3>1 DEF Tables
  <2>2. w = (h \o x) \o k
    BY <1>8, <2>1, TableOfOne
  <2> HIDE DEF h, x, k, b, ah, w
  <2>3. w \in ByteStrings /\ a \o w = b /\ Len(w) = 3 + Len(k)
    BY <1>7, <2>2
  <2>4. bytes = b \o z /\ bytes \in ByteStrings
    BY <1>5, <2>3, Appended
  <2>5. bytes[Len(a) + 1] = n
    <3>1. Len(a) + 1 \in 1..Len(b)
      BY <1>2, <1>5
    <3> QED
      BY <1>5, <1>6, <2>4, <3>1, Placed
  <2>6. EntryAt(bytes, Len(a) + 1, lo, k)
    <3> DEFINE p == Len(a) + 1
    <3>1. p \in Nat /\ p + 2 + Len(k) <= Len(b)
      BY <1>2, <1>5
    <3>2. EntryAt(b, p, lo, k)
      BY <1>5
    <3> HIDE DEF p
    <3>3. EntryAt(b \o z, p, lo, k)
      BY <1>2, <1>5, <3>1, <3>2, EntryKept
    <3> QED
      BY <2>4, <3>3 DEF p
  <2> HIDE DEF bytes
  <2>7. /\ ReadTable(bytes, Len(a)).table = table
        /\ ReadTable(bytes, Len(a)).next = Len(a) + 3 + Len(k)
    <3> DEFINE o == Len(a)
    <3>1. o \in Nat /\ bytes \in ByteStrings /\ bytes[o + 1] = n
      BY <1>2, <2>4, <2>5
    <3>2. n = 2 => EntryAt(bytes, o + 3 + Len(table[lo]), lo + 1, table[lo + 1])
      BY <1>8
    <3>3. EntryAt(bytes, o + 1, lo, table[lo])
      BY <2>6 DEF k
    <3> HIDE DEF o
    <3>4. /\ ReadTable(bytes, o).table = table
          /\ ReadTable(bytes, o).next = IF n = 1 THEN o + 3 + Len(table[lo])
                                        ELSE o + 5 + Len(table[lo]) + Len(table[lo + 1])
      <4>1. EntriesAt(bytes, o, n, lo, table)
        BY <3>2, <3>3 DEF EntriesAt
      <4>2. IsRead(bytes, o, n, lo, table)
        BY <3>1, <4>1, TableRead
      <4> QED
        BY <4>2 DEF IsRead
    <3> QED
      BY <1>8, <3>4 DEF o, k
  <2>8. Len(a) + Len(w) = Len(a) + 3 + Len(k)
    BY <1>2, <2>3
  <2> QED
    BY <2>3, <2>7, <2>8
<1>9. ASSUME n = 2 PROVE One
  <2> DEFINE l == table[lo + 1]
             y == <<lo + 1, Len(l)>>
             hxk == (h \o x) \o k
             hxky == hxk \o y
             by == b \o y
             byl == by \o l
  <2>1. table \in [{lo, lo + 1} -> ByteStrings]
    <3>1. lo..lo + n - 1 = {lo, lo + 1}
      BY <1>9
    <3> QED
      BY <3>1 DEF Tables
  <2>2. w = hxky \o l
    BY <1>9, <2>1, TableOfTwo
  <2>3. l \in ByteStrings /\ Len(l) \in Nat /\ y \in ByteStrings /\ Len(y) = 2
    BY <1>1, <1>9, Appended, Numbers DEF Tables
  <2>20. /\ byl \in ByteStrings /\ Len(byl) = Len(b) + 2 + Len(l)
         /\ EntryAt(byl, Len(b), lo + 1, l)
    <3>1. lo + 1 \in Nat
      OBVIOUS
    <3> HIDE DEF b, l
    <3> QED
      BY <1>5, <2>3, <3>1, EntryPut
  <2>4. hxk \in ByteStrings /\ Len(hxk) = 3 + Len(k) /\ a \o hxk = b
    BY <1>7
  <2> HIDE DEF h, x, k, b, ah, w, l, y, hxk
  <2>5. hxky \in ByteStrings /\ Len(hxky) = 5 + Len(k)
    <3>1. hxky \in ByteStrings /\ Len(hxky) = Len(hxk) + Len(y)
      BY <2>3, <2>4, Appended
    <3> HIDE DEF hxky
    <3> QED
      BY <1>2, <2>3, <2>4, <3>1
  <2>6. Regroups(a, hxk, y)
    BY <2>3, <2>4, Regrouped
  <2>7. a \o hxky = by
    BY <2>4, <2>6 DEF Regroups
  <2> HIDE DEF hxky, by
  <2>8. Regroups(a, hxky, l)
    BY <2>3, <2>5, Regrouped
  <2>9. w \in ByteStrings /\ Len(w) = 5 + Len(k) + Len(l) /\ a \o w = byl
    <3>1. hxky \o l \in ByteStrings /\ Len(hxky \o l) = Len(hxky) + Len(l)
      BY <2>3, <2>5, Appended
    <3>2. a \o (hxky \o l) = byl
      BY <2>7, <2>8 DEF Regroups
    <3> QED
      BY <1>2, <2>2, <2>3, <2>5, <3>1, <3>2
  <2>10. by \in ByteStrings /\ Len(by) = Len(b) + 2
    <3>1. b \o y \in ByteStrings /\ Len(b \o y) = Len(b) + Len(y)
      BY <1>5, <2>3, Appended
    <3> QED
      BY <1>5, <2>3, <3>1 DEF by
  <2>11. EntryAt(by, Len(a) + 1, lo, k)
    <3> DEFINE p == Len(a) + 1
    <3>1. p \in Nat /\ p + 2 + Len(k) <= Len(b)
      BY <1>2, <1>5
    <3>2. EntryAt(b, p, lo, k)
      BY <1>5
    <3> HIDE DEF p
    <3>3. EntryAt(b \o y, p, lo, k)
      BY <1>2, <1>5, <2>3, <3>1, <3>2, EntryKept
    <3> QED
      BY <3>3 DEF p, by
  <2>12. EntryAt(byl, Len(a) + 1, lo, k)
    <3> DEFINE p == Len(a) + 1
    <3>1. p \in Nat /\ p + 2 + Len(k) <= Len(by)
      BY <1>2, <1>5, <2>10
    <3>2. EntryAt(by, p, lo, k)
      BY <2>11
    <3> HIDE DEF p
    <3>3. EntryAt(by \o l, p, lo, k)
      BY <1>2, <2>3, <2>10, <3>1, <3>2, EntryKept
    <3> QED
      BY <3>3 DEF p
  <2>13. byl[Len(a) + 1] = n
    <3>1. Len(a) + 1 \in 1..Len(b) /\ Len(a) + 1 \in 1..Len(by)
      BY <1>2, <1>5, <2>10
    <3>2. (b \o y)[Len(a) + 1] = n
      BY <1>5, <1>6, <2>3, <3>1, Placed
    <3>3. by[Len(a) + 1] = n
      BY <3>2 DEF by
    <3> QED
      BY <2>3, <2>10, <3>1, <3>3, Placed
  <2> HIDE DEF byl
  <2>14. bytes = byl \o z /\ bytes \in ByteStrings
    BY <2>9, <2>20, Appended
  <2>15. bytes[Len(a) + 1] = n
    <3>1. Len(a) + 1 \in 1..Len(byl)
      BY <1>2, <1>5, <2>3, <2>20
    <3> QED
      BY <2>13, <2>14, <2>20, <3>1, Placed
  <2>16. EntryAt(bytes, Len(a) + 1, lo, k)
    <3> DEFINE p == Len(a) + 1
    <3>1. p \in Nat /\ p + 2 + Len(k) <= Len(byl)
      BY <1>2, <1>5, <2>3, <2>20
    <3>2. EntryAt(byl, p, lo, k)
      BY <2>12
    <3> HIDE DEF p
    <3>3. EntryAt(byl \o z, p, lo, k)
      BY <1>2, <2>20, <3>1, <3>2, EntryKept
    <3> QED
      BY <2>14, <3>3 DEF p
  <2>17. EntryAt(bytes, Len(a) + 3 + Len(k), lo + 1, l)
    <3> DEFINE p == Len(b)
               lv == lo + 1
    <3>1. p \in Nat /\ p + 2 + Len(l) <= Len(byl) /\ lv \in Nat
      BY <1>2, <1>5, <2>3, <2>20
    <3>2. EntryAt(byl, p, lv, l)
      BY <2>20
    <3>4. p = Len(a) + 3 + Len(k)
      BY <1>5
    <3> HIDE DEF p, lv
    <3>3. EntryAt(byl \o z, p, lv, l)
      BY <2>3, <2>20, <3>1, <3>2, EntryKept
    <3> QED
      BY <2>14, <3>3, <3>4 DEF lv
  <2> HIDE DEF bytes
  <2>18. /\ ReadTable(bytes, Len(a)).table = table
         /\ ReadTable(bytes, Len(a)).next = Len(a) + 5 + Len(k) + Len(l)
    <3> DEFINE o == Len(a)
    <3>1. o \in Nat /\ bytes \in ByteStrings /\ bytes[o + 1] = n
      BY <1>2, <2>14, <2>15
    <3>2. n = 2 => EntryAt(bytes, o + 3 + Len(table[lo]), lo + 1, table[lo + 1])
      BY <2>17 DEF k, l
    <3>3. EntryAt(bytes, o + 1, lo, table[lo])
      BY <2>16 DEF k
    <3> HIDE DEF o
    <3>4. /\ ReadTable(bytes, o).table = table
          /\ ReadTable(bytes, o).next = IF n = 1 THEN o + 3 + Len(table[lo])
                                        ELSE o + 5 + Len(table[lo]) + Len(table[lo + 1])
      <4>1. EntriesAt(bytes, o, n, lo, table)
        BY <3>2, <3>3 DEF EntriesAt
      <4>2. IsRead(bytes, o, n, lo, table)
        BY <3>1, <4>1, TableRead
      <4> QED
        BY <4>2 DEF IsRead
    <3>5. n # 1
      BY <1>9
    <3> QED
      BY <3>4, <3>5 DEF o, k, l
  <2>19. Len(a) + Len(w) = Len(a) + 5 + Len(k) + Len(l)
    BY <1>2, <2>3, <2>9
  <2> QED
    BY <2>9, <2>18, <2>19
<1>10. n = 1 \/ n = 2
  OBVIOUS
<1> HIDE DEF w, bytes, One
<1>11. One
  BY <1>8, <1>9, <1>10 DEF One
<1> QED
  BY <1>11 DEF One, w, bytes

\* Appending nothing changes nothing.
LEMMA NothingAppended ==
  ASSUME NEW b \in ByteStrings
  PROVE  b \o <<>> = b /\ <<>> \in ByteStrings
BY ConcatEmptySeq DEF ByteStrings

LevelTables == UNION {Tables(lo, n) : lo \in Nat, n \in 1..2}

Configs == [topic : ByteStrings, publisher_id : Nat, epoch_id : Nat,
            level_min : Nat, level_max : Nat, current_level : Nat,
            salt_epoch : Salts, subtopic_keys : LevelTables, seed_per_level : LevelTables]

\* A config of one or two levels is read as it was written, its tables of keys and
\* seeds by level included (SubTopicConfig.serialize and deserialize).
THEOREM ConfigArrives ==
  \A m \in Configs : ReadConfig(WriteConfig(m)) = m
<1> SUFFICES ASSUME NEW m \in Configs
             PROVE  ReadConfig(WriteConfig(m)) = m
  OBVIOUS
<1> DEFINE L == WrittenConfig
           body == Write(L, m).body
           A == WriteTable(m.subtopic_keys)
           B == WriteTable(m.seed_per_level)
           t == A \o B
           bA == body \o A
           bytes == bA \o B
           wire == WriteConfig(m)
<1>1. WellFormed(L) /\ ParsedConfig = L
      /\ ToSet(L.front) = {"topic", "publisher_id", "epoch_id", "level_min", "level_max", "current_level"}
      /\ ToSet(L.cuts) = {"topic", "salt_epoch"}
  BY ConfigLayout
<1>2. Fits(L, m)
  BY <1>1 DEF Fits, Configs, Salts
<1>3. wire.front = Write(L, m).front /\ wire.body = bytes
  BY DEF WriteConfig, Write
<1>4. m.subtopic_keys \in LevelTables /\ m.seed_per_level \in LevelTables
  BY DEF Configs
<1>5. PICK lo \in Nat, n \in 1..2 : m.subtopic_keys \in Tables(lo, n)
  BY <1>4 DEF LevelTables
<1>6. PICK los \in Nat, ns \in 1..2 : m.seed_per_level \in Tables(los, ns)
  BY <1>4 DEF LevelTables
<1>7. A \in ByteStrings /\ B \in ByteStrings
  <2>1. <<>> \in ByteStrings
    BY DEF ByteStrings
  <2> DEFINE e == <<>>
  <2>2. e \in ByteStrings
    BY <2>1
  <2> HIDE DEF e
  <2> QED
    BY <1>5, <1>6, <2>2, TableArrives
<1> HIDE DEF A, B
<1>8. t \in ByteStrings
  BY <1>7, Appended
<1>9. /\ Offset(L, wire)[Len(L.cuts)] = Len(body) /\ body \in ByteStrings
      /\ \A f \in ToSet(L.front) \cup ToSet(L.cuts) : Read(L, wire)[f] = m[f]
  <2>1. CASE body \in ByteStrings
    <3>1. Regroups(body, A, B)
      BY <1>7, <2>1, Regrouped
    <3>2. wire.body = Write(L, m).body \o t
      BY <1>3, <3>1 DEF Regroups
    <3> HIDE DEF L, wire, t
    <3> QED
      BY <1>1, <1>2, <1>3, <1>8, <3>2, RoundTrip
  <2>2. body \in ByteStrings
    <3> DEFINE w == Write(L, m)
               e == <<>>
               v == [front |-> w.front, body |-> w.body \o e]
    <3>1. e \in ByteStrings /\ v.front = w.front /\ v.body = w.body \o e
      BY DEF ByteStrings
    <3> HIDE DEF L, v, e
    <3> QED
      BY <1>1, <1>2, <3>1, RoundTrip
  <2> QED
    BY <2>1, <2>2
<1>10. ReadTable(bytes, Len(body)).table = m.subtopic_keys
       /\ ReadTable(bytes, Len(body)).next = Len(body) + Len(A)
  <2> HIDE DEF body
  <2> QED
    BY <1>5, <1>7, <1>9, TableArrives DEF A
<1>11. ReadTable(bytes, Len(body) + Len(A)).table = m.seed_per_level
  <2> HIDE DEF body
  <2> DEFINE e == <<>>
  <2>1. e \in ByteStrings
    BY DEF ByteStrings
  <2>2. bA \in ByteStrings /\ Len(bA) = Len(body) + Len(A)
    BY <1>7, <1>9, Appended
  <2> HIDE DEF e, bA
  <2>3. bytes \in ByteStrings
    BY <1>7, <2>2, Appended
  <2>4. bytes \o e = bytes
    BY <2>3, NothingAppended DEF e
  <2>5. ReadTable((bA \o B) \o e, Len(bA)).table = m.seed_per_level
    BY <1>6, <2>1, <2>2, TableArrives DEF B
  <2> QED
    BY <2>2, <2>4, <2>5
<1> DEFINE r == Read(L, wire)
           F == ToSet(L.front) \cup ToSet(L.cuts)
<1>12. DOMAIN r = F
  BY DEF Read
<1>13. ReadConfig(wire) = [f \in F \cup {"subtopic_keys", "seed_per_level"} |->
          CASE f = "subtopic_keys" -> m.subtopic_keys
            [] f = "seed_per_level" -> m.seed_per_level
            [] OTHER -> r[f]]
  <2> HIDE DEF L, wire, body, bytes, r, F
  <2>1. ReadTable(wire.body, Offset(L, wire)[Len(L.cuts)]).table = m.subtopic_keys
        /\ ReadTable(wire.body, ReadTable(wire.body, Offset(L, wire)[Len(L.cuts)]).next).table
              = m.seed_per_level
    BY <1>3, <1>9, <1>10, <1>11
  <2> QED
    BY <1>1, <1>12, <2>1 DEF ReadConfig, r
<1>14. F = {"topic", "publisher_id", "epoch_id", "level_min", "level_max", "current_level",
            "salt_epoch"}
  BY <1>1
<1>15. \A f \in F : r[f] = m[f]
  BY <1>9
<1> HIDE DEF r, F, wire, L
<1>16. ReadConfig(wire) = [f \in F \cup {"subtopic_keys", "seed_per_level"} |-> m[f]]
  BY <1>13, <1>14, <1>15
<1>17. m = [f \in F \cup {"subtopic_keys", "seed_per_level"} |-> m[f]]
  BY <1>14 DEF Configs
<1> QED
  BY <1>16, <1>17 DEF wire

Certificates == [entity_id : ByteStrings, vk_sign : ByteStrings, issuer_id : ByteStrings,
                 not_before : Nat, not_after : Nat, signature : ByteStrings]

\* The content of a certificate, and what is cut out of it.
LEMMA ContentCuts ==
  ASSUME NEW m \in Certificates
  PROVE  /\ CertificateContent(m) \in ByteStrings
         /\ CertificateContent(m)[1] = Len(m.entity_id)
         /\ CertificateContent(m)[2] = Len(m.vk_sign)
         /\ CertificateContent(m)[3] = m.not_before
         /\ CertificateContent(m)[4] = m.not_after
         /\ Slice(CertificateContent(m), 4, 4 + Len(m.entity_id)) = m.entity_id
         /\ Slice(CertificateContent(m), 4 + Len(m.entity_id),
                  4 + Len(m.entity_id) + Len(m.vk_sign)) = m.vk_sign
         /\ Slice(CertificateContent(m), 4 + Len(m.entity_id) + Len(m.vk_sign),
                  Len(CertificateContent(m))) = m.issuer_id
<1> DEFINE id == m.entity_id
           vk == m.vk_sign
           iss == m.issuer_id
           h == <<Len(id), Len(vk), m.not_before, m.not_after>>
           hi == h \o id
           hiv == hi \o vk
           c == hiv \o iss
<1>1. /\ id \in ByteStrings /\ vk \in ByteStrings /\ iss \in ByteStrings
      /\ m.not_before \in Nat /\ m.not_after \in Nat
  BY DEF Certificates
<1>2. Len(id) \in Nat /\ Len(vk) \in Nat /\ Len(iss) \in Nat
  <2> HIDE DEF id, vk, iss
  <2> QED
    BY <1>1, Appended
<1>3. /\ h \in ByteStrings /\ Len(h) = 4 /\ h[1] = Len(id) /\ h[2] = Len(vk)
      /\ h[3] = m.not_before /\ h[4] = m.not_after
  <2> HIDE DEF id, vk, iss
  <2> QED
    BY <1>1, <1>2 DEF ByteStrings
<1>4. CertificateContent(m) = c
  BY DEF CertificateContent
<1> HIDE DEF id, vk, iss, h
<1>5. /\ hi \in ByteStrings /\ Len(hi) = Len(h) + Len(id)
      /\ \A i \in 1..Len(h) : hi[i] = h[i]
      /\ Slice(hi, Len(h), Len(h) + Len(id)) = id
  BY <1>1, <1>3, Appended, Placed, CutLast
<1> HIDE DEF hi
<1>6. /\ hiv \in ByteStrings /\ Len(hiv) = Len(hi) + Len(vk)
      /\ \A i \in 1..Len(hi) : hiv[i] = hi[i]
      /\ Slice(hiv, Len(hi), Len(hi) + Len(vk)) = vk
  BY <1>1, <1>5, Appended, Placed, CutLast
<1> HIDE DEF hiv
<1>7. /\ c \in ByteStrings /\ Len(c) = Len(hiv) + Len(iss)
      /\ \A i \in 1..Len(hiv) : c[i] = hiv[i]
      /\ Slice(c, Len(hiv), Len(hiv) + Len(iss)) = iss
  BY <1>1, <1>6, Appended, Placed, CutLast
<1>8. Len(h) = 4 /\ Len(hi) = 4 + Len(id) /\ Len(hiv) = 4 + Len(id) + Len(vk)
  BY <1>2, <1>3, <1>5, <1>6
<1>9. \A i \in 1..4 : c[i] = h[i]
  <2>1. \A i \in 1..4 : i \in 1..Len(h) /\ i \in 1..Len(hi) /\ i \in 1..Len(hiv)
    BY <1>2, <1>8
  <2> QED
    BY <1>5, <1>6, <1>7, <2>1
<1> DEFINE p == 4 + Len(id)
           q == 4 + Len(id) + Len(vk)
<1>10. 4 \in Nat /\ p \in Nat /\ q \in Nat /\ 4 <= p /\ p <= q
  BY <1>2
<1>14. Len(h) = 4 /\ Len(hi) = p /\ Len(hiv) = q /\ Len(h) + Len(id) = p /\ Len(hi) + Len(vk) = q
  BY <1>8
<1> HIDE DEF p, q, c
<1>11. Slice(c, 4, p) = id
  <2>1. Slice(hi, 4, p) = id
    BY <1>5, <1>14
  <2>2. Slice(hi \o vk, 4, p) = Slice(hi, 4, p)
    <3>1. p <= Len(hi)
      BY <1>10, <1>14
    <3> QED
      BY <1>1, <1>5, <1>10, <3>1, CutKept
  <2>3. Slice(hiv \o iss, 4, p) = Slice(hiv, 4, p)
    <3>1. p <= Len(hiv)
      BY <1>10, <1>14
    <3> QED
      BY <1>1, <1>6, <1>10, <3>1, CutKept
  <2> QED
    BY <2>1, <2>2, <2>3 DEF c, hiv
<1>12. Slice(c, p, q) = vk
  <2>1. Slice(hiv, p, q) = vk
    BY <1>6, <1>14
  <2>3. Slice(hiv \o iss, p, q) = Slice(hiv, p, q)
    <3>1. q <= Len(hiv)
      BY <1>10, <1>14
    <3> QED
      BY <1>1, <1>6, <1>10, <3>1, CutKept
  <2> QED
    BY <2>1, <2>3 DEF c
<1>13. Slice(c, q, Len(c)) = iss
  BY <1>7, <1>14
<1>15. /\ c[1] = Len(id) /\ c[2] = Len(vk) /\ c[3] = m.not_before /\ c[4] = m.not_after
  BY <1>3, <1>9
<1> QED
  BY <1>4, <1>7, <1>11, <1>12, <1>13, <1>15 DEF p, q, id, vk, iss

\* A certificate is read as it was written, although its content is cut apart at
\* lengths that stand inside the content (Certificate.serialize and deserialize).
THEOREM CertificateArrives ==
  \A m \in Certificates : ReadCertificate(WriteCertificate(m)) = m
<1> SUFFICES ASSUME NEW m \in Certificates
             PROVE  ReadCertificate(WriteCertificate(m)) = m
  OBVIOUS
<1> DEFINE c == CertificateContent(m)
           s == m.signature
           wire == WriteCertificate(m)
           r == ReadCertificate(wire)
<1>1. c \in ByteStrings /\ s \in ByteStrings
  BY ContentCuts DEF Certificates
<1>2. wire.front[1] = Len(c) /\ wire.front[2] = Len(s) /\ wire.body = c \o s
  BY DEF WriteCertificate
<1> HIDE DEF c, s, wire
<1>3. Slice(c \o s, 0, Len(c)) = c
  <2> DEFINE n == Len(c)
  <2>1. 0 \in Nat /\ n \in Nat /\ 0 <= n /\ n <= Len(c)
    BY <1>1, Appended
  <2>2. Slice(c, 0, Len(c)) = c
    BY <1>1, CutWhole
  <2> HIDE DEF n
  <2>3. Slice(c \o s, 0, n) = Slice(c, 0, n)
    BY <1>1, <2>1, CutKept
  <2> QED
    BY <2>2, <2>3 DEF n
<1>4. Slice(c \o s, Len(c), Len(c) + Len(s)) = s
  BY <1>1, CutLast
<1>5. r = [entity_id |-> Slice(c, 4, 4 + c[1]),
           vk_sign |-> Slice(c, 4 + c[1], 4 + c[1] + c[2]),
           issuer_id |-> Slice(c, 4 + c[1] + c[2], Len(c)),
           not_before |-> c[3], not_after |-> c[4], signature |-> s]
  BY <1>2, <1>3, <1>4 DEF ReadCertificate
<1>6. r = [entity_id |-> m.entity_id, vk_sign |-> m.vk_sign, issuer_id |-> m.issuer_id,
           not_before |-> m.not_before, not_after |-> m.not_after, signature |-> m.signature]
  <2> HIDE DEF r
  <2>1. /\ c[1] = Len(m.entity_id) /\ c[2] = Len(m.vk_sign) /\ c[3] = m.not_before
        /\ c[4] = m.not_after
        /\ Slice(c, 4, 4 + Len(m.entity_id)) = m.entity_id
        /\ Slice(c, 4 + Len(m.entity_id), 4 + Len(m.entity_id) + Len(m.vk_sign)) = m.vk_sign
        /\ Slice(c, 4 + Len(m.entity_id) + Len(m.vk_sign), Len(c)) = m.issuer_id
    BY ContentCuts DEF c
  <2> QED
    BY <1>5, <2>1 DEF s
<1>7. m = [entity_id |-> m.entity_id, vk_sign |-> m.vk_sign, issuer_id |-> m.issuer_id,
           not_before |-> m.not_before, not_after |-> m.not_after, signature |-> m.signature]
  BY DEF Certificates
<1> HIDE DEF r
<1>8. r = m
  BY <1>6, <1>7
<1> QED
  BY <1>8 DEF r, wire
=============================================================================
