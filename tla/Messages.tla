------------------------------- MODULE Messages -------------------------------
(***************************************************************************)
(* The serialize and deserialize methods of the messages of Phases I, II,  *)
(* III and V.                                                              *)
(*                                                                         *)
(* All have one form: struct.pack puts numbers and the lengths of byte     *)
(* strings in front, the byte strings follow one after the other, and the  *)
(* reader cuts them out again.  A layout is what one method says of it:    *)
(* the order of the numbers in front, where the name of a byte string      *)
(* stands for its length, and the order of the byte strings.  Each message *)
(* has a layout from its serialize (Written) and one from its deserialize  *)
(* (Parsed).  A byte and a number are integers, True is 1 and a text is    *)
(* its bytes.  All numbers fit the struct fields they are packed into.     *)
(***************************************************************************)
EXTENDS WireSizes, Sequences, SequencesExt, FiniteSets

Layout(front, cuts) == [front |-> front, cuts |-> cuts]

WrittenAuthRequest ==
  Layout(<<"encapsulation_key", "client_id", "signature", "sequence_number">>,
         <<"encapsulation_key", "nonce_client", "client_id", "signature">>)
ParsedAuthRequest ==
  Layout(<<"encapsulation_key", "client_id", "signature", "sequence_number">>,
         <<"encapsulation_key", "nonce_client", "client_id", "signature">>)

WrittenAuthResponse == Layout(<<"ciphertext", "signature", "sequence_number">>,
                              <<"ciphertext", "nonce_tta", "signature">>)
ParsedAuthResponse == Layout(<<"ciphertext", "signature", "sequence_number">>,
                             <<"ciphertext", "nonce_tta", "signature">>)

WrittenTSARequest ==
  Layout(<<"topic", "priority", "level_min", "level_max">>, <<"topic">>)
ParsedTSARequest ==
  Layout(<<"topic", "priority", "level_min", "level_max">>, <<"topic">>)

WrittenTSAResponse ==
  Layout(<<"accepted", "level_min", "level_max", "reason">>, <<"reason">>)
ParsedTSAResponse ==
  Layout(<<"accepted", "level_min", "level_max", "reason">>, <<"reason">>)

WrittenConfig ==
  Layout(<<"topic", "publisher_id", "epoch_id", "level_min", "level_max", "current_level">>,
         <<"topic", "salt_epoch">>)
ParsedConfig ==
  Layout(<<"topic", "publisher_id", "epoch_id", "level_min", "level_max", "current_level">>,
         <<"topic", "salt_epoch">>)

WrittenKeyRequest == Layout(<<"topic", "subscriber_id">>, <<"topic", "subscriber_id">>)
ParsedKeyRequest == Layout(<<"topic", "subscriber_id">>, <<"topic", "subscriber_id">>)

WrittenKeyResponse ==
  Layout(<<"accepted", "topic", "epoch_id", "current_level", "level_min", "level_max",
           "subtopic_key", "reason">>,
         <<"topic", "subtopic_key", "salt_epoch", "reason">>)

\* A faulty variant of ParsedKeyResponse: the salt is cut out first.
ParsedKeyResponseSaltFirst ==
  Layout(<<"accepted", "topic", "epoch_id", "current_level", "level_min", "level_max",
           "subtopic_key", "reason">>,
         <<"topic", "salt_epoch", "subtopic_key", "reason">>)
ParsedKeyResponse ==
  Layout(<<"accepted", "topic", "epoch_id", "current_level", "level_min", "level_max",
           "subtopic_key", "reason">>,
         <<"topic", "subtopic_key", "salt_epoch", "reason">>)

------------------------------------------------------------------------------
Write(layout, m) ==
  [front |-> [i \in DOMAIN layout.front |->
                LET f == layout.front[i]
                IN IF f \in ToSet(layout.cuts) THEN Len(m[f]) ELSE m[f]],
   body |-> FlattenSeq([i \in DOMAIN layout.cuts |-> m[layout.cuts[i]]])]

\* Python's bytes[from:to].
Slice(bytes, from, to) == SubSeq(bytes, from + 1, IF to < Len(bytes) THEN to ELSE Len(bytes))

\* The number in front for f.
Number(layout, wire, f) ==
  wire.front[CHOOSE i \in DOMAIN layout.front : layout.front[i] = f]

\* The length of byte string f, read or taken for granted.
Size(layout, wire, f) ==
  CASE f \in ToSet(layout.front) -> Number(layout, wire, f)
    [] f = "salt_epoch" -> SaltSize
    [] OTHER -> NonceSize

\* offset after the first i cuts.
Offset(layout, wire) ==
  LET after[i \in 0..Len(layout.cuts)] ==
        IF i = 0 THEN 0 ELSE after[i - 1] + Size(layout, wire, layout.cuts[i])
  IN after

Read(layout, wire) ==
  LET after == Offset(layout, wire)
      Cut(i) == Slice(wire.body, after[i - 1], after[i])
  IN [f \in ToSet(layout.front) \cup ToSet(layout.cuts) |->
        IF f \in ToSet(layout.cuts)
        THEN Cut(CHOOSE i \in DOMAIN layout.cuts : layout.cuts[i] = f)
        ELSE Number(layout, wire, f)]

------------------------------------------------------------------------------
\* The numbers of a set in ascending order.
InOrder(S) == CHOOSE s \in [1..Cardinality(S) -> S] :
                \A i, j \in DOMAIN s : i < j => s[i] < s[j]

\* A table by level of a SubTopicConfig: the count, then level, length and bytes
\* of each entry, by level.
WriteTable(table) ==
  LET levels == InOrder(DOMAIN table)
  IN <<Len(levels)>> \o FlattenSeq([i \in DOMAIN levels |->
       <<levels[i], Len(table[levels[i]])>> \o table[levels[i]]])

\* The offsets of the entries of the table that starts at offset, and of its end.
Starts(bytes, offset) ==
  LET start[i \in 0..bytes[offset + 1]] ==
        IF i = 0 THEN offset + 1 ELSE start[i - 1] + 2 + bytes[start[i - 1] + 2]
  IN start

\* The table that starts at offset, and the offset behind it.
ReadTable(bytes, offset) ==
  LET count == bytes[offset + 1]
      start == Starts(bytes, offset)
      Entry(level) == CHOOSE i \in 1..count : bytes[start[i - 1] + 1] = level
  IN [table |-> [level \in {bytes[start[i - 1] + 1] : i \in 1..count} |->
                   Slice(bytes, start[Entry(level) - 1] + 2, start[Entry(level)])],
      next |-> start[count]]

\* SubTopicConfig: the tables of keys and of seeds follow the byte strings.
WriteConfig(m) ==
  LET wire == Write(WrittenConfig, m)
  IN [wire EXCEPT !.body = @ \o WriteTable(m.subtopic_keys) \o WriteTable(m.seed_per_level)]

ReadConfig(wire) ==
  LET keys == ReadTable(wire.body, Offset(ParsedConfig, wire)[Len(ParsedConfig.cuts)])
      seeds == ReadTable(wire.body, keys.next)
      m == Read(ParsedConfig, wire)
  IN [f \in DOMAIN m \cup {"subtopic_keys", "seed_per_level"} |->
        CASE f = "subtopic_keys" -> keys.table
          [] f = "seed_per_level" -> seeds.table
          [] OTHER -> m[f]]

------------------------------------------------------------------------------
\* What the CA signs, four numbers and three byte strings; the length of the last
\* one, issuer_id, is what is left.
CertificateContent(m) ==
  <<Len(m.entity_id), Len(m.vk_sign), m.not_before, m.not_after>>
    \o m.entity_id \o m.vk_sign \o m.issuer_id

WriteCertificate(m) == [front |-> <<Len(CertificateContent(m)), Len(m.signature)>>,
                        body |-> CertificateContent(m) \o m.signature]

ReadCertificate(wire) ==
  LET content == Slice(wire.body, 0, wire.front[1])
      vk == 4 + content[1]
      issuer == vk + content[2]
  IN [entity_id |-> Slice(content, 4, vk), vk_sign |-> Slice(content, vk, issuer),
      issuer_id |-> Slice(content, issuer, Len(content)),
      not_before |-> content[3], not_after |-> content[4],
      signature |-> Slice(wire.body, wire.front[1], wire.front[1] + wire.front[2])]
=============================================================================
