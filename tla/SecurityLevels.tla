---------------------------- MODULE SecurityLevels ----------------------------
(***************************************************************************)
(* The tables of src/protocol/security_levels.py and of the wrappers that  *)
(* keep tables of their own (aead.py, hash.py), and the scores computed    *)
(* from them (class SLSI).                                                 *)
(*                                                                         *)
(* Scores are in hundredths.  A weight is a natural number of equal parts  *)
(* of 1.0, so a weighted score is in hundredths of a part.                 *)
(***************************************************************************)
EXTENDS Integers

Levels == 0..5

\* LOW, MEDIUM, HIGH and CRITICAL.
Priorities == 1..4

PriorityLevelRanges == <<[min |-> 1, max |-> 2], [min |-> 2, max |-> 3],
                         [min |-> 3, max |-> 4], [min |-> 4, max |-> 5]>>

\* A row of a table by level, level 0 first.
ByLevel(row) == [l \in Levels |-> row[l + 1]]

AesKeyBits == ByLevel(<<0, 0, 128, 192, 256, 256>>)
HasConfidentiality == ByLevel(<<FALSE, FALSE, TRUE, TRUE, TRUE, TRUE>>)

\* AEAD_KEY_SIZES in bytes, and HASH_PARAMS.
AeadKeySizes == ByLevel(<<0, 0, 16, 24, 32, 32>>)
HashParams == ByLevel(<<"none", "KMAC-256", "SHA3-256", "SHA3-384",
                        "SHA3-384", "SHAKE-256">>)

\* hash_alg of SECURITY_LEVELS, which is another table and differs at level 1.
HashAlg == ByLevel(<<"none", "SHA3-256", "SHA3-256", "SHA3-384",
                     "SHA3-384", "SHAKE-256">>)

Phi == ByLevel(<<0, 20, 20, 60, 60, 100>>)
Psi == ByLevel(<<0, 40, 40, 40, 60, 100>>)
Omega == ByLevel(<<0, 50, 50, 75, 100, 100>>)
Gamma == ByLevel(<<0, 80, 80, 90, 90, 100>>)

\* SLSI.score.
Score(w, l) == w.kem * Phi[l] + w.sig * Psi[l] + w.cipher * Omega[l] + w.hash * Gamma[l]

\* SLSI() has equal weights.
DefaultWeights == [kem |-> 1, sig |-> 1, cipher |-> 1, hash |-> 1]

\* The two sums of weighted_average_security_score.
TotalTime(time) == time[0] + time[1] + time[2] + time[3] + time[4] + time[5]

WeightedTime(w, time) ==
  Score(w, 0) * time[0] + Score(w, 1) * time[1] + Score(w, 2) * time[2]
    + Score(w, 3) * time[3] + Score(w, 4) * time[4] + Score(w, 5) * time[5]

\* A score is a quotient of two natural numbers.
Zero == [num |-> 0, den |-> 1]

\* weighted_average_security_score, for the time spent at each level: the average
\* score, and 0.0 as long as no time was spent.
WeightedAverageSecurityScore(w, time) ==
  IF TotalTime(time) = 0
  THEN Zero
  ELSE [num |-> WeightedTime(w, time), den |-> TotalTime(time)]
=============================================================================
