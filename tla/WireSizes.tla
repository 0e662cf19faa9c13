------------------------------ MODULE WireSizes ------------------------------
(***************************************************************************)
(* Sizes that writers and readers of messages and frames take for granted, *)
(* in bytes, and the number of values that fit the header's fields.        *)
(***************************************************************************)
EXTENDS Integers

CONSTANTS NonceSize,    \* NONCE_SIZE, 32
          SaltSize,     \* of the epoch salt, 6
          KmacTagSize,  \* KMAC_TAG_SIZE, 32
          GcmTagSize,   \* GCM_TAG_SIZE, 16
          IdSpan,       \* 2^16 publisher ids
          CounterSpan,  \* 2^32 counters
          EpochSpan     \* 2^8 epoch ids

ASSUME SizeAssumption ==
  /\ {NonceSize, SaltSize, KmacTagSize, GcmTagSize} \subseteq Nat
  /\ {IdSpan, CounterSpan, EpochSpan} \subseteq Nat \ {0}
=============================================================================
