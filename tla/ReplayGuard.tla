----------------------------- MODULE ReplayGuard -----------------------------
(***************************************************************************)
(* class ReplayGuard of src/protocol/common.py: anti-replay protection per *)
(* (publisher_id, epoch_id) with a highest counter and a bitmap of the     *)
(* counters below it.                                                      *)
(*                                                                         *)
(* Every method body runs under self._lock, so a call is one action.       *)
(* The bitmap, a Python int of any size, is the set of its one-bit         *)
(* positions: "<< n" adds n to every position, "|" is union and "& bit" is *)
(* membership.  Bit b stands for counter max - 1 - b.                      *)
(*                                                                         *)
(* accepts and reply are history: how often a counter was accepted since   *)
(* its key was last flushed, and the last call with its return value.      *)
(***************************************************************************)
EXTENDS Integers

CONSTANTS PublisherIds,  \* 16-bit ids of the header
          EpochIds,      \* 8-bit epoch ids of the header
          CounterMax,    \* largest header counter (2^32 - 1 in the code)
          WindowSize     \* window_size (64 in the code)

ASSUME CounterAssumption == CounterMax \in Nat
ASSUME WindowAssumption == WindowSize \in Nat \ {0}

VARIABLES guard,     \* _state: key -> (max_counter, bitmap), a partial map
          accepts,   \* accepts[k][c]: history, see above
          reply      \* history, see above

vars == <<guard, accepts, reply>>

Keys == PublisherIds \X EpochIds
Counters == 0..CounterMax

NoCall == [result |-> "none"]
Answer(k, c, r) == [key |-> k, counter |-> c, result |-> r]

Entries == [max : Counters, bitmap : SUBSET Nat]

Tracked == DOMAIN guard

\* The dictionary d with key k bound to v.
Put(d, k, v) == [j \in DOMAIN d \cup {k} |-> IF j = k THEN v ELSE d[j]]

\* The dictionary d without the keys K.
Drop(d, K) == [j \in DOMAIN d \ K |-> d[j]]

------------------------------------------------------------------------------
Init == /\ guard = [k \in {} |-> [max |-> 0, bitmap |-> {}]]
        /\ accepts = [k \in Keys |-> [c \in Counters |-> 0]]
        /\ reply = NoCall

\* The history h with one more acceptance of c.
Counted(h, c) == [h EXCEPT ![c] = h[c] + 1]

\* The call returns True.
Accepted(k, c) == /\ accepts' = [accepts EXCEPT ![k] = Counted(accepts[k], c)]
                  /\ reply' = Answer(k, c, "accept")

\* The call returns False and changes nothing.
Rejected(k, c) == /\ reply' = Answer(k, c, "reject")
                  /\ UNCHANGED <<guard, accepts>>

\* Faulty variants of Shifted: the old highest counter is not recorded, is
\* recorded one position too low, or the older bits are not moved.
ShiftedForgetsMax(bitmap, n) == {b + n : b \in bitmap}
ShiftedOffByOne(bitmap, n) == {b + n : b \in bitmap} \cup {n - 2}
ShiftedKeepsBits(bitmap, n) == bitmap \cup {n - 1}

\* The bitmap after the highest counter moves up by n: the old highest
\* counter becomes bit n - 1.
Shifted(bitmap, n) == {b + n : b \in bitmap} \cup {n - 1}

FirstMessage(k, c) == /\ k \notin Tracked
                      /\ guard' = Put(guard, k, [max |-> c, bitmap |-> {}])
                      /\ Accepted(k, c)

\* A faulty variant of NewHigh: the bitmap starts afresh at every new high.
NewHighResets(k, c) ==
  /\ k \in Tracked
  /\ c > guard[k].max
  /\ guard' = Put(guard, k, [max |-> c, bitmap |-> {}])
  /\ Accepted(k, c)

NewHigh(k, c) ==
  /\ k \in Tracked
  /\ c > guard[k].max
  /\ LET shift == c - guard[k].max
         bitmap == IF shift < WindowSize THEN Shifted(guard[k].bitmap, shift)
                                         ELSE {}
     IN guard' = Put(guard, k, [max |-> c, bitmap |-> bitmap])
  /\ Accepted(k, c)

ExactReplay(k, c) == /\ k \in Tracked
                     /\ c = guard[k].max
                     /\ Rejected(k, c)

\* A faulty variant of TooOld: the window is one counter short.
TooOldEarly(k, c) == /\ k \in Tracked
                     /\ guard[k].max - c >= WindowSize - 1
                     /\ Rejected(k, c)

TooOld(k, c) == /\ k \in Tracked
                /\ guard[k].max - c >= WindowSize
                /\ Rejected(k, c)

\* c is below the highest counter and inside the window.
Late(k, c) == /\ k \in Tracked
              /\ c < guard[k].max
              /\ guard[k].max - c < WindowSize

BitOf(k, c) == guard[k].max - c - 1

AlreadySeen(k, c) == /\ Late(k, c)
                     /\ BitOf(k, c) \in guard[k].bitmap
                     /\ Rejected(k, c)

\* A faulty variant of LateArrival: the late counter becomes the highest one.
LateArrivalLowersMax(k, c) ==
  /\ Late(k, c)
  /\ BitOf(k, c) \notin guard[k].bitmap
  /\ guard' = Put(guard, k, [max |-> c, bitmap |-> guard[k].bitmap])
  /\ Accepted(k, c)

LateArrival(k, c) ==
  /\ Late(k, c)
  /\ BitOf(k, c) \notin guard[k].bitmap
  /\ guard' = Put(guard, k, [max |-> guard[k].max,
                             bitmap |-> guard[k].bitmap \cup {BitOf(k, c)}])
  /\ Accepted(k, c)

CheckAndAccept(k, c) == \/ FirstMessage(k, c)
                        \/ NewHigh(k, c)
                        \/ ExactReplay(k, c)
                        \/ TooOld(k, c)
                        \/ AlreadySeen(k, c)
                        \/ LateArrival(k, c)

\* Flushing the keys K ends their history as well.
Flush(K) == /\ guard' = Drop(guard, K)
            /\ accepts' = [k \in Keys |-> IF k \in K THEN [c \in Counters |-> 0]
                                                     ELSE accepts[k]]
            /\ reply' = NoCall

FlushEpoch(p, e) == Flush({<<p, e>>})

FlushAll == Flush(Keys)

Next == \/ \E k \in Keys, c \in Counters : CheckAndAccept(k, c)
        \/ \E p \in PublisherIds, e \in EpochIds : FlushEpoch(p, e)
        \/ FlushAll

Spec == Init /\ [][Next]_vars

------------------------------------------------------------------------------
\* The guard's table, the history and the last answer have the expected shape.
TypeOK == /\ Tracked \subseteq Keys
          /\ guard \in [Tracked -> Entries]
          /\ accepts \in [Keys -> [Counters -> Nat]]
          /\ \/ reply = NoCall
             \/ reply \in [key : Keys, counter : Counters,
                           result : {"accept", "reject"}]

\* No counter of a (publisher, epoch) is accepted twice between two flushes of
\* that key, whatever the order in which counters arrive and however far the
\* window slides (the purpose of check_and_accept).
NoDoubleAccept == \A k \in Keys, c \in Counters : accepts[k][c] <= 1

\* The bitmap tells the truth about the window: inside it a bit is set exactly
\* for the counters that were accepted, so shifting neither loses nor invents
\* an acceptance (common.py:253-261 and 277-279).
WindowExact ==
  \A k \in Tracked, c \in Counters :
     Late(k, c) => (BitOf(k, c) \in guard[k].bitmap <=> accepts[k][c] = 1)

\* Out-of-order tolerance: an answer False means that the counter had been
\* accepted already or is at least a window behind an accepted one; a fresh
\* recent message is never lost to the guard.
RejectsOnlyWithCause ==
  reply.result = "reject" =>
     \/ accepts[reply.key][reply.counter] = 1
     \/ \E d \in Counters : /\ accepts[reply.key][d] = 1
                            /\ d - reply.counter >= WindowSize

\* The highest counter of a key never moves back while the key is tracked.
MaxNeverDecreases ==
  [][\A k \in Tracked : k \in DOMAIN guard' => guard'[k].max >= guard[k].max]_vars

\* The detailed guard implements the sliding window: its table stands for the
\* counters that are the highest one or have a bit inside the window.
WindowOf(k) ==
  {c \in Counters : /\ k \in Tracked
                    /\ \/ c = guard[k].max
                       \/ Late(k, c) /\ BitOf(k, c) \in guard[k].bitmap}

Abstract == INSTANCE SlidingWindow WITH window <- [k \in Keys |-> WindowOf(k)]

\* Every call answers as the abstract sliding window would.
ImplementsSlidingWindow == Abstract!Spec
=============================================================================
