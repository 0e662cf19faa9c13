---------------------------- MODULE SlidingWindow ----------------------------
(***************************************************************************)
(* What anti-replay protection promises, without bitmaps.                  *)
(*                                                                         *)
(* For every (publisher, epoch) key the receiver remembers the counters it *)
(* accepted and that are still within WindowSize of the highest one.  A    *)
(* counter is accepted exactly when it is neither remembered nor older     *)
(* than the window; forgetting a key (epoch rotation, reboot) empties its  *)
(* window.  ReplayGuard implements this specification.                     *)
(***************************************************************************)
EXTENDS Integers

CONSTANTS Keys,        \* the (publisher, epoch) pairs
          CounterMax,  \* the largest counter a header can carry
          WindowSize   \* how far behind the highest counter a message may be

VARIABLES window,      \* window[k]: accepted counters still inside the window
          reply        \* the last call and its answer

wvars == <<window, reply>>

Counters == 0..CounterMax

NoCall == [result |-> "none"]
Answer(k, c, r) == [key |-> k, counter |-> c, result |-> r]

\* Counter c is not too old with respect to the accepted counters S.
Recent(S, c) == \A d \in S : d - c < WindowSize

Fresh(S, c) == c \notin S /\ Recent(S, c)

\* Keep the counters that are still inside the window of S.
Slide(S) == {c \in S : Recent(S, c)}

Init == /\ window = [k \in Keys |-> {}]
        /\ reply = NoCall

Accept(k, c) == /\ Fresh(window[k], c)
                /\ window' = [window EXCEPT ![k] = Slide(window[k] \cup {c})]
                /\ reply' = Answer(k, c, "accept")

Reject(k, c) == /\ ~Fresh(window[k], c)
                /\ reply' = Answer(k, c, "reject")
                /\ UNCHANGED window

Forget(K) == /\ window' = [k \in Keys |-> IF k \in K THEN {} ELSE window[k]]
             /\ reply' = NoCall

Next == \/ \E k \in Keys, c \in Counters : Accept(k, c) \/ Reject(k, c)
        \/ \E K \in SUBSET Keys : Forget(K)

Spec == Init /\ [][Next]_wvars
=============================================================================
