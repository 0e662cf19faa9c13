---------------------------- MODULE ControlChannel ----------------------------
(***************************************************************************)
(* The sending side of the control plane: SequenceNumberState (common.py), *)
(* the control IV (kdf.py) and the encrypt_* calls of Phases II and V that *)
(* use them, made by several threads, with re-authentications in between.  *)
(*                                                                         *)
(* An end of a channel sends with its own directional key, named by the    *)
(* end and the number of its session (Phase I never gives the same keys    *)
(* twice), and numbers its messages with its own SequenceNumberState.      *)
(*                                                                         *)
(* A call is three steps: it gets the key as an argument, takes a number   *)
(* under the lock, and encrypts.  Re-authentication is the caller's: it    *)
(* replaces the key and calls reset().  The guard of ReAuthenticate is     *)
(* what the caller owes, and no code enforces it: no call may hold the old *)
(* key and have its number still to come.                                  *)
(***************************************************************************)
EXTENDS Integers

CONSTANTS Ends, Threads,
          SnMax,        \* 0xFFFFFFFF in the code
          MaxSessions,  \* authentications of an end
          MaxCounter    \* where a counter past SnMax stops moving

ASSUME SnAssumption == SnMax \in Nat
ASSUME MaxCounterAssumption == MaxCounter \in Nat /\ MaxCounter > SnMax
ASSUME MaxSessionsAssumption == MaxSessions \in Nat \ {0}

VARIABLES session,  \* session[e]: the session whose key e sends with
          counter,  \* counter[e]: SequenceNumberState._counter
          call,     \* call[e][t]: the encrypt_* call of thread t
          uses      \* uses[e][s][iv]: history, encryptions with that key and IV

vars == <<session, counter, call, uses>>

Sessions == 1..MaxSessions

\* derive_control_iv keeps 32 bits of the number.  The direction byte adds
\* nothing to what the directional key tells apart.
ControlIv(sn) == sn % (SnMax + 1)
Ivs == 0..SnMax

Idle == [at |-> "idle"]
Called(s) == [at |-> "called", session |-> s]
Numbered(s, sn) == [at |-> "numbered", session |-> s, sn |-> sn]

Init == /\ session = [e \in Ends |-> 1]
        /\ counter = [e \in Ends |-> 0]
        /\ call = [e \in Ends |-> [t \in Threads |-> Idle]]
        /\ uses = [e \in Ends |-> [s \in Sessions |-> [iv \in Ivs |-> 0]]]

SetCall(e, t, c) == call' = [call EXCEPT ![e] = [call[e] EXCEPT ![t] = c]]

\* encrypt_tsa_message, encrypt_key_request or encrypt_key_response is called.
Encrypt(e, t) ==
  /\ call[e][t] = Idle
  /\ SetCall(e, t, Called(session[e]))
  /\ UNCHANGED <<session, counter, uses>>

\* A faulty variant of Exhausted: the counter is checked before it moves.
ExhaustedLate(e) == counter[e] > SnMax

\* The counter moves before it is checked, so SnMax itself is never used.
Exhausted(e) == counter[e] + 1 > SnMax

\* All counters from SnMax on behave alike, and the model stops counting there.
Succ(n) == IF n < MaxCounter THEN n + 1 ELSE n

Count(e) == counter' = [counter EXCEPT ![e] = Succ(counter[e])]

\* next returns a number.
TakeNumber(e, t) ==
  /\ call[e][t].at = "called"
  /\ ~Exhausted(e)
  /\ Count(e)
  /\ SetCall(e, t, Numbered(call[e][t].session, counter[e]))
  /\ UNCHANGED <<session, uses>>

\* next raises, and the call with it.
NextRaises(e, t) ==
  /\ call[e][t].at = "called"
  /\ Exhausted(e)
  /\ Count(e)
  /\ SetCall(e, t, Idle)
  /\ UNCHANGED <<session, uses>>

\* One more encryption with the key of session s and the IV.
Used(u, s, iv) == [u EXCEPT ![s] = [u[s] EXCEPT ![iv] = u[s][iv] + 1]]

AeadEncrypt(e, t) ==
  /\ call[e][t].at = "numbered"
  /\ uses' = [uses EXCEPT ![e] =
       Used(uses[e], call[e][t].session, ControlIv(call[e][t].sn))]
  /\ SetCall(e, t, Idle)
  /\ UNCHANGED <<session, counter>>

\* A faulty variant of ReAuthenticate: it does not wait for calls under way.
ReAuthenticateAnytime(e) ==
  /\ session[e] < MaxSessions
  /\ session' = [session EXCEPT ![e] = session[e] + 1]
  /\ counter' = [counter EXCEPT ![e] = 0]
  /\ UNCHANGED <<call, uses>>

\* Phase I has given new keys, and reset() goes with them.
ReAuthenticate(e) ==
  /\ \A t \in Threads : call[e][t].at # "called"
  /\ session[e] < MaxSessions
  /\ session' = [session EXCEPT ![e] = session[e] + 1]
  /\ counter' = [counter EXCEPT ![e] = 0]
  /\ UNCHANGED <<call, uses>>

Next == \E e \in Ends : \/ ReAuthenticate(e)
                        \/ \E t \in Threads : \/ Encrypt(e, t)
                                              \/ TakeNumber(e, t)
                                              \/ NextRaises(e, t)
                                              \/ AeadEncrypt(e, t)

Spec == Init /\ [][Next]_vars

------------------------------------------------------------------------------
\* A number handed out fits the IV and leaves SnMax unused.
Calls == {Idle} \cup {Called(s) : s \in Sessions}
           \cup {Numbered(s, sn) : s \in Sessions, sn \in 0..SnMax - 1}

\* The channel ends have their types.
TypeOK == /\ session \in [Ends -> Sessions]
          /\ counter \in [Ends -> Nat]
          /\ call \in [Ends -> [Threads -> Calls]]
          /\ uses \in [Ends -> [Sessions -> [Ivs -> Nat]]]

\* "ensures no (key, IV) pair reuse across a session" (common.py:182): no IV is
\* used twice with one key, whichever threads send, up to and beyond the
\* exhaustion of the numbers, and whichever calls finish only after a
\* re-authentication has set the numbers back.
IvUsedOnce ==
  \A e \in Ends, s \in Sessions, iv \in Ivs : uses[e][s][iv] <= 1
=============================================================================
