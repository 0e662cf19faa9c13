------------------------ MODULE ControlChannelProofs ------------------------
(***************************************************************************)
(* Proofs about ControlChannel for any ends, threads, numbers of sessions  *)
(* and ranges of sequence numbers.                                         *)
(*                                                                         *)
(* What IvUsedOnce rests on is where the numbers are: with the key of the  *)
(* present session only numbers below the counter were used or are held by *)
(* calls under way, a number held is not used and not held twice, later    *)
(* sessions' keys are unused, and a call without a number holds the        *)
(* present key.                                                            *)
(***************************************************************************)
EXTENDS ControlChannel, TLAPS

LaterKeysUnused == \A e \in Ends, s \in Sessions, iv \in Ivs :
                      s > session[e] => uses[e][s][iv] = 0

UsedBelowCounter == \A e \in Ends, iv \in Ivs :
                       uses[e][session[e]][iv] # 0 => iv < counter[e]

CalledWithPresentKey == \A e \in Ends, t \in Threads :
                           call[e][t].at = "called" => call[e][t].session = session[e]

HeldUnused == \A e \in Ends, t \in Threads : call[e][t].at = "numbered" =>
                 /\ call[e][t].session <= session[e]
                 /\ call[e][t].session = session[e] => call[e][t].sn < counter[e]
                 /\ uses[e][call[e][t].session][call[e][t].sn] = 0

HeldOnce == \A e \in Ends, t, u \in Threads :
               (/\ t # u
                /\ call[e][t].at = "numbered" /\ call[e][u].at = "numbered"
                /\ call[e][t].session = call[e][u].session)
                 => call[e][t].sn # call[e][u].sn

IInv == /\ TypeOK /\ LaterKeysUnused /\ UsedBelowCounter
        /\ CalledWithPresentKey /\ HeldUnused /\ HeldOnce /\ IvUsedOnce

------------------------------------------------------------------------------
\* The fields a call has at each of its points.
LEMMA CallFacts ==
  ASSUME NEW c \in Calls
  PROVE  /\ c.at = "called" => c.session \in Sessions
         /\ c.at = "numbered" => /\ c.session \in Sessions
                                 /\ c.sn \in Ivs /\ c.sn < SnMax
  BY SnAssumption DEF Calls, Idle, Called, Numbered, Sessions, Ivs

\* What the three kinds of call are made of.
LEMMA CallsMade ==
  /\ Idle \in Calls /\ Idle.at = "idle"
  /\ \A s \in Sessions : Called(s) \in Calls /\ Called(s).at = "called"
                         /\ Called(s).session = s
  /\ \A s \in Sessions, sn \in Ivs :
       /\ sn < SnMax => Numbered(s, sn) \in Calls
       /\ Numbered(s, sn).at = "numbered"
       /\ Numbered(s, sn).session = s /\ Numbered(s, sn).sn = sn
  <1>1. Idle \in Calls /\ Idle.at = "idle"
    BY DEF Calls, Idle
  <1>2. ASSUME NEW s \in Sessions
        PROVE  Called(s) \in Calls /\ Called(s).at = "called"
               /\ Called(s).session = s
    <2>1. Called(s) \in Calls
      BY DEF Calls
    <2> QED
      BY <2>1 DEF Called
  <1>3. ASSUME NEW s \in Sessions, NEW sn \in Ivs
        PROVE  /\ sn < SnMax => Numbered(s, sn) \in Calls
               /\ Numbered(s, sn).at = "numbered"
               /\ Numbered(s, sn).session = s /\ Numbered(s, sn).sn = sn
    <2>1. ASSUME sn < SnMax PROVE Numbered(s, sn) \in Calls
      <3>1. sn \in 0..SnMax - 1
        BY <2>1, SnAssumption DEF Ivs
      <3> QED
        BY <3>1 DEF Calls
    <2> QED
      BY <2>1 DEF Numbered
  <1> QED
    BY <1>1, <1>2, <1>3

\* A number in range is its own IV.
LEMMA IvFacts ==
  ASSUME NEW sn \in Ivs
  PROVE  ControlIv(sn) = sn
  <1>1. sn \in Nat /\ SnMax + 1 \in Nat \ {0} /\ sn < SnMax + 1
    BY SnAssumption DEF Ivs
  <1>2. \A m \in Nat \ {0}, k \in Nat : k < m => k % m = k
    OBVIOUS
  <1> QED
    BY <1>1, <1>2 DEF ControlIv

\* Replacing the call of one thread.
LEMMA SetCallFacts ==
  ASSUME TypeOK, NEW e \in Ends, NEW t \in Threads, NEW c \in Calls,
         SetCall(e, t, c)
  PROVE  /\ call' \in [Ends -> [Threads -> Calls]]
         /\ call'[e][t] = c
         /\ \A f \in Ends, u \in Threads :
              (f # e \/ u # t) => call'[f][u] = call[f][u]
  <1>1. call \in [Ends -> [Threads -> Calls]]
    BY DEF TypeOK
  <1>2. call' = [call EXCEPT ![e] = [call[e] EXCEPT ![t] = c]]
    BY DEF SetCall
  <1> QED
    BY <1>1, <1>2

\* Counting one encryption.
LEMMA UsedFacts ==
  ASSUME NEW u \in [Sessions -> [Ivs -> Nat]], NEW s \in Sessions, NEW iv \in Ivs
  PROVE  /\ Used(u, s, iv) \in [Sessions -> [Ivs -> Nat]]
         /\ Used(u, s, iv)[s][iv] = u[s][iv] + 1
         /\ \A r \in Sessions, j \in Ivs :
              (r # s \/ j # iv) => Used(u, s, iv)[r][j] = u[r][j]
  BY DEF Used

LEMMA InitInv == Init => IInv
  <1> SUFFICES ASSUME Init PROVE IInv
    OBVIOUS
  <1>1. TypeOK
    BY CallsMade, MaxSessionsAssumption DEF Init, TypeOK, Sessions
  <1>2. \A e \in Ends, t \in Threads : call[e][t].at = "idle"
    BY CallsMade DEF Init
  <1>3. \A e \in Ends, s \in Sessions, iv \in Ivs : uses[e][s][iv] = 0
    BY DEF Init
  <1>4. \A e \in Ends : session[e] \in Sessions
    BY <1>1 DEF TypeOK
  <1> QED
    BY <1>1, <1>2, <1>3, <1>4 DEF IInv, LaterKeysUnused, UsedBelowCounter,
       CalledWithPresentKey, HeldUnused, HeldOnce, IvUsedOnce

\* Starting a call: it holds the present key.
LEMMA EncryptInv ==
  ASSUME IInv, NEW e \in Ends, NEW t \in Threads, Encrypt(e, t)
  PROVE  IInv'
  <1>0. TypeOK /\ session \in [Ends -> Sessions]
    BY DEF IInv, TypeOK
  <1>1. Called(session[e]) \in Calls /\ Called(session[e]).at = "called"
        /\ Called(session[e]).session = session[e]
    BY <1>0, CallsMade
  <1>2. /\ call' \in [Ends -> [Threads -> Calls]]
        /\ call'[e][t] = Called(session[e])
        /\ \A f \in Ends, u \in Threads :
             (f # e \/ u # t) => call'[f][u] = call[f][u]
    BY <1>0, <1>1, SetCallFacts DEF Encrypt
  <1>3. UNCHANGED <<session, counter, uses>>
    BY DEF Encrypt
  <1>4. TypeOK'
    BY <1>0, <1>2, <1>3 DEF TypeOK
  <1>5. \A f \in Ends, u \in Threads :
          call'[f][u].at = "numbered" => call'[f][u] = call[f][u]
    BY <1>1, <1>2
  <1>6. LaterKeysUnused' /\ UsedBelowCounter' /\ IvUsedOnce'
    BY <1>3 DEF IInv, LaterKeysUnused, UsedBelowCounter, IvUsedOnce
  <1>7. CalledWithPresentKey'
    BY <1>1, <1>2, <1>3 DEF IInv, CalledWithPresentKey
  <1>8. HeldUnused' /\ HeldOnce'
    BY <1>3, <1>5 DEF IInv, HeldUnused, HeldOnce
  <1> QED
    BY <1>4, <1>6, <1>7, <1>8 DEF IInv

\* Taking a number: the old counter, which nobody has, and the counter is past
\* it afterwards.
LEMMA TakeNumberInv ==
  ASSUME IInv, NEW e \in Ends, NEW t \in Threads, TakeNumber(e, t)
  PROVE  IInv'
  <1> DEFINE s == call[e][t].session
             n == counter[e]
  <1>0. /\ TypeOK /\ session \in [Ends -> Sessions] /\ counter \in [Ends -> Nat]
        /\ call[e][t] \in Calls
        /\ uses \in [Ends -> [Sessions -> [Ivs -> Nat]]]
    BY DEF IInv, TypeOK
  <1>1. s \in Sessions /\ s = session[e]
    BY <1>0, CallFacts DEF TakeNumber, IInv, CalledWithPresentKey
  <1>2. n \in Ivs /\ n < SnMax /\ Succ(n) = n + 1
    BY <1>0, SnAssumption, MaxCounterAssumption
       DEF TakeNumber, Exhausted, Ivs, Succ
  <1>3. Numbered(s, n) \in Calls /\ Numbered(s, n).at = "numbered"
        /\ Numbered(s, n).session = s /\ Numbered(s, n).sn = n
    BY <1>1, <1>2, CallsMade
  <1>4. /\ call' \in [Ends -> [Threads -> Calls]]
        /\ call'[e][t] = Numbered(s, n)
        /\ \A f \in Ends, u \in Threads :
             (f # e \/ u # t) => call'[f][u] = call[f][u]
    BY <1>0, <1>3, SetCallFacts DEF TakeNumber
  <1>5. UNCHANGED <<session, uses>>
    BY DEF TakeNumber
  <1>6. /\ counter' \in [Ends -> Nat] /\ counter'[e] = n + 1
        /\ \A f \in Ends : f # e => counter'[f] = counter[f]
    BY <1>0, <1>2 DEF TakeNumber, Count
  <1>7. uses[e][s][n] = 0
    BY <1>0, <1>1, <1>2 DEF IInv, UsedBelowCounter
  <1>14. ASSUME NEW f \in Ends
         PROVE  /\ counter[f] \in Nat /\ counter'[f] \in Nat
                /\ counter[f] <= counter'[f]
    <2>1. CASE f = e
      BY <2>1, <1>0, <1>6
    <2>2. CASE f # e
      BY <2>2, <1>0, <1>6
    <2> QED
      BY <2>1, <2>2
  <1> HIDE DEF s, n
  <1>8. TypeOK'
    BY <1>0, <1>4, <1>5, <1>6 DEF TypeOK
  <1>9. LaterKeysUnused' /\ IvUsedOnce'
    BY <1>5 DEF IInv, LaterKeysUnused, IvUsedOnce
  <1>10. UsedBelowCounter'
    <2> SUFFICES ASSUME NEW f \in Ends, NEW iv \in Ivs,
                        uses[f][session[f]][iv] # 0
                 PROVE  iv < counter'[f]
      BY <1>5 DEF UsedBelowCounter
    <2>1. iv < counter[f]
      BY DEF IInv, UsedBelowCounter
    <2> QED
      BY <2>1, <1>14, SnAssumption DEF Ivs
  <1>11. CalledWithPresentKey'
    BY <1>3, <1>4, <1>5 DEF IInv, CalledWithPresentKey
  <1>12. HeldUnused'
    <2> SUFFICES ASSUME NEW f \in Ends, NEW u \in Threads,
                        call'[f][u].at = "numbered"
                 PROVE  /\ call'[f][u].session <= session[f]
                        /\ call'[f][u].session = session[f]
                              => call'[f][u].sn < counter'[f]
                        /\ uses[f][call'[f][u].session][call'[f][u].sn] = 0
      BY <1>5 DEF HeldUnused
    <2>1. CASE f = e /\ u = t
      BY <2>1, <1>0, <1>1, <1>2, <1>3, <1>4, <1>6, <1>7 DEF Sessions, Ivs
    <2>2. CASE f # e \/ u # t
      <3>1. call'[f][u] = call[f][u] /\ call[f][u] \in Calls
        BY <2>2, <1>4, <1>0 DEF TypeOK
      <3>2. /\ call[f][u].session <= session[f]
            /\ call[f][u].session = session[f] => call[f][u].sn < counter[f]
            /\ uses[f][call[f][u].session][call[f][u].sn] = 0
        BY <3>1 DEF IInv, HeldUnused
      <3>3. call[f][u].sn \in Nat
        BY <3>1, CallFacts, SnAssumption DEF Ivs
      <3>4. counter[f] \in Nat /\ counter'[f] \in Nat /\ counter[f] <= counter'[f]
        BY <1>14
      <3> QED
        BY <3>1, <3>2, <3>3, <3>4
    <2> QED
      BY <2>1, <2>2
  <1>13. HeldOnce'
    <2> SUFFICES ASSUME NEW f \in Ends, NEW u \in Threads, NEW v \in Threads, u # v,
                        call'[f][u].at = "numbered", call'[f][v].at = "numbered",
                        call'[f][u].session = call'[f][v].session
                 PROVE  call'[f][u].sn # call'[f][v].sn
      BY DEF HeldOnce
    <2>0. ASSUME NEW w \in Threads, w # t, call[e][w].at = "numbered",
                 call[e][w].session = s
          PROVE  call[e][w].sn # n
      <3>1. call[e][w] \in Calls
        BY <1>0 DEF TypeOK
      <3>2. call[e][w].sn < counter[e]
        BY <2>0, <1>1 DEF IInv, HeldUnused
      <3>3. call[e][w].sn \in Nat
        BY <3>1, <2>0, CallFacts, SnAssumption DEF Ivs
      <3> QED
        BY <3>2, <3>3, <1>0 DEF n
    <2>1. CASE f = e /\ u = t
      BY <2>0, <2>1, <1>3, <1>4
    <2>2. CASE f = e /\ v = t
      BY <2>0, <2>2, <1>3, <1>4
    <2>3. CASE f # e \/ (u # t /\ v # t)
      BY <2>3, <1>4 DEF IInv, HeldOnce
    <2> QED
      BY <2>1, <2>2, <2>3
  <1> QED
    BY <1>8, <1>9, <1>10, <1>11, <1>12, <1>13 DEF IInv

\* A call that raises ends, and the counter does not move back.
LEMMA NextRaisesInv ==
  ASSUME IInv, NEW e \in Ends, NEW t \in Threads, NextRaises(e, t)
  PROVE  IInv'
  <1>0. TypeOK /\ counter \in [Ends -> Nat]
    BY DEF IInv, TypeOK
  <1>1. /\ call' \in [Ends -> [Threads -> Calls]]
        /\ call'[e][t] = Idle
        /\ \A f \in Ends, u \in Threads :
             (f # e \/ u # t) => call'[f][u] = call[f][u]
    BY <1>0, CallsMade, SetCallFacts DEF NextRaises
  <1>2. \A f \in Ends, u \in Threads :
          call'[f][u].at # "idle" => call'[f][u] = call[f][u]
    BY <1>1, CallsMade
  <1>3. UNCHANGED <<session, uses>>
    BY DEF NextRaises
  <1>4. /\ counter' \in [Ends -> Nat]
        /\ \A f \in Ends : counter[f] <= counter'[f]
    BY <1>0, MaxCounterAssumption DEF NextRaises, Count, Succ
  <1>5. TypeOK'
    BY <1>0, <1>1, <1>3, <1>4 DEF TypeOK
  <1>6. LaterKeysUnused' /\ IvUsedOnce'
    BY <1>3 DEF IInv, LaterKeysUnused, IvUsedOnce
  <1>7. UsedBelowCounter'
    <2> SUFFICES ASSUME NEW f \in Ends, NEW iv \in Ivs,
                        uses[f][session[f]][iv] # 0
                 PROVE  iv < counter'[f]
      BY <1>3 DEF UsedBelowCounter
    <2>1. iv < counter[f]
      BY DEF IInv, UsedBelowCounter
    <2> QED
      BY <2>1, <1>0, <1>4, SnAssumption DEF Ivs
  <1>8. CalledWithPresentKey' /\ HeldOnce'
    BY <1>2, <1>3 DEF IInv, CalledWithPresentKey, HeldOnce
  <1>9. HeldUnused'
    <2> SUFFICES ASSUME NEW f \in Ends, NEW u \in Threads,
                        call'[f][u].at = "numbered"
                 PROVE  /\ call'[f][u].session <= session[f]
                        /\ call'[f][u].session = session[f]
                              => call'[f][u].sn < counter'[f]
                        /\ uses[f][call'[f][u].session][call'[f][u].sn] = 0
      BY <1>3 DEF HeldUnused
    <2>1. call'[f][u] = call[f][u] /\ call[f][u] \in Calls
      BY <1>2, <1>0 DEF TypeOK
    <2>2. /\ call[f][u].session <= session[f]
          /\ call[f][u].session = session[f] => call[f][u].sn < counter[f]
          /\ uses[f][call[f][u].session][call[f][u].sn] = 0
      BY <2>1 DEF IInv, HeldUnused
    <2>3. call[f][u].sn \in Nat
      BY <2>1, CallFacts, SnAssumption DEF Ivs
    <2> QED
      BY <2>1, <2>2, <2>3, <1>0, <1>4
  <1> QED
    BY <1>5, <1>6, <1>7, <1>8, <1>9 DEF IInv

\* Encrypting: the number held becomes the number used, and nobody else has it.
LEMMA AeadEncryptInv ==
  ASSUME IInv, NEW e \in Ends, NEW t \in Threads, AeadEncrypt(e, t)
  PROVE  IInv'
  <1> DEFINE s == call[e][t].session
             n == call[e][t].sn
  <1>0. /\ TypeOK /\ session \in [Ends -> Sessions] /\ counter \in [Ends -> Nat]
        /\ call[e][t] \in Calls /\ call[e][t].at = "numbered"
        /\ uses \in [Ends -> [Sessions -> [Ivs -> Nat]]]
    BY DEF IInv, TypeOK, AeadEncrypt
  <1>1. s \in Sessions /\ n \in Ivs /\ n < SnMax /\ ControlIv(n) = n
    BY <1>0, CallFacts, IvFacts
  <1>2. /\ s <= session[e]
        /\ s = session[e] => n < counter[e]
        /\ uses[e][s][n] = 0
    BY <1>0 DEF IInv, HeldUnused
  <1>3. \A u \in Threads :
          (u # t /\ call[e][u].at = "numbered" /\ call[e][u].session = s)
             => call[e][u].sn # n
    BY <1>0 DEF IInv, HeldOnce
  <1>4. UNCHANGED <<session, counter>>
    BY DEF AeadEncrypt
  <1>5. uses' = [uses EXCEPT ![e] = Used(uses[e], s, n)]
    BY <1>1 DEF AeadEncrypt
  <1>6. /\ call' \in [Ends -> [Threads -> Calls]]
        /\ call'[e][t] = Idle
        /\ \A f \in Ends, u \in Threads :
             (f # e \/ u # t) => call'[f][u] = call[f][u]
    BY <1>0, CallsMade, SetCallFacts DEF AeadEncrypt
  <1> HIDE DEF s, n
  <1>7. /\ uses' \in [Ends -> [Sessions -> [Ivs -> Nat]]]
        /\ uses'[e][s][n] = 1
        /\ \A f \in Ends, r \in Sessions, iv \in Ivs :
             (f # e \/ r # s \/ iv # n) => uses'[f][r][iv] = uses[f][r][iv]
    <2>1. /\ Used(uses[e], s, n) \in [Sessions -> [Ivs -> Nat]]
          /\ Used(uses[e], s, n)[s][n] = uses[e][s][n] + 1
          /\ \A r \in Sessions, iv \in Ivs :
               (r # s \/ iv # n) => Used(uses[e], s, n)[r][iv] = uses[e][r][iv]
      <3>1. uses[e] \in [Sessions -> [Ivs -> Nat]]
        BY <1>0
      <3> QED
        BY <3>1, <1>1, UsedFacts
    <2>2. uses'[e] = Used(uses[e], s, n)
          /\ \A f \in Ends : f # e => uses'[f] = uses[f]
      BY <1>0, <1>5
    <2>3. uses' \in [Ends -> [Sessions -> [Ivs -> Nat]]]
      BY <1>0, <1>5, <2>1
    <2>4. uses'[e][s][n] = 1
      BY <2>1, <2>2, <1>2
    <2> QED
      BY <2>1, <2>2, <2>3, <2>4
  <1>8. \A f \in Ends, u \in Threads :
          call'[f][u].at # "idle" => (f # e \/ u # t) /\ call'[f][u] = call[f][u]
    BY <1>6, CallsMade
  <1>9. TypeOK'
    BY <1>0, <1>4, <1>6, <1>7 DEF TypeOK
  <1>10. LaterKeysUnused'
    <2> SUFFICES ASSUME NEW f \in Ends, NEW r \in Sessions, NEW iv \in Ivs,
                        r > session[f]
                 PROVE  uses'[f][r][iv] = 0
      BY <1>4 DEF LaterKeysUnused
    <2>1. f # e \/ r # s
      <3>1. r \in Nat /\ s \in Nat /\ session[e] \in Nat
        BY <1>0, <1>1, MaxSessionsAssumption DEF Sessions
      <3>2. CASE f = e
        <4>1. r > session[e]
          BY <3>2
        <4> QED
          BY <3>1, <4>1, <1>2
      <3> QED
        BY <3>2
    <2>2. uses[f][r][iv] = 0
      BY DEF IInv, LaterKeysUnused
    <2> QED
      BY <2>1, <2>2, <1>7
  <1>11. UsedBelowCounter'
    <2> SUFFICES ASSUME NEW f \in Ends, NEW iv \in Ivs,
                        uses'[f][session[f]][iv] # 0
                 PROVE  iv < counter[f]
      BY <1>4 DEF UsedBelowCounter
    <2>1. CASE f = e /\ session[f] = s /\ iv = n
      BY <2>1, <1>2
    <2>2. CASE f # e \/ session[f] # s \/ iv # n
      BY <2>2, <1>0, <1>7 DEF IInv, UsedBelowCounter
    <2> QED
      BY <2>1, <2>2
  <1>12. CalledWithPresentKey' /\ HeldOnce'
    BY <1>4, <1>8 DEF IInv, CalledWithPresentKey, HeldOnce
  <1>13. HeldUnused'
    <2> SUFFICES ASSUME NEW f \in Ends, NEW u \in Threads,
                        call'[f][u].at = "numbered"
                 PROVE  /\ call'[f][u].session <= session[f]
                        /\ call'[f][u].session = session[f]
                              => call'[f][u].sn < counter[f]
                        /\ uses'[f][call'[f][u].session][call'[f][u].sn] = 0
      BY <1>4 DEF HeldUnused
    <2>1. (f # e \/ u # t) /\ call'[f][u] = call[f][u] /\ call[f][u] \in Calls
      BY <1>8, <1>0 DEF TypeOK
    <2>2. /\ call[f][u].session <= session[f]
          /\ call[f][u].session = session[f] => call[f][u].sn < counter[f]
          /\ uses[f][call[f][u].session][call[f][u].sn] = 0
      BY <2>1 DEF IInv, HeldUnused
    <2>3. call[f][u].session \in Sessions /\ call[f][u].sn \in Ivs
      BY <2>1, CallFacts
    <2>4. f # e \/ call[f][u].session # s \/ call[f][u].sn # n
      BY <2>1, <1>3
    <2> QED
      BY <2>1, <2>2, <2>3, <2>4, <1>7
  <1>14. IvUsedOnce'
    <2> SUFFICES ASSUME NEW f \in Ends, NEW r \in Sessions, NEW iv \in Ivs
                 PROVE  uses'[f][r][iv] <= 1
      BY DEF IvUsedOnce
    <2>1. CASE f = e /\ r = s /\ iv = n
      BY <2>1, <1>7
    <2>2. CASE f # e \/ r # s \/ iv # n
      BY <2>2, <1>7 DEF IInv, IvUsedOnce
    <2> QED
      BY <2>1, <2>2
  <1> QED
    BY <1>9, <1>10, <1>11, <1>12, <1>13, <1>14 DEF IInv

\* Re-authenticating: the new key is unused, and the calls that hold a number
\* hold it for an older key.
LEMMA ReAuthenticateInv ==
  ASSUME IInv, NEW e \in Ends, ReAuthenticate(e)
  PROVE  IInv'
  <1>0. /\ TypeOK /\ session \in [Ends -> Sessions] /\ counter \in [Ends -> Nat]
        /\ call \in [Ends -> [Threads -> Calls]]
        /\ uses \in [Ends -> [Sessions -> [Ivs -> Nat]]]
    BY DEF IInv, TypeOK
  <1>1. UNCHANGED <<call, uses>> /\ \A t \in Threads : call[e][t].at # "called"
    BY DEF ReAuthenticate
  <1>2. /\ session' \in [Ends -> Sessions]
        /\ session'[e] = session[e] + 1 /\ session'[e] \in Sessions
        /\ \A f \in Ends : f # e => session'[f] = session[f]
    BY <1>0, MaxSessionsAssumption DEF ReAuthenticate, Sessions
  <1>3. /\ counter' \in [Ends -> Nat] /\ counter'[e] = 0
        /\ \A f \in Ends : f # e => counter'[f] = counter[f]
    BY <1>0 DEF ReAuthenticate
  <1>4. TypeOK'
    BY <1>0, <1>1, <1>2, <1>3 DEF TypeOK
  <1>5. \A f \in Ends : session[f] \in Nat /\ session'[f] \in Nat
                        /\ session'[f] >= session[f]
    <2> TAKE f \in Ends
    <2>1. session[f] \in Nat /\ session'[f] \in Nat
      BY <1>0, <1>2, MaxSessionsAssumption DEF Sessions
    <2> QED
      BY <2>1, <1>2
  <1>6. LaterKeysUnused'
    <2> SUFFICES ASSUME NEW f \in Ends, NEW r \in Sessions, NEW iv \in Ivs,
                        r > session'[f]
                 PROVE  uses[f][r][iv] = 0
      BY <1>1 DEF LaterKeysUnused
    <2>1. r > session[f]
      BY <1>5 DEF Sessions
    <2> QED
      BY <2>1 DEF IInv, LaterKeysUnused
  <1>7. UsedBelowCounter'
    <2> SUFFICES ASSUME NEW f \in Ends, NEW iv \in Ivs,
                        uses[f][session'[f]][iv] # 0
                 PROVE  iv < counter'[f]
      BY <1>1 DEF UsedBelowCounter
    <2>1. CASE f = e
      <3>1. session'[e] > session[e]
        BY <1>0, <1>2 DEF Sessions
      <3> QED
        BY <2>1, <3>1, <1>2 DEF IInv, LaterKeysUnused
    <2>2. CASE f # e
      BY <2>2, <1>2, <1>3 DEF IInv, UsedBelowCounter
    <2> QED
      BY <2>1, <2>2
  <1>8. CalledWithPresentKey'
    BY <1>1, <1>2 DEF IInv, CalledWithPresentKey
  <1>9. HeldUnused'
    <2> SUFFICES ASSUME NEW f \in Ends, NEW u \in Threads,
                        call[f][u].at = "numbered"
                 PROVE  /\ call[f][u].session <= session'[f]
                        /\ call[f][u].session = session'[f]
                              => call[f][u].sn < counter'[f]
                        /\ uses[f][call[f][u].session][call[f][u].sn] = 0
      BY <1>1 DEF HeldUnused
    <2>1. call[f][u].session \in Nat
      BY <1>0, CallFacts DEF Sessions
    <2>2. /\ call[f][u].session <= session[f]
          /\ call[f][u].session = session[f] => call[f][u].sn < counter[f]
          /\ uses[f][call[f][u].session][call[f][u].sn] = 0
      BY DEF IInv, HeldUnused
    <2>3. CASE f = e
      BY <2>1, <2>2, <2>3, <1>2, <1>5
    <2>4. CASE f # e
      BY <2>2, <2>4, <1>2, <1>3
    <2> QED
      BY <2>3, <2>4
  <1>10. HeldOnce' /\ IvUsedOnce'
    BY <1>1 DEF IInv, HeldOnce, IvUsedOnce
  <1> QED
    BY <1>4, <1>6, <1>7, <1>8, <1>9, <1>10 DEF IInv

LEMMA StepInv == IInv /\ [Next]_vars => IInv'
  <1> SUFFICES ASSUME IInv, [Next]_vars PROVE IInv'
    OBVIOUS
  <1>1. ASSUME NEW e \in Ends, NEW t \in Threads,
               Encrypt(e, t) \/ TakeNumber(e, t) \/ NextRaises(e, t)
                 \/ AeadEncrypt(e, t)
        PROVE  IInv'
    BY <1>1, EncryptInv, TakeNumberInv, NextRaisesInv, AeadEncryptInv
  <1>2. ASSUME NEW e \in Ends, ReAuthenticate(e)
        PROVE  IInv'
    BY <1>2, ReAuthenticateInv
  <1>3. CASE UNCHANGED vars
    BY <1>3 DEF vars, IInv, TypeOK, LaterKeysUnused, UsedBelowCounter,
                CalledWithPresentKey, HeldUnused, HeldOnce, IvUsedOnce
  <1> QED
    BY <1>1, <1>2, <1>3 DEF Next

------------------------------------------------------------------------------
\* The numbers are where the invariant says in every reachable state.
THEOREM InductiveInvariant == Spec => []IInv
  BY InitInv, StepInv, PTL DEF Spec

\* The channel ends keep their types, and no number handed out is SnMax.
THEOREM TypeCorrect == Spec => []TypeOK
  <1>1. IInv => TypeOK
    BY DEF IInv
  <1> QED
    BY <1>1, InductiveInvariant, PTL

\* SequenceNumberState and derive_control_iv give no IV twice under one key,
\* whatever the threads' interleaving with each other and with
\* re-authentications that keep their duty.
THEOREM ControlIvsUnique == Spec => []IvUsedOnce
  <1>1. IInv => IvUsedOnce
    BY DEF IInv
  <1> QED
    BY <1>1, InductiveInvariant, PTL
=============================================================================
