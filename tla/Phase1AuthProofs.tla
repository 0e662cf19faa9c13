--------------------------- MODULE Phase1AuthProofs ---------------------------
(***************************************************************************)
(* Proofs about Phase1Auth for any clients and any numbers of requests and *)
(* answers.                                                                *)
(*                                                                         *)
(* KeyAgreement rests on the messages: every request is one its client     *)
(* made, and every response was made together with a session that holds    *)
(* the keys it leads to.  KeysAcceptedOnce rests on the nonces: keys       *)
(* accepted by a client hold a nonce of that client, no two of them the    *)
(* same, and none holds the nonce of the request that is pending.          *)
(***************************************************************************)
EXTENDS Phase1Auth, TLAPS

\* The answer k of the TTA to the request with nonce n, and its session.
Response(n, k) ==
  [ct |-> Ciphertext(n, k), nonceTTA |-> <<n, k>>,
   signature |-> Transcript(<<n, k>>, n, n[1], Ciphertext(n, k))]

SessionKeys(n, k) == ChannelKeys(Secret(n, Ciphertext(n, k)), n, <<n, k>>)

Session(n, k) == [id |-> n[1], keys |-> SessionKeys(n, k)]

ClientType == client \in [Clients -> [dk : Nonces \cup {None},
                                      nonce : Nonces \cup {None}]]

RequestsMade == \A req \in requests : \E n \in Nonces : req = AuthRequest(n[1], n)

ResponsesHaveSessions ==
  \A resp \in responses : \E n \in Nonces, k \in 1..MaxAnswers :
     resp = Response(n, k) /\ Session(n, k) \in sessions

AcceptedNoncesOld ==
  \A c \in Clients : \A i \in DOMAIN accepted[c] :
     /\ accepted[c][i].nonceClient[1] = c
     /\ accepted[c][i].nonceClient[2] <= made[c]
     /\ client[c].dk # None => accepted[c][i].nonceClient # client[c].nonce

AcceptedNoncesDiffer ==
  \A c \in Clients : \A i, j \in DOMAIN accepted[c] :
     accepted[c][i].nonceClient = accepted[c][j].nonceClient => i = j

IInv == /\ TypeOK /\ ClientType /\ RequestsMade /\ ResponsesHaveSessions /\ KeyAgreement
        /\ AcceptedNoncesOld /\ AcceptedNoncesDiffer

------------------------------------------------------------------------------
\* The parts of a nonce.
LEMMA NonceParts ==
  ASSUME NEW n \in Nonces
  PROVE  /\ n[1] \in Clients /\ n[2] \in 1..MaxRequests
         /\ n = <<n[1], n[2]>> /\ n # None
  BY NoneAssumption DEF Nonces

\* The keys of a session have their type, and hold the client's nonce.
LEMMA SessionType ==
  ASSUME NEW n \in Nonces, NEW k \in 1..MaxAnswers
  PROVE  /\ SessionKeys(n, k) \in Keys
         /\ SessionKeys(n, k).nonceClient = n
         /\ Session(n, k) \in [id : Clients, keys : Keys]
  BY NonceParts DEF SessionKeys, Session, ChannelKeys, Secret, Ciphertext, Keys

\* A client with a request pending verifies only answers to that request, and
\* derives from them the keys of the session.
LEMMA VerifiedAnswer ==
  ASSUME TypeOK, NEW c \in Clients, NEW n \in Nonces, NEW k \in 1..MaxAnswers,
         Pending(c), Verified(c, Response(n, k))
  PROVE  /\ n = client[c].nonce /\ n = client[c].dk /\ c = n[1]
         /\ n = <<c, made[c]>>
         /\ ChannelKeys(Secret(client[c].dk, Response(n, k).ct), client[c].nonce,
                        Response(n, k).nonceTTA) = SessionKeys(n, k)
  <1>1. n = client[c].nonce /\ c = n[1]
    BY DEF Verified, Response, Transcript
  <1>2. n = client[c].dk /\ n = <<c, made[c]>>
    BY <1>1 DEF TypeOK, Pending
  <1>3. Response(n, k).ct = Ciphertext(n, k) /\ Response(n, k).nonceTTA = <<n, k>>
    BY DEF Response
  <1> QED BY <1>1, <1>2, <1>3 DEF SessionKeys

------------------------------------------------------------------------------
LEMMA InitInv == Init => IInv
  <1> SUFFICES ASSUME Init PROVE IInv
    OBVIOUS
  <1>1. TypeOK
    BY BoundAssumption DEF Init, TypeOK
  <1>2. RequestsMade /\ ResponsesHaveSessions
    BY DEF Init, RequestsMade, ResponsesHaveSessions
  <1>3. ASSUME NEW c \in Clients PROVE DOMAIN accepted[c] = {}
    <2>1. accepted[c] = <<>>
      BY DEF Init
    <2> QED BY <2>1
  <1>4. ClientType
    BY DEF Init, ClientType
  <1>5. KeyAgreement /\ AcceptedNoncesOld /\ AcceptedNoncesDiffer
    BY <1>3 DEF KeyAgreement, AcceptedKeys, AcceptedNoncesOld, AcceptedNoncesDiffer
  <1> QED BY <1>1, <1>2, <1>4, <1>5 DEF IInv

LEMMA RequestStep ==
  ASSUME IInv, NEW c \in Clients, CreateAuthRequest(c)
  PROVE  IInv'
  <1> DEFINE n == <<c, made[c] + 1>>
  <1> USE DEF IInv
  <1>1. /\ made[c] \in 0..MaxRequests /\ made[c] < MaxRequests
        /\ made[c] + 1 \in 1..MaxRequests
    BY BoundAssumption DEF CreateAuthRequest, TypeOK
  <1>2. n \in Nonces /\ n[1] = c /\ n[2] = made[c] + 1
    BY <1>1 DEF Nonces
  <1>3. /\ made'[c] = made[c] + 1
        /\ \A d \in Clients \ {c} : made'[d] = made[d]
        /\ made' \in [Clients -> 0..MaxRequests]
    BY <1>1 DEF CreateAuthRequest, TypeOK
  <1>4. /\ client'[c] = [dk |-> n, nonce |-> n]
        /\ \A d \in Clients \ {c} : client'[d] = client[d]
        /\ ClientType'
    BY <1>2 DEF CreateAuthRequest, ClientType
  <1>5. /\ requests' = requests \cup {AuthRequest(c, n)}
        /\ UNCHANGED <<responses, sessions, accepted, revoked>>
    BY DEF CreateAuthRequest
  <1>6. AuthRequest(c, n).id = c /\ AuthRequest(c, n).nonce = n
    BY DEF AuthRequest
  <1> HIDE DEF n
  <1>7. ASSUME NEW d \in Clients
        PROVE  /\ client'[d].nonce = IF made'[d] = 0 THEN None ELSE <<d, made'[d]>>
               /\ client'[d].dk \in {None, client'[d].nonce}
    <2>1. n = <<c, made'[c]>> /\ made'[c] # 0
      BY <1>1, <1>3 DEF n
    <2>2. CASE d = c
      <3>1. client'[d].nonce = n /\ client'[d].dk = n
        BY <1>4, <2>2
      <3> QED BY <2>1, <2>2, <3>1
    <2>3. CASE d # c
      <3>1. client'[d] = client[d] /\ made'[d] = made[d]
        BY <1>3, <1>4, <2>3
      <3> QED BY <3>1 DEF TypeOK
    <2> QED BY <2>2, <2>3
  <1>8. TypeOK'
    BY <1>2, <1>3, <1>5, <1>6, <1>7 DEF TypeOK
  <1>9. RequestsMade'
    BY <1>2, <1>5 DEF RequestsMade
  <1>10. ResponsesHaveSessions' /\ KeyAgreement'
    BY <1>5 DEF ResponsesHaveSessions, KeyAgreement, AcceptedKeys
  <1>11. AcceptedNoncesOld'
    <2> SUFFICES ASSUME NEW d \in Clients, NEW i \in DOMAIN accepted[d]
                 PROVE  /\ accepted[d][i].nonceClient[1] = d
                        /\ accepted[d][i].nonceClient[2] <= made'[d]
                        /\ client'[d].dk # None =>
                              accepted[d][i].nonceClient # client'[d].nonce
      BY <1>5 DEF AcceptedNoncesOld
    <2>1. /\ accepted[d][i].nonceClient[1] = d
          /\ accepted[d][i].nonceClient[2] <= made[d]
          /\ client[d].dk # None => accepted[d][i].nonceClient # client[d].nonce
      BY DEF AcceptedNoncesOld
    <2>2. accepted[d][i].nonceClient[2] \in Nat
      <3>1. accepted[d][i] \in Keys
        BY DEF TypeOK
      <3> QED BY <3>1, NonceParts DEF Keys
    <2>3. CASE d # c
      BY <2>1, <2>3, <1>3, <1>4
    <2>4. CASE d = c
      <3>1. accepted[d][i].nonceClient[2] < n[2]
        BY <1>1, <1>2, <2>1, <2>2, <2>4
      <3>2. client'[d].nonce = n /\ made'[d] = n[2]
        BY <1>2, <1>3, <1>4, <2>4
      <3> QED BY <3>1, <3>2, <2>1, <2>2, <1>1, <1>2
    <2> QED BY <2>3, <2>4
  <1>12. AcceptedNoncesDiffer'
    BY <1>5 DEF AcceptedNoncesDiffer
  <1> QED BY <1>4, <1>8, <1>9, <1>10, <1>11, <1>12

\* An answer k to a request with nonce n.
LEMMA AnswerStep ==
  ASSUME IInv, NEW req \in requests, ProcessAuthRequest(req)
  PROVE  IInv'
  <1> USE DEF IInv
  <1>1. PICK n \in Nonces : req = AuthRequest(n[1], n)
    BY DEF RequestsMade
  <1>2. req.ek = n /\ req.nonce = n /\ req.id = n[1]
    BY <1>1 DEF AuthRequest
  <1>3. PICK k \in 1..MaxAnswers :
          /\ responses' = responses \cup {Response(n, k)}
          /\ sessions' = sessions \cup {Session(n, k)}
    BY <1>2 DEF ProcessAuthRequest, Answer, Response, Session, SessionKeys, Ciphertext
  <1>4. UNCHANGED <<client, made, requests, accepted, revoked>>
    BY DEF ProcessAuthRequest
  <1>5. TypeOK' /\ ClientType'
    BY <1>3, <1>4, SessionType DEF TypeOK, ClientType
  <1>6. RequestsMade' /\ AcceptedNoncesOld' /\ AcceptedNoncesDiffer'
    BY <1>4 DEF RequestsMade, AcceptedNoncesOld, AcceptedNoncesDiffer
  <1>7. ResponsesHaveSessions'
    BY <1>3 DEF ResponsesHaveSessions
  <1>8. KeyAgreement'
    BY <1>3, <1>4 DEF KeyAgreement, AcceptedKeys
  <1> QED BY <1>5, <1>6, <1>7, <1>8

\* A client accepts the answer k to its request with nonce n.
LEMMA AcceptStep ==
  ASSUME IInv, NEW c \in Clients, NEW resp \in responses, AcceptResponse(c, resp)
  PROVE  IInv'
  <1> USE DEF IInv
  <1>1. PICK n \in Nonces, k \in 1..MaxAnswers :
          resp = Response(n, k) /\ Session(n, k) \in sessions
    BY DEF ResponsesHaveSessions
  <1>2. /\ n = client[c].nonce /\ n = client[c].dk /\ c = n[1]
        /\ n = <<c, made[c]>>
    BY <1>1, VerifiedAnswer DEF AcceptResponse
  <1> DEFINE keys == SessionKeys(n, k)
  <1>3. keys \in Keys /\ keys.nonceClient = n
    BY SessionType
  <1>4. /\ accepted' = [accepted EXCEPT ![c] = Append(accepted[c], keys)]
        /\ client' = [client EXCEPT ![c].dk = None]
        /\ UNCHANGED <<made, requests, responses, sessions, revoked>>
    BY <1>1, VerifiedAnswer DEF AcceptResponse, Accept
  <1> HIDE DEF keys
  <1>5. /\ accepted'[c] = Append(accepted[c], keys)
        /\ \A d \in Clients \ {c} : accepted'[d] = accepted[d]
        /\ accepted' \in [Clients -> Seq(Keys)]
    BY <1>3, <1>4 DEF TypeOK
  <1>6. /\ client'[c].dk = None /\ client'[c].nonce = client[c].nonce
        /\ \A d \in Clients \ {c} : client'[d] = client[d]
        /\ ClientType'
    BY <1>4 DEF ClientType
  <1>7. TypeOK'
    <2>1. ASSUME NEW d \in Clients
          PROVE  /\ client'[d].nonce = IF made[d] = 0 THEN None ELSE <<d, made[d]>>
                 /\ client'[d].dk \in {None, client'[d].nonce}
      <3>1. CASE d = c
        BY <1>6, <3>1 DEF TypeOK
      <3>2. CASE d # c
        BY <1>6, <3>2 DEF TypeOK
      <3> QED BY <3>1, <3>2
    <2> QED BY <1>4, <1>5, <2>1 DEF TypeOK
  <1>8. RequestsMade' /\ ResponsesHaveSessions'
    BY <1>4 DEF RequestsMade, ResponsesHaveSessions
  \* What is accepted now was accepted before or is the keys of the session.
  <1>9. ASSUME NEW d \in Clients, NEW i \in DOMAIN accepted'[d]
        PROVE  \/ i \in DOMAIN accepted[d] /\ accepted'[d][i] = accepted[d][i]
               \/ d = c /\ i = Len(accepted[c]) + 1 /\ accepted'[d][i] = keys
    <2>1. CASE d # c
      BY <1>5, <2>1
    <2>2. CASE d = c
      <3>1. accepted[c] \in Seq(Keys)
        BY DEF TypeOK
      <3>2. i \in 1..Len(accepted[c]) + 1
        BY <1>3, <1>5, <2>2, <3>1
      <3> QED BY <1>3, <1>5, <2>2, <3>1, <3>2
    <2> QED BY <2>1, <2>2
  <1>10. KeyAgreement'
    <2> SUFFICES ASSUME NEW d \in Clients, NEW i \in DOMAIN accepted'[d]
                 PROVE  [id |-> d, keys |-> accepted'[d][i]] \in sessions
      BY <1>4 DEF KeyAgreement, AcceptedKeys
    <2>1. [id |-> c, keys |-> keys] \in sessions
      BY <1>1, <1>2 DEF Session, keys
    <2> QED BY <1>9, <2>1 DEF KeyAgreement, AcceptedKeys
  <1>11. AcceptedNoncesOld'
    <2> SUFFICES ASSUME NEW d \in Clients, NEW i \in DOMAIN accepted'[d]
                 PROVE  /\ accepted'[d][i].nonceClient[1] = d
                        /\ accepted'[d][i].nonceClient[2] <= made[d]
                        /\ client'[d].dk # None =>
                              accepted'[d][i].nonceClient # client'[d].nonce
      BY <1>4 DEF AcceptedNoncesOld
    <2>1. CASE d = c /\ accepted'[d][i] = keys
      <3>1. n[1] = c /\ n[2] = made[c] /\ made[c] \in Nat
        BY <1>2 DEF TypeOK
      <3> QED BY <1>3, <1>6, <2>1, <3>1
    <2>2. CASE i \in DOMAIN accepted[d] /\ accepted'[d][i] = accepted[d][i]
      <3>1. client'[d].dk # None => client'[d] = client[d]
        BY <1>6
      <3> QED BY <2>2, <3>1 DEF AcceptedNoncesOld
    <2> QED BY <1>9, <2>1, <2>2
  \* Before, no accepted keys held n, the nonce of a pending request.
  <1>12. AcceptedNoncesDiffer'
    <2> SUFFICES ASSUME NEW d \in Clients,
                        NEW i \in DOMAIN accepted'[d], NEW j \in DOMAIN accepted'[d],
                        accepted'[d][i].nonceClient = accepted'[d][j].nonceClient
                 PROVE  i = j
      BY DEF AcceptedNoncesDiffer
    <2>1. ASSUME NEW l \in DOMAIN accepted[c]
          PROVE  accepted[c][l].nonceClient # n
      <3>1. client[c].dk # None
        BY <1>2, NonceParts
      <3>2. AcceptedNoncesOld
        OBVIOUS
      <3>3. accepted[c][l].nonceClient # client[c].nonce
        BY <3>1, <3>2 DEF AcceptedNoncesOld
      <3> QED BY <1>2, <3>3
    <2>2. CASE d = c /\ accepted'[d][i] = keys /\ i = Len(accepted[c]) + 1
      BY <1>3, <1>9, <2>1, <2>2
    <2>3. CASE d = c /\ accepted'[d][j] = keys /\ j = Len(accepted[c]) + 1
      BY <1>3, <1>9, <2>1, <2>3
    <2>4. CASE /\ i \in DOMAIN accepted[d] /\ accepted'[d][i] = accepted[d][i]
               /\ j \in DOMAIN accepted[d] /\ accepted'[d][j] = accepted[d][j]
      BY <2>4 DEF AcceptedNoncesDiffer
    <2> QED BY <1>9, <2>2, <2>3, <2>4
  <1> QED BY <1>6, <1>7, <1>8, <1>10, <1>11, <1>12

\* The revocation list is read by none of the invariants but TypeOK.
LEMMA OtherSteps ==
  ASSUME IInv,
         \/ \E c \in Clients : Revoke(c) \/ Unrevoke(c)
         \/ UNCHANGED vars
  PROVE  IInv'
  <1>1. /\ UNCHANGED <<client, made, requests, responses, sessions, accepted>>
        /\ revoked \subseteq Clients => revoked' \subseteq Clients
    BY DEF Revoke, Unrevoke, vars
  <1>2. TypeOK' /\ ClientType'
    BY <1>1 DEF IInv, TypeOK, ClientType
  <1>3. RequestsMade' /\ ResponsesHaveSessions' /\ KeyAgreement'
    BY <1>1 DEF IInv, RequestsMade, ResponsesHaveSessions, KeyAgreement, AcceptedKeys
  <1>4. AcceptedNoncesOld' /\ AcceptedNoncesDiffer'
    BY <1>1 DEF IInv, AcceptedNoncesOld, AcceptedNoncesDiffer
  <1> QED BY <1>2, <1>3, <1>4 DEF IInv

LEMMA NextInv == IInv /\ [Next]_vars => IInv'
  BY RequestStep, AnswerStep, AcceptStep, OtherSteps DEF Next

------------------------------------------------------------------------------
\* The invariant holds in every reachable state of the handshakes.
THEOREM InductiveInvariant == Spec => []IInv
  BY InitInv, NextInv, PTL DEF Spec

\* Clients, messages and sessions keep their types, and a key pair is pending
\* only together with the nonce of the same request.
THEOREM TypeCorrect == Spec => []TypeOK
  <1>1. IInv => TypeOK
    BY DEF IInv
  <1> QED BY <1>1, InductiveInvariant, PTL

\* Whatever is retried, repeated, late or misdelivered, the keys a client
\* accepts are keys of a session the TTA has with that client.
THEOREM KeysAgree == Spec => []KeyAgreement
  <1>1. IInv => KeyAgreement
    BY DEF IInv
  <1> QED BY <1>1, InductiveInvariant, PTL

\* No keys are accepted twice, by one client or by two.
THEOREM NoKeysAcceptedTwice == Spec => []KeysAcceptedOnce
  <1>1. IInv => KeysAcceptedOnce
    <2> SUFFICES ASSUME IInv, NEW c \in Clients, NEW d \in Clients,
                        NEW i \in DOMAIN accepted[c], NEW j \in DOMAIN accepted[d],
                        accepted[c][i] = accepted[d][j]
                 PROVE  c = d /\ i = j
      BY DEF KeysAcceptedOnce
    <2>1. c = d
      BY DEF IInv, AcceptedNoncesOld
    <2> QED BY <2>1 DEF IInv, AcceptedNoncesDiffer
  <1> QED BY <1>1, InductiveInvariant, PTL

\* A pending request ends only by an acceptance: responses that do not verify
\* cost the client nothing.
THEOREM PendingSurvives == Spec => PendingSurvivesBadResponses
  <1> DEFINE Survives ==
        \A c \in Clients :
          Pending(c) /\ ~Pending(c)' => Len(accepted'[c]) = Len(accepted[c]) + 1
  <1>1. IInv /\ [Next]_vars => [Survives]_vars
    <2> SUFFICES ASSUME IInv, Next, NEW c \in Clients, Pending(c), ~Pending(c)'
                 PROVE  Len(accepted'[c]) = Len(accepted[c]) + 1
      OBVIOUS
    <2>1. CASE \E d \in Clients, resp \in responses : AcceptResponse(d, resp)
      <3>1. PICK d \in Clients, resp \in responses : AcceptResponse(d, resp)
        BY <2>1
      <3>2. client' = [client EXCEPT ![d].dk = None]
        BY <3>1 DEF AcceptResponse
      <3>3. d = c
        BY <3>2 DEF IInv, ClientType, Pending
      <3>4. PICK keys : accepted' = [accepted EXCEPT ![c] = Append(accepted[c], keys)]
        BY <3>1, <3>3 DEF AcceptResponse, Accept
      <3>5. accepted[c] \in Seq(Keys) /\ c \in DOMAIN accepted
        BY DEF IInv, TypeOK
      <3> QED BY <3>4, <3>5
    <2>2. CASE \E d \in Clients : CreateAuthRequest(d)
      <3>1. PICK d \in Clients : CreateAuthRequest(d)
        BY <2>2
      <3>2. CASE d # c
        BY <3>1, <3>2 DEF CreateAuthRequest, IInv, ClientType, Pending
      <3>3. CASE d = c
        <4>1. made[c] \in Nat
          BY DEF IInv, TypeOK
        <4>2. <<c, made[c] + 1>> \in Nonces
          BY <3>1, <3>3, <4>1, BoundAssumption DEF CreateAuthRequest, Nonces
        <4>3. Pending(c)'
          BY <3>1, <3>3, <4>2, NonceParts DEF CreateAuthRequest, IInv, ClientType, Pending
        <4> QED BY <4>3
      <3> QED BY <3>2, <3>3
    <2>3. CASE \/ \E req \in requests : ProcessAuthRequest(req)
               \/ \E d \in Clients : Revoke(d) \/ Unrevoke(d)
      BY <2>3 DEF ProcessAuthRequest, Revoke, Unrevoke, Pending
    <2> QED BY <2>1, <2>2, <2>3 DEF Next
  <1> QED BY <1>1, InductiveInvariant, PTL DEF Spec, PendingSurvivesBadResponses
=============================================================================
