------------------------------ MODULE Phase1Auth ------------------------------
(***************************************************************************)
(* Phase I, mutual authentication (src/protocol/phase1_auth.py): clients   *)
(* and the TTA exchange Auth_Req and Auth_Resp over a network that may     *)
(* lose, duplicate, delay and reorder messages and deliver a response to   *)
(* any client, and clients may retry at any moment.                        *)
(*                                                                         *)
(* Fresh values: the i-th request of client c is <<c, i>>, which stands    *)
(* for its ephemeral key pair and for its nonce (both are generated by the *)
(* same call); an answer to it is <<<<c, i>>, k>>, which stands for the    *)
(* TTA's nonce and the randomness of the encapsulation.  A shared secret   *)
(* is a pair of a key and a ciphertext: decapsulating with another key     *)
(* than the ciphertext was made for yields another secret (ML-KEM rejects  *)
(* implicitly).  A signature is the content it was made over: all parties  *)
(* are honest.  The sequence numbers of the messages are signed but        *)
(* compared with nothing, and are left out.                                *)
(***************************************************************************)
EXTENDS Integers, Sequences

CONSTANTS Clients,
          MaxRequests,   \* requests a client makes
          MaxAnswers,    \* times the TTA handles one request
          None

ASSUME BoundAssumption == MaxRequests \in Nat /\ MaxAnswers \in Nat
ASSUME NoneAssumption == None \notin Clients \X (1..MaxRequests)

VARIABLES client,     \* Phase1Client: [dk, nonce]
          made,       \* how many requests each client has made
          requests,   \* Auth_Req messages sent
          responses,  \* Auth_Resp messages sent
          sessions,   \* what process_auth_request returned to the TTA
          accepted,   \* the keys process_auth_response returned, by client
          revoked     \* CertificateRevocationList._revoked

vars == <<client, made, requests, responses, sessions, accepted, revoked>>

Nonces == Clients \X (1..MaxRequests)

\* encaps, and decaps with the key dk.
Ciphertext(ek, k) == [ek |-> ek, random |-> <<ek, k>>]
Secret(dk, ct) == <<dk, ct>>

ChannelKeys(secret, nonceClient, nonceTTA) ==
  [secret |-> secret, nonceClient |-> nonceClient, nonceTTA |-> nonceTTA]

\* A faulty variant of Transcript: the response is not bound to the request.
TranscriptUnbound(nonceTTA, nonceClient, id, ct) ==
  [nonceTTA |-> nonceTTA, id |-> id, ct |-> ct]

Transcript(nonceTTA, nonceClient, id, ct) ==
  [nonceTTA |-> nonceTTA, nonceClient |-> nonceClient, id |-> id, ct |-> ct]

AuthRequest(c, n) == [ek |-> n, nonce |-> n, id |-> c, signature |-> <<c, n, n>>]

------------------------------------------------------------------------------
Init == /\ client = [c \in Clients |-> [dk |-> None, nonce |-> None]]
        /\ made = [c \in Clients |-> 0]
        /\ requests = {} /\ responses = {} /\ sessions = {}
        /\ accepted = [c \in Clients |-> <<>>]
        /\ revoked = {}

\* A faulty variant of CreateAuthRequest: a retry keeps the pending key pair.
CreateAuthRequestKeepsKey(c) ==
  /\ made[c] < MaxRequests
  /\ made' = [made EXCEPT ![c] = @ + 1]
  /\ LET n == <<c, made[c] + 1>>
         dk == IF client[c].dk = None THEN n ELSE client[c].dk
     IN /\ client' = [client EXCEPT ![c] = [dk |-> dk, nonce |-> n]]
        /\ requests' = requests \cup {AuthRequest(c, n)}
  /\ UNCHANGED <<responses, sessions, accepted, revoked>>

\* create_auth_request: a retry replaces the pending key pair and nonce.
CreateAuthRequest(c) ==
  /\ made[c] < MaxRequests
  /\ made' = [made EXCEPT ![c] = @ + 1]
  /\ LET n == <<c, made[c] + 1>>
     IN /\ client' = [client EXCEPT ![c] = [dk |-> n, nonce |-> n]]
        /\ requests' = requests \cup {AuthRequest(c, n)}
  /\ UNCHANGED <<responses, sessions, accepted, revoked>>

Unused(nonceTTA) == \A s \in sessions : s.keys.nonceTTA # nonceTTA

\* encaps and the TTA's nonce give fresh values.
Answer(req) ==
  \E k \in 1..MaxAnswers :
    LET nonceTTA == <<req.nonce, k>>
        ct == Ciphertext(req.ek, k)
    IN /\ Unused(nonceTTA)
       /\ responses' = responses \cup
            {[ct |-> ct, nonceTTA |-> nonceTTA,
              signature |-> Transcript(nonceTTA, req.nonce, req.id, ct)]}
       /\ sessions' = sessions \cup
            {[id |-> req.id,
              keys |-> ChannelKeys(Secret(req.ek, ct), req.nonce, nonceTTA)]}

\* A faulty variant of ProcessAuthRequest: a client that has a session already
\* is not answered again.
ProcessAuthRequestOnce(req) ==
  /\ req.signature = <<req.id, req.ek, req.nonce>>
  /\ \A s \in sessions : s.id # req.id
  /\ Answer(req)
  /\ UNCHANGED <<client, made, requests, accepted, revoked>>

\* process_auth_request: every delivery of a request, a repeated one too, is
\* answered with a new secret and nonce.  revoked is not read.
ProcessAuthRequest(req) ==
  /\ req.signature = <<req.id, req.ek, req.nonce>>
  /\ Answer(req)
  /\ UNCHANGED <<client, made, requests, accepted, revoked>>

Pending(c) == client[c].dk # None /\ client[c].nonce # None

Verified(c, resp) ==
  resp.signature = Transcript(resp.nonceTTA, client[c].nonce, c, resp.ct)

Accept(c, resp) ==
  accepted' = [accepted EXCEPT ![c] =
     Append(@, ChannelKeys(Secret(client[c].dk, resp.ct),
                           client[c].nonce, resp.nonceTTA))]

\* Faulty variants of AcceptResponse: the key pair survives the acceptance, or
\* it is cleared before the signature is checked.
AcceptResponseKeepsKey(c, resp) ==
  /\ Pending(c)
  /\ Verified(c, resp)
  /\ Accept(c, resp)
  /\ UNCHANGED <<client, made, requests, responses, sessions, revoked>>

AcceptResponseClearsFirst(c, resp) ==
  /\ Pending(c)
  /\ client' = [client EXCEPT ![c].dk = None]
  /\ IF Verified(c, resp) THEN Accept(c, resp) ELSE UNCHANGED accepted
  /\ UNCHANGED <<made, requests, responses, sessions, revoked>>

\* process_auth_response returns keys.  The calls that raise (nothing pending,
\* or a signature over another transcript) change nothing.
AcceptResponse(c, resp) ==
  /\ Pending(c)
  /\ Verified(c, resp)
  /\ Accept(c, resp)
  /\ client' = [client EXCEPT ![c].dk = None]
  /\ UNCHANGED <<made, requests, responses, sessions, revoked>>

Revoke(c) == /\ c \notin revoked
             /\ revoked' = revoked \cup {c}
             /\ UNCHANGED <<client, made, requests, responses, sessions, accepted>>

Unrevoke(c) == /\ c \in revoked
               /\ revoked' = revoked \ {c}
               /\ UNCHANGED <<client, made, requests, responses, sessions, accepted>>

Next == \/ \E c \in Clients : CreateAuthRequest(c)
        \/ \E req \in requests : ProcessAuthRequest(req)
        \/ \E c \in Clients, resp \in responses : AcceptResponse(c, resp)
        \/ \E c \in Clients : Revoke(c)
        \/ \E c \in Clients : Unrevoke(c)

\* The network delivers a client's latest request, and one of its answers,
\* unless the client replaces the request first.
Fairness ==
  \A c \in Clients :
    /\ WF_vars(\E req \in requests :
                  req.nonce = client[c].nonce /\ ProcessAuthRequest(req))
    /\ WF_vars(\E resp \in responses : AcceptResponse(c, resp))

Spec == Init /\ [][Next]_vars /\ Fairness

------------------------------------------------------------------------------
Keys == [secret : Nonces \X [ek : Nonces, random : Nonces \X (1..MaxAnswers)],
         nonceClient : Nonces, nonceTTA : Nonces \X (1..MaxAnswers)]

\* The variables keep their types; a key pair is pending only together with
\* the nonce of the same request.
TypeOK ==
  /\ made \in [Clients -> 0..MaxRequests]
  /\ \A c \in Clients :
       /\ client[c].nonce = IF made[c] = 0 THEN None ELSE <<c, made[c]>>
       /\ client[c].dk \in {None, client[c].nonce}
  /\ \A req \in requests : req.id \in Clients /\ req.nonce \in Nonces
  /\ sessions \subseteq [id : Clients, keys : Keys]
  /\ accepted \in [Clients -> Seq(Keys)]
  /\ revoked \subseteq Clients

AcceptedKeys(c) == {accepted[c][i] : i \in DOMAIN accepted[c]}

\* Whatever retries, duplicates and late responses were in flight, the keys a
\* client accepts are keys the TTA derived in a session with that client.
KeyAgreement ==
  \A c \in Clients : \A keys \in AcceptedKeys(c) :
     [id |-> c, keys |-> keys] \in sessions

\* No two acceptances, of one client or of two, end with the same keys: a
\* duplicated response establishes nothing new, and the control channels that
\* number their messages from 0 again never share a key.
KeysAcceptedOnce ==
  \A c, d \in Clients :
    \A i \in DOMAIN accepted[c], j \in DOMAIN accepted[d] :
       accepted[c][i] = accepted[d][j] => c = d /\ i = j

\* A pending request ends only by being accepted or replaced: a response that
\* does not verify leaves the client able to accept the right one.
PendingSurvivesBadResponses ==
  [][\A c \in Clients :
       Pending(c) /\ ~Pending(c)' => Len(accepted'[c]) = Len(accepted[c]) + 1]_vars

\* A client that has a request pending ends up with keys, although earlier
\* requests and their answers are still around.
HandshakeCompletes == \A c \in Clients : Pending(c) ~> ~Pending(c)

\* "TTA verifies signature, checks CRL, then" answers: no session is made for a
\* client whose certificate is revoked.
NoSessionForRevoked ==
  [][\A s \in sessions' \ sessions : s.id \notin revoked]_vars
=============================================================================
