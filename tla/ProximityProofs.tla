--------------------------- MODULE ProximityProofs ---------------------------
(***************************************************************************)
(* Proofs, for any number of devices, any identities, trust stores and     *)
(* bounds, over either transport, that proximity encounters are typed,     *)
(* that IInv is inductive, and of the properties it implies.               *)
(***************************************************************************)
EXTENDS ProximityProps, FiniteSetTheorems, TLAPS

(***************************************************************************)
(* The terms                                                               *)
(***************************************************************************)

\* Two long-term keys, computed at different devices, are equal only if each
\* side used the other's own key: that is what a verified MAC proves.
LEMMA LongTermKeyAgreement ==
  ASSUME NEW s, NEW t, NEW k, NEW p, NEW h, s # t,
         compute_long_term_key(s, t, k) = compute_long_term_key(t, p, h)
  PROVE  p = s /\ h = Identity[s] /\ k = Identity[t]
<1>1. {<<s, Identity[s]>>, <<t, k>>} = {<<t, Identity[t]>>, <<p, h>>}
  BY Zenon DEF compute_long_term_key, derive_shared_secret
<1>2. <<s, Identity[s]>> \in {<<t, Identity[t]>>, <<p, h>>}
  BY <1>1, Zenon
<1>3. <<t, Identity[t]>> \in {<<s, Identity[s]>>, <<t, k>>}
  BY <1>1, Zenon
<1>4. p = s /\ h = Identity[s]
  BY <1>2
<1>5. k = Identity[t]
  BY <1>3
<1> QED BY <1>4, <1>5

LEMMA LongTermKeyType ==
  ASSUME NEW d \in Devices, NEW p \in Devices, NEW k \in Generation
  PROVE  compute_long_term_key(d, p, k) \in LongTermKey
BY DEF compute_long_term_key, derive_shared_secret, LongTermKey, Generation

LEMMA SessionKeyType ==
  ASSUME NEW e1 \in Ephemeral, NEW e2 \in Ephemeral, NEW ct \in CiphertextType
  PROVE  combine_secrets(derive_shared_secret(e1, e2), decapsulate(e1, ct)) \in SessionKey
BY DEF combine_secrets, derive_shared_secret, decapsulate, SessionKey

LEMMA SharedKeyType ==
  ASSUME NEW e1 \in Ephemeral, NEW e2 \in Ephemeral
  PROVE  /\ SharedKey(e1, e2) \in SessionKey
         /\ SharedKey(e1, e2) = combine_secrets(derive_shared_secret(e2, e1),
                                                encapsulate(e1, e2).pq_secret)
         /\ SharedKey(e1, e2).pq.keypair = e1
         /\ SharedKey(e1, e2).pq.ciphertext.rand = e2
         /\ encapsulate(e1, e2).kem_ciphertext \in CiphertextType
         /\ encapsulate(e1, e2).kem_ciphertext.to = e1
         /\ encapsulate(e1, e2).kem_ciphertext.rand = e2
BY DEF SharedKey, combine_secrets, derive_shared_secret, decapsulate, encapsulate,
       Ciphertext, CiphertextType, SessionKey

LEMMA InitiateType ==
  ASSUME NEW d \in Devices, NEW e \in Ephemeral, NEW ltk \in LongTermKey
  PROVE  InitiateMessage(d, e, ltk) \in Body
BY DEF InitiateMessage, hmac, Body

LEMMA ResponseType ==
  ASSUME NEW d \in Devices, NEW e \in Ephemeral, NEW ct \in CiphertextType,
         NEW ltk \in LongTermKey
  PROVE  ResponseMessage(d, e, ct, ltk) \in Body
BY DEF ResponseMessage, hmac, Body

LEMMA TokenType ==
  ASSUME NEW d \in Devices, NEW key \in SessionKey
  PROVE  TokenMessage(d, key) \in Body
BY DEF TokenMessage, encrypt, Body

\* The parts of a message that parsing hands out.
LEMMA BodyParts ==
  ASSUME NEW body \in Body
  PROVE  /\ body.type \in {"INITIATE", "RESPONSE", "TOKEN", "GARBAGE"}
         /\ body.type \in {"INITIATE", "RESPONSE"} =>
              body.device_id \in Devices /\ body.ephemeral \in Ephemeral
         /\ body.type = "RESPONSE" => body.kem_ciphertext \in CiphertextType
         /\ body.type = "TOKEN" =>
              body.token.key \in SessionKey /\ body.token.plaintext \in Devices
BY DEF Body, Garbage

LEMMA CallParts ==
  ASSUME NEW p \in Devices
  PROVE  /\ NoCall \in Call
         /\ \A k \in LongTermKey, e \in Ephemeral :
              [peer |-> p, long_term_key |-> k, ephemeral |-> e] \in Call
         /\ \A k \in SessionKey : [peer |-> p, session_key |-> k] \in Call
BY DEF Call

(***************************************************************************)
(* Type correctness                                                        *)
(***************************************************************************)
LEMMA InitTypeOK == Init => TypeOK
<1> SUFFICES ASSUME Init PROVE TypeOK
  OBVIOUS
<1>1. trust \in [Devices -> [Devices -> Generation]]
  BY Trust0Type DEF Init, Generation
<1>2. call \in [Devices -> Call]
  BY DEF Init, Call
<1>3. inbox \in [Devices -> Seq(Letter)]
  BY DEF Init
<1> QED
  BY <1>1, <1>2, <1>3, BoundsType, TransportsType DEF Init, TypeOK, Waiting, Ended, Verdict

\* The message of a send, for the present run of the peer or for any.
Copies(d, p, body) == {Frame(d, p, run[p], body), Frame(d, p, AnyPort, body)}

\* What a send changes has the right type.
LEMMA SendType ==
  ASSUME TypeOK, NEW d \in Devices, NEW p \in Devices, NEW body \in Body,
         NEW to \in Waiting, NEW locals \in Call,
         InitiatorSend(d, p, body, to, locals) \/ ResponderSend(d, p, body, to, locals)
  PROVE  /\ net' \subseteq FrameType
         /\ pc' \in [Devices -> Waiting \cup Ended]
         /\ call' \in [Devices -> Call]
         /\ verdict' \in [Devices -> [Devices -> Verdict]]
<1>1. Copies(d, p, body) \subseteq FrameType
  BY BoundsType DEF TypeOK, Copies, Frame, FrameType, AnyPort
<1>2. net' \subseteq FrameType
  BY <1>1 DEF TypeOK, Copies, InitiatorSend, ResponderSend, SendOk, SendTimesOut, SendRefused,
              SendUnknown
<1>3. \/ GoOn(d, to, locals)
      \/ Conclude(d, p, "TIMEOUT")
      \/ End(d, "refused") \/ End(d, "gave_up") \/ End(d, "unknown_peer")
  BY DEF InitiatorSend, ResponderSend
<1>4. NoCall \in Call
  BY DEF Call
<1>5. CASE GoOn(d, to, locals)
  BY <1>2, <1>5 DEF GoOn, TypeOK
<1>6. CASE Conclude(d, p, "TIMEOUT")
  BY <1>2, <1>4, <1>6 DEF Conclude, TypeOK, Waiting, Verdict
<1>7. CASE End(d, "refused") \/ End(d, "gave_up") \/ End(d, "unknown_peer")
  BY <1>2, <1>4, <1>7 DEF End, TypeOK, Ended
<1> QED BY <1>3, <1>5, <1>6, <1>7

\* What a receive returns and leaves in the inbox.
LEMMA MailType ==
  ASSUME TypeOK, NEW d \in Devices, HasMail(d)
  PROVE  /\ Mail(d) \in Body
         /\ TakeMail(d) => inbox' \in [Devices -> Seq(Letter)]
<1>1. inbox[d] \in Seq(Letter) /\ inbox[d] # <<>>
  BY DEF TypeOK, HasMail
<1>2. Head(inbox[d]) \in Letter /\ Tail(inbox[d]) \in Seq(Letter)
  BY <1>1
<1>3. Mail(d) \in Body
  BY <1>2 DEF Mail, Letter
<1>4. ASSUME TakeMail(d) PROVE inbox' \in [Devices -> Seq(Letter)]
  <2> HIDE DEF Letter
  <2> QED BY <1>2, <1>4 DEF TypeOK, TakeMail
<1> QED BY <1>3, <1>4

LEMMA ReceiptType ==
  ASSUME TypeOK, NEW d \in Devices, NEW p \in Devices, NEW body \in Body,
         body.type = "TOKEN", ReceiveToken(d, p, body)
  PROVE  received' \subseteq Receipt
<1> DEFINE e == [by |-> d, with |-> p, key |-> body.token.key, token |-> body.token.plaintext]
<1>1. body.token.key \in SessionKey /\ body.token.plaintext \in Devices
  BY BodyParts
<1>2. e \in Receipt
  BY <1>1 DEF Receipt
<1>3. received' = received \cup {e}
  BY DEF ReceiveToken
<1> HIDE DEF e
<1> QED BY <1>2, <1>3 DEF TypeOK

LEMMA NextTypeOK == TypeOK /\ CallTyped /\ [Next]_vars => TypeOK'
<1> SUFFICES ASSUME TypeOK, CallTyped, [Next]_vars PROVE TypeOK'
  OBVIOUS
<1> USE BoundsType
<1>0. NoCall \in Call
  BY DEF Call
<1>1. ASSUME NEW d \in Devices, Launch(d) PROVE TypeOK'
  BY <1>0, <1>1 DEF TypeOK, Launch, Up, Waiting, Ended, Verdict
<1>2. ASSUME NEW d \in Devices, Kill(d) PROVE TypeOK'
  BY <1>0, <1>2 DEF TypeOK, Kill, End, Ended
<1>3. ASSUME NEW d \in Devices, NEW p \in Devices, AddService(d, p) PROVE TypeOK'
  BY <1>3 DEF TypeOK, AddService, process
<1>4. ASSUME NEW d \in Devices, NEW p \in Devices, SavePeer(d, p) PROVE TypeOK'
  BY <1>4, IdentityType DEF TypeOK, SavePeer, process, Generation
<1>5. ASSUME NEW f \in net, Deliver(f) PROVE TypeOK'
  <2>1. f.to \in Devices /\ [sender |-> f.sender, body |-> f.body] \in Letter
    BY DEF TypeOK, FrameType, Letter
  <2>2. inbox' \in [Devices -> Seq(Letter)]
    BY <1>5, <2>1 DEF TypeOK, Deliver
  <2> QED BY <1>5, <2>2 DEF TypeOK, Deliver, process
<1>20. ASSUME NEW f \in net, NEW g \in net, Garble(f, g) PROVE TypeOK'
  <2>1. Garbage \in Body
    BY DEF Body
  <2>2. Frame(f.sender, f.to, f.port, Garbage) \in FrameType
    BY <2>1 DEF TypeOK, FrameType, Frame
  <2>3. net' \subseteq FrameType
    BY <1>20, <2>2 DEF TypeOK, Garble
  <2> QED BY <1>20, <2>3 DEF TypeOK, Garble, process
<1>21. ASSUME NEW i \in Initiators, DiscoverFails(i) PROVE TypeOK'
  BY <1>0, <1>21 DEF Devices, TypeOK, DiscoverFails, End, Ended
<1>6. ASSUME NEW i \in Initiators, Discover(i) PROVE TypeOK'
  <2>1. i \in Devices
    BY DEF Devices
  <2>2. /\ addr' \in [Devices -> [Devices -> 0..MaxRuns]]
        /\ todo' \in [Devices -> SUBSET Devices]
    <3>1. CASE transport = "wifi"
      BY <1>6, <2>1, <3>1 DEF TypeOK, Discover
    <3>2. CASE transport = "ble"
      <4>1. PICK found \in SUBSET {p \in Devices \ {i} : Up(p)} :
              /\ addr' = [addr EXCEPT ![i] = [p \in Devices |->
                                                IF p \in found THEN run[p] ELSE addr[i][p]]]
              /\ todo' = [todo EXCEPT ![i] = found]
        BY <1>6, <3>2 DEF Discover
      <4>2. [p \in Devices |-> IF p \in found THEN run[p] ELSE addr[i][p]]
              \in [Devices -> 0..MaxRuns]
        BY <2>1 DEF TypeOK
      <4> QED BY <2>1, <4>1, <4>2 DEF TypeOK
    <3> QED BY <3>1, <3>2 DEF TypeOK
  <2> QED BY <1>6, <2>1, <2>2 DEF TypeOK, Discover, Waiting
<1>7. ASSUME NEW i \in Initiators, NEW p \in Devices, SkipUnpaired(i, p) PROVE TypeOK'
  BY <1>0, <1>7 DEF Devices, TypeOK, SkipUnpaired, Conclude, Waiting, Verdict
<1>8. ASSUME NEW i \in Initiators, NEW p \in Devices, StartEncounter(i, p) PROVE TypeOK'
  <2> DEFINE ltk == compute_long_term_key(i, p, trust[i][p])
             eph == <<i, gen[i] + 1>>
             locals == [peer |-> p, long_term_key |-> ltk, ephemeral |-> eph]
  <2>1. i \in Devices
    BY DEF Devices
  <2>2. eph \in Ephemeral /\ gen' \in [Devices -> 0..MaxEphemerals]
    BY <1>8, <2>1 DEF TypeOK, StartEncounter, Ephemeral
  <2>3. ltk \in LongTermKey
    BY <2>1, LongTermKeyType DEF TypeOK
  <2>4. InitiatorSend(i, p, InitiateMessage(i, eph, ltk), "await_response", locals)
    BY <1>8 DEF StartEncounter, NewEphemeral
  <2>5. locals \in Call /\ InitiateMessage(i, eph, ltk) \in Body
    BY <2>1, <2>2, <2>3, CallParts, InitiateType
  <2>6. "await_response" \in Waiting
    BY DEF Waiting
  <2> HIDE DEF ltk, eph, locals
  <2>7. /\ net' \subseteq FrameType
        /\ pc' \in [Devices -> Waiting \cup Ended]
        /\ call' \in [Devices -> Call]
        /\ verdict' \in [Devices -> [Devices -> Verdict]]
    BY <2>1, <2>4, <2>5, <2>6, SendType
  <2> QED BY <1>8, <2>1, <2>2, <2>7 DEF TypeOK, StartEncounter
<1>9. ASSUME NEW i \in Initiators, HandleResponse(i) PROVE TypeOK'
  <2> DEFINE body == Mail(i)
             key == combine_secrets(derive_shared_secret(call[i].ephemeral, body.ephemeral),
                                    decapsulate(call[i].ephemeral, body.kem_ciphertext))
             p == call[i].peer
             locals == [peer |-> p, session_key |-> key]
  <2>1. i \in Devices
    BY DEF Devices
  <2>2. /\ body \in Body /\ body.type = "RESPONSE"
        /\ inbox' \in [Devices -> Seq(Letter)]
    BY <1>9, <2>1, MailType DEF HandleResponse, VerifiesResponse
  <2>3. p \in Devices /\ call[i].ephemeral \in Ephemeral
    BY <1>9, <2>1 DEF HandleResponse, CallTyped, CallTypedAt
  <2>4. key \in SessionKey
    BY <2>2, <2>3, BodyParts, SessionKeyType
  <2>5. /\ DeriveSession(i, p, key)
        /\ InitiatorSend(i, p, TokenMessage(i, key), "await_token", locals)
    BY <1>9 DEF HandleResponse
  <2> HIDE DEF body, key, p
  <2>6. locals \in Call /\ TokenMessage(i, key) \in Body /\ "await_token" \in Waiting
    BY <2>1, <2>3, <2>4, CallParts, TokenType DEF Waiting
  <2> HIDE DEF locals
  <2>7. /\ net' \subseteq FrameType
        /\ pc' \in [Devices -> Waiting \cup Ended]
        /\ call' \in [Devices -> Call]
        /\ verdict' \in [Devices -> [Devices -> Verdict]]
    BY <2>1, <2>3, <2>5, <2>6, SendType
  <2>8. sessions' \subseteq Session
    BY <2>1, <2>3, <2>4, <2>5 DEF DeriveSession, TypeOK, Session
  <2> QED BY <1>9, <2>2, <2>7, <2>8 DEF TypeOK, HandleResponse
<1>10. ASSUME NEW i \in Initiators, RejectResponse(i) PROVE TypeOK'
  <2>1. i \in Devices
    BY DEF Devices
  <2>2. inbox' \in [Devices -> Seq(Letter)]
    BY <1>10, <2>1, MailType DEF RejectResponse
  <2>3. call[i].peer \in Devices
    BY <1>10, <2>1 DEF RejectResponse, CallTyped, CallTypedAt
  <2>4. CASE Conclude(i, call[i].peer, "REJECTED")
    BY <1>0, <1>10, <2>1, <2>2, <2>3, <2>4
       DEF TypeOK, RejectResponse, Conclude, Waiting, Verdict
  <2>5. CASE End(i, "bad_bytes")
    BY <1>0, <1>10, <2>1, <2>2, <2>5 DEF TypeOK, RejectResponse, End, Ended
  <2> QED BY <1>10, <2>4, <2>5 DEF RejectResponse
<1>11. ASSUME NEW i \in Initiators, HandleToken(i) PROVE TypeOK'
  <2>1. i \in Devices
    BY DEF Devices
  <2>2. /\ Mail(i) \in Body
        /\ inbox' \in [Devices -> Seq(Letter)]
    BY <1>11, <2>1, MailType DEF HandleToken
  <2>3. call[i].peer \in Devices
    BY <1>11, <2>1 DEF HandleToken, CallTyped, CallTypedAt
  <2>4. received' \subseteq Receipt
    BY <1>11, <2>1, <2>2, <2>3, ReceiptType DEF HandleToken, TokenOpens, TypeOK
  <2>5. CASE Conclude(i, call[i].peer, "ACCEPTED")
    BY <1>0, <1>11, <2>1, <2>2, <2>3, <2>4, <2>5
       DEF TypeOK, HandleToken, Conclude, Waiting, Verdict
  <2>6. CASE End(i, "bad_bytes")
    BY <1>0, <1>11, <2>1, <2>2, <2>4, <2>6 DEF TypeOK, HandleToken, End, Ended
  <2> QED BY <1>11, <2>5, <2>6 DEF HandleToken
<1>12. ASSUME NEW i \in Initiators, ReceiveTimeout(i) PROVE TypeOK'
  <2>1. i \in Devices /\ call[i].peer \in Devices
    BY <1>12 DEF ReceiveTimeout, CallTyped, CallTypedAt, Devices
  <2> QED BY <1>0, <1>12, <2>1 DEF TypeOK, ReceiveTimeout, Conclude, Waiting, Verdict
<1>13. ASSUME NEW i \in Initiators, Finish(i) PROVE TypeOK'
  BY <1>0, <1>13 DEF Devices, TypeOK, Finish, End, Ended
<1>14. ASSUME NEW r \in Responders, RespondInitiate(r) PROVE TypeOK'
  <2> DEFINE body == Mail(r)
             p == body.device_id
             ltk == compute_long_term_key(r, p, trust[r][p])
             eph == <<r, gen[r] + 1>>
             kem == encapsulate(body.ephemeral, eph)
             key == combine_secrets(derive_shared_secret(eph, body.ephemeral), kem.pq_secret)
             response == ResponseMessage(r, eph, kem.kem_ciphertext, ltk)
             locals == [peer |-> p, session_key |-> key]
  <2>1. r \in Devices
    BY DEF Devices
  <2>2. /\ body \in Body /\ body.type \in {"INITIATE", "RESPONSE"}
        /\ inbox' \in [Devices -> Seq(Letter)]
    BY <1>14, <2>1, MailType DEF RespondInitiate, Authentic
  <2>3. p \in Devices /\ body.ephemeral \in Ephemeral
    BY <2>2, BodyParts
  <2>4. eph \in Ephemeral /\ gen' \in [Devices -> 0..MaxEphemerals]
    BY <1>14, <2>1 DEF TypeOK, RespondInitiate, Ephemeral
  <2>5. ltk \in LongTermKey
    BY <2>1, <2>3, LongTermKeyType DEF TypeOK
  <2>6. /\ DeriveSession(r, p, key)
        /\ ResponderSend(r, p, response, "await_token", locals)
    BY <1>14 DEF RespondInitiate, NewEphemeral
  <2> HIDE DEF body, p, ltk, eph
  <2>7. key \in SessionKey /\ kem.kem_ciphertext \in CiphertextType
    BY <2>3, <2>4, SharedKeyType
  <2> HIDE DEF kem, key
  <2>8. response \in Body /\ locals \in Call /\ "await_token" \in Waiting
    BY <2>1, <2>3, <2>4, <2>5, <2>7, CallParts, ResponseType DEF Waiting
  <2> HIDE DEF response, locals
  <2>9. /\ net' \subseteq FrameType
        /\ pc' \in [Devices -> Waiting \cup Ended]
        /\ call' \in [Devices -> Call]
        /\ verdict' \in [Devices -> [Devices -> Verdict]]
    BY <2>1, <2>3, <2>6, <2>8, SendType
  <2>10. sessions' \subseteq Session
    BY <2>1, <2>3, <2>6, <2>7 DEF DeriveSession, TypeOK, Session
  <2> QED BY <1>14, <2>2, <2>4, <2>9, <2>10 DEF TypeOK, RespondInitiate
<1>15. ASSUME NEW r \in Responders, RejectInitiate(r) PROVE TypeOK'
  <2>1. r \in Devices
    BY DEF Devices
  <2>2. inbox' \in [Devices -> Seq(Letter)]
    BY <1>15, <2>1, MailType DEF RejectInitiate
  <2> QED BY <1>0, <1>15, <2>1, <2>2 DEF TypeOK, RejectInitiate, GoOn, End, Waiting, Ended
<1>16. ASSUME NEW r \in Responders, RespondToken(r) PROVE TypeOK'
  <2>1. r \in Devices
    BY DEF Devices
  <2>2. /\ Mail(r) \in Body
        /\ inbox' \in [Devices -> Seq(Letter)]
    BY <1>16, <2>1, MailType DEF RespondToken
  <2>3. call[r].peer \in Devices /\ call[r].session_key \in SessionKey
    BY <1>16, <2>1 DEF RespondToken, CallTyped, CallTypedAt
  <2>4. CASE /\ TokenOpens(Mail(r), call[r].session_key)
             /\ ReceiveToken(r, call[r].peer, Mail(r))
             /\ ResponderSend(r, call[r].peer, TokenMessage(r, call[r].session_key),
                              "await_initiate", NoCall)
    <3>1. received' \subseteq Receipt
      BY <2>1, <2>2, <2>3, <2>4, ReceiptType DEF TokenOpens
    <3>2. TokenMessage(r, call[r].session_key) \in Body /\ "await_initiate" \in Waiting
      BY <2>1, <2>3, TokenType DEF Waiting
    <3>3. /\ net' \subseteq FrameType
          /\ pc' \in [Devices -> Waiting \cup Ended]
          /\ call' \in [Devices -> Call]
          /\ verdict' \in [Devices -> [Devices -> Verdict]]
      BY <1>0, <2>1, <2>3, <2>4, <3>2, SendType
    <3> QED BY <1>16, <2>2, <3>1, <3>3 DEF TypeOK, RespondToken
  <2>5. CASE End(r, "bad_bytes") /\ UNCHANGED <<net, received>>
    BY <1>0, <1>16, <2>1, <2>2, <2>5 DEF TypeOK, RespondToken, End, Ended
  <2> QED BY <1>16, <2>4, <2>5 DEF RespondToken
<1>17. ASSUME NEW r \in Responders, Deadline(r) PROVE TypeOK'
  BY <1>0, <1>17 DEF Devices, TypeOK, Deadline, End, Ended
<1>18. ASSUME NEW r \in Responders, NegativeTimeout(r) PROVE TypeOK'
  BY <1>0, <1>18 DEF Devices, TypeOK, NegativeTimeout, End, Ended
<1>19. CASE UNCHANGED vars
  BY <1>19 DEF TypeOK, vars
<1> QED
  BY <1>1, <1>2, <1>3, <1>4, <1>5, <1>6, <1>7, <1>8, <1>9, <1>10, <1>11, <1>12,
     <1>13, <1>14, <1>15, <1>16, <1>17, <1>18, <1>19, <1>20, <1>21
     DEF Next, InitiatorStep, ResponderStep

(***************************************************************************)
(* What holds once holds for ever                                          *)
(***************************************************************************)
\* Records of current keys, ephemerals, sessions and receipts never go away.
Grows ==
  /\ \A s, t \in Devices : trust[s][t] = Identity[t] => trust'[s][t] = Identity[t]
  /\ \A d \in Devices : gen[d] <= gen'[d]
  /\ sessions \subseteq sessions'
  /\ received \subseteq received'

LEMMA NextGrows == TypeOK /\ [Next]_vars => Grows
<1> SUFFICES ASSUME TypeOK, [Next]_vars PROVE Grows
  OBVIOUS
<1>1. \A d \in Devices : gen[d] <= gen[d]
  BY BoundsType DEF TypeOK
<1>2. \A d \in Devices : gen[d] <= gen[d] + 1
  BY BoundsType DEF TypeOK
<1>3. ASSUME NEW d \in Devices, NEW p \in Devices, SavePeer(d, p) PROVE Grows
  BY <1>1, <1>3 DEF SavePeer, TypeOK, Grows
<1>4. ASSUME NEW i \in Initiators, NEW p \in Devices, StartEncounter(i, p) PROVE Grows
  BY <1>1, <1>2, <1>4 DEF StartEncounter, TypeOK, Grows
<1>5. ASSUME NEW i \in Initiators, HandleResponse(i) PROVE Grows
  BY <1>1, <1>5 DEF HandleResponse, DeriveSession, Grows
<1>6. ASSUME NEW i \in Initiators, HandleToken(i) PROVE Grows
  BY <1>1, <1>6 DEF HandleToken, ReceiveToken, Grows
<1>7. ASSUME NEW r \in Responders, RespondInitiate(r) PROVE Grows
  BY <1>1, <1>2, <1>7 DEF RespondInitiate, DeriveSession, TypeOK, Grows
<1>8. ASSUME NEW r \in Responders, RespondToken(r) PROVE Grows
  BY <1>1, <1>8 DEF RespondToken, ReceiveToken, Grows
<1>9. CASE UNCHANGED <<trust, gen, sessions, received>>
  BY <1>1, <1>9 DEF Grows
<1>10. \/ UNCHANGED <<trust, gen, sessions, received>>
       \/ \E d, p \in Devices : SavePeer(d, p)
       \/ \E i \in Initiators : \/ \E p \in Devices : StartEncounter(i, p)
                                \/ HandleResponse(i) \/ HandleToken(i)
       \/ \E r \in Responders : RespondInitiate(r) \/ RespondToken(r)
  BY DEF Next, vars, Launch, Kill, AddService, Deliver, Garble, InitiatorStep, ResponderStep,
         Discover, DiscoverFails, SkipUnpaired, RejectResponse, ReceiveTimeout, Finish,
         RejectInitiate, Deadline, NegativeTimeout
<1> QED BY <1>3, <1>4, <1>5, <1>6, <1>7, <1>8, <1>9, <1>10

LEMMA UsedGrows ==
  ASSUME TypeOK, TypeOK', Grows, NEW d \in Devices
  PROVE  Used(d) \subseteq Used(d)'
<1>1. gen[d] \in Nat /\ gen'[d] \in Nat /\ gen[d] <= gen'[d]
  BY BoundsType DEF TypeOK, Grows
<1> QED BY <1>1 DEF Used

LEMMA MutualTrustGrows ==
  ASSUME Grows, NEW s \in Devices, NEW t \in Devices, MutualTrust(s, t)
  PROVE  MutualTrust(s, t)'
BY DEF Grows, MutualTrust

LEMMA HonestGrows ==
  ASSUME TypeOK, TypeOK', Grows, NEW s \in Devices, NEW t \in Devices, NEW body \in Body,
         Honest(s, t, body)
  PROVE  Honest(s, t, body)'
<1>1. Used(s) \subseteq Used(s)' /\ Used(t) \subseteq Used(t)'
  BY UsedGrows
<1>2. MutualTrust(s, t) => MutualTrust(s, t)'
  BY MutualTrustGrows
<1>3. trust[s][t] = Identity[t] => trust'[s][t] = Identity[t]
  BY DEF Grows
<1>4. CASE body.type = "INITIATE"
  BY <1>1, <1>3, <1>4 DEF Honest
<1>5. CASE body.type = "RESPONSE"
  BY <1>1, <1>2, <1>5 DEF Honest
<1>6. CASE body.type = "TOKEN"
  BY <1>2, <1>6 DEF Honest, Grows
<1>7. CASE body.type = "GARBAGE"
  BY <1>7 DEF Honest
<1> QED BY <1>4, <1>5, <1>6, <1>7, BodyParts

LEMMA SessionGrows ==
  ASSUME TypeOK, TypeOK', Grows, NEW x \in Session, SessionGenuine(x)
  PROVE  SessionGenuine(x)'
<1>1. x.by \in Devices /\ x.with \in Devices
  BY DEF Session
<1>2. Used(x.by) \subseteq Used(x.by)' /\ Used(x.with) \subseteq Used(x.with)'
  BY <1>1, UsedGrows
<1>3. MutualTrust(x.by, x.with)'
  BY <1>1, MutualTrustGrows DEF SessionGenuine
<1> QED BY <1>2, <1>3 DEF SessionGenuine

\* Where the letters of the next inboxes come from.
OldMail == \A d \in Devices : \A j \in 1..Len(inbox'[d]) :
             \E k \in 1..Len(inbox[d]) : inbox'[d][j] = inbox[d][k]

SoundMail == \A d \in Devices : \A j \in 1..Len(inbox'[d]) :
               \/ \E k \in 1..Len(inbox[d]) : inbox'[d][j] = inbox[d][k]
               \/ Honest(inbox[d][j].sender, d, inbox[d][j].body)'

\* Messages in flight and in inboxes stay honest if the new ones are.
LEMMA MessagesStayHonest ==
  ASSUME TypeOK, TypeOK', Grows, MessagesHonest,
         \A f \in net' : f \in net \/ Honest(f.sender, f.to, f.body)',
         SoundMail
  PROVE  MessagesHonest'
<1>1. ASSUME NEW f \in net' PROVE Honest(f.sender, f.to, f.body)'
  <2>1. CASE f \in net
    <3>1. f.sender \in Devices /\ f.to \in Devices /\ f.body \in Body
      BY <2>1 DEF TypeOK, FrameType
    <3>2. Honest(f.sender, f.to, f.body)
      BY <2>1 DEF MessagesHonest
    <3> QED BY <3>1, <3>2, HonestGrows
  <2> QED BY <2>1
<1>2. ASSUME NEW d \in Devices, NEW j \in 1..Len(inbox'[d])
      PROVE  Honest(inbox[d][j].sender, d, inbox[d][j].body)'
  <2>1. ASSUME NEW k \in 1..Len(inbox[d]), inbox'[d][j] = inbox[d][k]
        PROVE  Honest(inbox[d][j].sender, d, inbox[d][j].body)'
    <3> DEFINE m == inbox[d][k]
    <3>1. m \in Letter
      BY DEF TypeOK
    <3>2. m.sender \in Devices /\ m.body \in Body
      BY <3>1 DEF Letter
    <3>3. Honest(m.sender, d, m.body)
      BY DEF MessagesHonest
    <3>4. \A s, b : s = m.sender /\ b = m.body => Honest(s, d, b)'
      <4> SUFFICES ASSUME NEW s, NEW b, s = m.sender, b = m.body
                   PROVE  Honest(s, d, b)'
        OBVIOUS
      <4> QED BY <3>2, <3>3, HonestGrows
    <3> QED BY <2>1, <3>4 DEF Honest
  <2> QED BY <2>1 DEF SoundMail
<1> QED BY <1>1, <1>2 DEF MessagesHonest

LEMMA OldMailKept ==
  ASSUME TypeOK, NEW d \in Devices,
         \/ UNCHANGED inbox
         \/ inbox' = [inbox EXCEPT ![d] = <<>>]
         \/ HasMail(d) /\ TakeMail(d)
  PROVE  OldMail
<1>1. CASE UNCHANGED inbox
  BY <1>1 DEF OldMail
<1>2. CASE inbox' = [inbox EXCEPT ![d] = <<>>]
  BY <1>2 DEF OldMail, TypeOK
<1>3. CASE HasMail(d) /\ TakeMail(d)
  <2> SUFFICES ASSUME NEW e \in Devices, NEW j \in 1..Len(inbox'[e])
               PROVE  \E k \in 1..Len(inbox[e]) : inbox'[e][j] = inbox[e][k]
    BY DEF OldMail
  <2>1. CASE e # d
    BY <1>3, <2>1 DEF TypeOK, TakeMail
  <2>2. CASE e = d
    <3>1. inbox[d] \in Seq(Letter) /\ inbox[d] # <<>> /\ inbox'[d] = Tail(inbox[d])
      BY <1>3 DEF TypeOK, TakeMail, HasMail
    <3>2. j + 1 \in 1..Len(inbox[d]) /\ Tail(inbox[d])[j] = inbox[d][j + 1]
      BY <2>2, <3>1
    <3> QED BY <2>2, <3>1, <3>2
  <2> QED BY <2>1, <2>2
<1> QED BY <1>1, <1>2, <1>3

LEMMA MailHonest ==
  ASSUME TypeOK, MessagesHonest, NEW d \in Devices, HasMail(d)
  PROVE  /\ Head(inbox[d]).sender \in Devices
         /\ Honest(Head(inbox[d]).sender, d, Mail(d))
<1>1. inbox[d] \in Seq(Letter) /\ inbox[d] # <<>>
  BY DEF TypeOK, HasMail
<1>2. 1 \in 1..Len(inbox[d]) /\ Head(inbox[d]) = inbox[d][1] /\ Head(inbox[d]) \in Letter
  BY <1>1
<1>3. Honest(inbox[d][1].sender, d, inbox[d][1].body)
  BY <1>2 DEF MessagesHonest
<1> QED BY <1>2, <1>3 DEF Mail, Letter

(***************************************************************************)
(* One step, whichever it is                                               *)
(***************************************************************************)
Agreed(e) ==
  /\ [by |-> e.by, with |-> e.with, key |-> e.key] \in sessions
  /\ e.token = e.with
  /\ e.by \in Responders => [by |-> e.with, with |-> e.by, key |-> e.key] \in sessions
  /\ e.by \in Initiators =>
       [by |-> e.with, with |-> e.by, key |-> e.key, token |-> e.by] \in received

LEMMA ReceiptsAgreed ==
  ASSUME TypeOK
  PROVE  ReceiptsGenuine /\ ResponderAgreement /\ InitiatorAgreement
           <=> \A e \in received : Agreed(e)
BY DEF TypeOK, Receipt, Devices, ReceiptsGenuine, ResponderAgreement, InitiatorAgreement, Agreed

\* The invariant is preserved by a step of the process of `a` if what the step
\* adds is as the invariant says and the process ends up where it says.
LEMMA StepIInv ==
  ASSUME IInv, TypeOK', Grows, NEW a \in Devices,
         \A f \in net' : f \in net \/ Honest(f.sender, f.to, f.body)',
         SoundMail,
         \A x \in sessions' \ sessions : x.by = a /\ SessionGenuine(x)',
         \A e \in received' \ received : e.by = a /\ Agreed(e)',
         \A d \in Devices \ {a} : pc'[d] = pc[d] /\ call'[d] = call[d],
         CallTypedAt(a)', CallGenuine(a)'
  PROVE  IInv'
<1> USE DEF IInv
<1>1. MessagesHonest'
  BY MessagesStayHonest
<1>2. SessionsGenuine'
  <2>1. ASSUME NEW x \in sessions' PROVE SessionGenuine(x)'
    <3>1. CASE x \in sessions
      <4>1. x \in Session /\ SessionGenuine(x)
        BY <3>1 DEF TypeOK, SessionsGenuine
      <4> QED BY <4>1, SessionGrows
    <3> QED BY <2>1, <3>1
  <2> QED BY <2>1 DEF SessionsGenuine
<1>3. ASSUME NEW e \in received' PROVE Agreed(e)'
  <2>1. CASE e \in received
    <3>1. Agreed(e)
      BY <2>1, ReceiptsAgreed
    <3> QED BY <3>1 DEF Agreed, Grows
  <2> QED BY <1>3, <2>1
<1>4. ReceiptsGenuine' /\ ResponderAgreement' /\ InitiatorAgreement'
  BY <1>3 DEF ReceiptsGenuine, ResponderAgreement, InitiatorAgreement, Agreed
<1>5. ASSUME NEW d \in Devices PROVE CallTypedAt(d)' /\ CallGenuine(d)'
  <2>1. CASE d # a
    <3>1. pc'[d] = pc[d] /\ call'[d] = call[d] /\ CallTypedAt(d) /\ CallGenuine(d)
      BY <2>1 DEF CallTyped, CallsGenuine
    <3>2. Used(d) \subseteq Used(d)'
      BY UsedGrows
    <3>3. \A x \in sessions' : x.by = d => x \in sessions
      BY <2>1
    <3>4. \A e \in received' : e.by = d => e \in received
      BY <2>1
    <3>5. CallTypedAt(d)'
      BY <3>1 DEF CallTypedAt
    <3>6. CallGenuine(d)'
      BY <3>1, <3>2, <3>3, <3>4 DEF CallGenuine, Grows
    <3> QED BY <3>5, <3>6
  <2> QED BY <2>1
<1>6. CallTyped' /\ CallsGenuine'
  BY <1>5 DEF CallTyped, CallsGenuine
<1> QED BY <1>1, <1>2, <1>4, <1>6

\* A step that sends, derives and decrypts nothing.
LEMMA QuietStepIInv ==
  ASSUME IInv, TypeOK', Grows, NEW a \in Devices,
         net' \subseteq net, OldMail, UNCHANGED <<sessions, received>>,
         \A d \in Devices \ {a} : pc'[d] = pc[d] /\ call'[d] = call[d],
         pc'[a] \notin {"await_response", "await_token"},
         pc'[a] \in {"discover", "visit"} => a \in Initiators,
         pc'[a] = "await_initiate" => a \in Responders
  PROVE  IInv'
<1>1. CallTypedAt(a)' /\ CallGenuine(a)'
  BY DEF CallTypedAt, CallGenuine
<1>2. SoundMail
  BY DEF OldMail, SoundMail
<1> QED BY <1>1, <1>2, StepIInv

\* A step that leaves every process where it is.
LEMMA IdleStepIInv ==
  ASSUME IInv, TypeOK', Grows, NEW a \in Devices,
         \A f \in net' : f \in net \/ Honest(f.sender, f.to, f.body)',
         SoundMail, UNCHANGED <<pc, call, gen, sessions, received>>
  PROVE  IInv'
<1>1. CallTypedAt(a) /\ CallGenuine(a)
  BY DEF IInv, CallTyped, CallsGenuine
<1>2. CallTypedAt(a)' /\ CallGenuine(a)'
  BY <1>1 DEF CallTypedAt, CallGenuine, Used
<1> QED BY <1>2, StepIInv

\* Where a send may leave the process and what it may add to the network.
LEMMA SendEffect ==
  ASSUME TypeOK, NEW d \in Devices, NEW p, NEW body, NEW to, NEW locals,
         InitiatorSend(d, p, body, to, locals) \/ ResponderSend(d, p, body, to, locals)
  PROVE  /\ net' \subseteq net \cup Copies(d, p, body)
         /\ \A e \in Devices \ {d} : pc'[e] = pc[e] /\ call'[e] = call[e]
         /\ \/ pc'[d] = to /\ call'[d] = locals
            \/ pc'[d] = "visit" /\ InitiatorSend(d, p, body, to, locals)
            \/ pc'[d] \in Ended
<1>1. net' \subseteq net \cup Copies(d, p, body)
  BY DEF Copies, InitiatorSend, ResponderSend, SendOk, SendTimesOut, SendRefused, SendUnknown
<1>2. \/ GoOn(d, to, locals)
      \/ Conclude(d, p, "TIMEOUT") /\ InitiatorSend(d, p, body, to, locals)
      \/ End(d, "refused") \/ End(d, "gave_up") \/ End(d, "unknown_peer")
  BY DEF InitiatorSend, ResponderSend
<1>3. \A e \in Devices \ {d} : pc'[e] = pc[e] /\ call'[e] = call[e]
  BY <1>2 DEF TypeOK, GoOn, Conclude, End
<1>4. \/ pc'[d] = to /\ call'[d] = locals
      \/ pc'[d] = "visit" /\ InitiatorSend(d, p, body, to, locals)
      \/ pc'[d] \in Ended
  BY <1>2 DEF TypeOK, GoOn, Conclude, End, Ended
<1> QED BY <1>1, <1>3, <1>4

\* A process that does not wait for a message has no locals to speak of.
LEMMA NotWaiting ==
  ASSUME NEW d \in Devices,
         \/ pc'[d] \in Ended
         \/ pc'[d] \in {"discover", "visit"} /\ d \in Initiators
         \/ pc'[d] = "await_initiate" /\ d \in Responders
  PROVE  CallTypedAt(d)' /\ CallGenuine(d)'
BY DEF CallTypedAt, CallGenuine, Ended

(***************************************************************************)
(* The steps of an encounter                                               *)
(***************************************************************************)
LEMMA StartEncounterIInv ==
  ASSUME IInv, TypeOK', Grows, NEW i \in Initiators, NEW p \in Devices, StartEncounter(i, p)
  PROVE  IInv'
<1> DEFINE ltk == compute_long_term_key(i, p, trust[i][p])
           eph == <<i, gen[i] + 1>>
           body == InitiateMessage(i, eph, ltk)
           locals == [peer |-> p, long_term_key |-> ltk, ephemeral |-> eph]
<1>1. i \in Devices /\ TypeOK
  BY DEF Devices, IInv
<1>2. InitiatorSend(i, p, body, "await_response", locals)
  BY DEF StartEncounter, NewEphemeral
<1>3. UNCHANGED <<trust, sessions, received, inbox>> /\ gen'[i] = gen[i] + 1
  BY <1>1 DEF StartEncounter, TypeOK
<1>4. gen[i] \in Nat /\ gen[i] + 1 \in 1..MaxEphemerals
  BY <1>1, BoundsType DEF StartEncounter, TypeOK
<1>5. eph \in Used(i)' /\ eph \in Ephemeral
  BY <1>1, <1>3, <1>4 DEF Used, Ephemeral
<1>6. trust[i][p] \in Generation /\ ltk \in LongTermKey
  BY <1>1, LongTermKeyType DEF TypeOK
<1>7. /\ body.type = "INITIATE" /\ body.device_id = i /\ body.ephemeral = eph
      /\ body.mac.key = ltk
  BY DEF InitiateMessage, hmac
<1> HIDE DEF body, eph
<1>8. ASSUME NEW m, m = body PROVE Honest(i, p, m)'
  <2>1. \E k \in Generation : /\ m.mac.key = compute_long_term_key(i, p, k)
                              /\ k = Identity[p] => trust'[i][p] = Identity[p]
    BY <1>3, <1>6, <1>7, <1>8
  <2> QED BY <1>5, <1>7, <1>8, <2>1 DEF Honest
<1> HIDE DEF ltk
<1>9. \A f \in net' : f \in net \/ Honest(f.sender, f.to, f.body)'
  <2>1. ASSUME NEW f, f \in Copies(i, p, body) PROVE Honest(f.sender, f.to, f.body)'
    <3>1. f.sender = i /\ f.to = p /\ f.body = body
      BY <2>1 DEF Copies, Frame
    <3> QED BY <1>8, <3>1
  <2> QED BY <1>1, <1>2, <2>1, SendEffect
<1>10. CallTypedAt(i)' /\ CallGenuine(i)'
  <2>1. CASE pc'[i] = "await_response" /\ call'[i] = locals
    <3>1. CallTypedAt(i)'
      BY <1>5, <1>6, <2>1 DEF CallTypedAt
    <3>2. \A x \in sessions : x.by = i => x.key.pq.keypair # eph
      <4> SUFFICES ASSUME NEW x \in sessions, x.by = i
                   PROVE  x.key.pq.keypair # eph
        OBVIOUS
      <4>1. x.key.pq.keypair \in Used(i)
        BY RolesDisjoint DEF IInv, SessionsGenuine, SessionGenuine
      <4> QED BY <1>4, <4>1 DEF Used, eph
    <3>3. \E k \in Generation : ltk = compute_long_term_key(i, p, k)
      BY <1>6 DEF ltk
    <3>4. locals.ephemeral = eph /\ locals.long_term_key = ltk /\ locals.peer = p
      OBVIOUS
    <3> HIDE DEF locals
    <3>5. CallGenuine(i)'
      BY <1>3, <1>5, <2>1, <3>2, <3>3, <3>4 DEF CallGenuine
    <3> QED BY <3>1, <3>5
  <2>2. CASE pc'[i] = "visit" \/ pc'[i] \in Ended
    BY <1>1, <2>2, NotWaiting
  <2> QED BY <1>1, <1>2, <2>1, <2>2, SendEffect
<1>11. SoundMail
  BY <1>1, <1>3, OldMailKept DEF OldMail, SoundMail
<1>12. \A d \in Devices \ {i} : pc'[d] = pc[d] /\ call'[d] = call[d]
  BY <1>1, <1>2, SendEffect
<1> QED BY <1>1, <1>3, <1>9, <1>10, <1>11, <1>12, StepIInv

LEMMA HandleResponseIInv ==
  ASSUME IInv, TypeOK', Grows, NEW i \in Initiators, HandleResponse(i)
  PROVE  IInv'
<1>0. PICK msg, eph, p, s : /\ msg = Mail(i) /\ eph = call[i].ephemeral
                            /\ p = call[i].peer /\ s = Head(inbox[i]).sender
  OBVIOUS
<1> DEFINE key == combine_secrets(derive_shared_secret(eph, msg.ephemeral),
                                  decapsulate(eph, msg.kem_ciphertext))
           body == TokenMessage(i, key)
           locals == [peer |-> p, session_key |-> key]
           new == [by |-> i, with |-> p, key |-> key]
<1>1. i \in Devices /\ i \notin Responders /\ TypeOK
  BY RolesDisjoint DEF Devices, IInv
<1>2. /\ pc[i] = "await_response" /\ HasMail(i) /\ TakeMail(i)
      /\ UNCHANGED <<trust, gen, received>>
      /\ sessions' = sessions \cup {new}
      /\ InitiatorSend(i, p, body, "await_token", locals)
  BY <1>0 DEF HandleResponse, DeriveSession
<1>3. msg.type = "RESPONSE" /\ msg.mac.key = call[i].long_term_key
  BY <1>0 DEF HandleResponse, VerifiesResponse, hmac
<1>4. /\ p \in Devices /\ eph \in Ephemeral /\ eph \in Used(i)
      /\ \E k \in Generation : call[i].long_term_key = compute_long_term_key(i, p, k)
      /\ \A x \in sessions : x.by = i => x.key.pq.keypair # eph
  BY <1>0, <1>1, <1>2 DEF IInv, CallTyped, CallTypedAt, CallsGenuine, CallGenuine
<1>5. /\ msg \in Body /\ s \in Devices
      /\ s \in Responders /\ MutualTrust(s, i)
      /\ msg.mac.key = compute_long_term_key(s, i, Identity[i])
      /\ msg.kem_ciphertext.rand \in Used(s)
  <2>1. msg \in Body /\ s \in Devices /\ Honest(s, i, msg)
    BY <1>0, <1>1, <1>2, MailType, MailHonest DEF IInv
  <2> QED BY <1>3, <2>1 DEF Honest
\* The verified MAC says that the message comes from the peer.
<1>6. p = s
  <2>1. PICK k \in Generation : call[i].long_term_key = compute_long_term_key(i, p, k)
    BY <1>4
  <2>2. compute_long_term_key(s, i, Identity[i]) = compute_long_term_key(i, p, k) /\ s # i
    BY <1>1, <1>3, <1>5, <2>1
  <2> QED BY <2>2, LongTermKeyAgreement
<1>7. /\ key \in SessionKey
      /\ key.pq.keypair = eph /\ key.pq.ciphertext.rand = msg.kem_ciphertext.rand
  <2>1. msg.kem_ciphertext \in CiphertextType /\ msg.ephemeral \in Ephemeral
    BY <1>3, <1>5, BodyParts
  <2> QED BY <1>4, <2>1, SessionKeyType DEF combine_secrets, decapsulate
<1> HIDE DEF key
<1>8. new.by = i /\ new.with = p /\ new.key = key
  OBVIOUS
<1>9. MutualTrust(i, p) /\ MutualTrust(i, p)' /\ p \in Responders
  BY <1>1, <1>2, <1>5, <1>6 DEF MutualTrust
<1>10. Used(i)' = Used(i) /\ Used(s)' = Used(s)
  BY <1>2 DEF Used
<1>11. ASSUME NEW x \in sessions' \ sessions PROVE x.by = i /\ SessionGenuine(x)'
  <2>1. x = new
    BY <1>2
  <2>2. x.by = i /\ x.with = p /\ x.key = key
    BY <1>8, <2>1
  <2> HIDE DEF new
  <2> QED BY <1>4, <1>5, <1>6, <1>7, <1>9, <1>10, <2>2 DEF SessionGenuine
<1>12. ASSUME NEW m, m = body PROVE Honest(i, p, m)'
  <2>1. m.type = "TOKEN" /\ m.token.plaintext = i /\ m.token.key = key
    BY <1>12 DEF TokenMessage, encrypt
  <2> QED BY <1>1, <1>2, <1>9, <2>1 DEF Honest
<1> HIDE DEF body
<1>13. \A f \in net' : f \in net \/ Honest(f.sender, f.to, f.body)'
  <2>1. ASSUME NEW f, f \in Copies(i, p, body) PROVE Honest(f.sender, f.to, f.body)'
    <3>1. f.sender = i /\ f.to = p /\ f.body = body
      BY <2>1 DEF Copies, Frame
    <3> QED BY <1>12, <3>1
  <2> QED BY <1>1, <1>2, <2>1, SendEffect
<1>14. CallTypedAt(i)' /\ CallGenuine(i)'
  <2>1. CASE pc'[i] = "await_token" /\ call'[i] = locals
    <3>1. locals \in [peer : Devices, session_key : SessionKey]
      BY <1>4, <1>7
    <3>2. locals.peer = p /\ locals.session_key = key
      OBVIOUS
    <3>3. \A e \in received : e.by = i => e.key # key
      <4> SUFFICES ASSUME NEW e \in received, e.by = i PROVE e.key # key
        OBVIOUS
      <4>1. [by |-> e.by, with |-> e.with, key |-> e.key] \in sessions
        BY DEF IInv, ReceiptsGenuine
      <4>2. e.key.pq.keypair # eph
        BY <1>4, <4>1
      <4> QED BY <1>7, <4>2
    <3>4. [by |-> i, with |-> p, key |-> key] \in sessions'
      BY <1>2
    <3> HIDE DEF locals
    <3>5. CallTypedAt(i)'
      BY <2>1, <3>1 DEF CallTypedAt
    <3>6. CallGenuine(i)'
      BY <1>2, <2>1, <3>2, <3>3, <3>4 DEF CallGenuine
    <3> QED BY <3>5, <3>6
  <2>2. CASE pc'[i] = "visit" \/ pc'[i] \in Ended
    BY <1>1, <2>2, NotWaiting
  <2> QED BY <1>1, <1>2, <2>1, <2>2, SendEffect
<1>15. SoundMail
  BY <1>1, <1>2, OldMailKept DEF OldMail, SoundMail
<1>16. \A d \in Devices \ {i} : pc'[d] = pc[d] /\ call'[d] = call[d]
  BY <1>1, <1>2, SendEffect
<1> QED BY <1>1, <1>2, <1>11, <1>13, <1>14, <1>15, <1>16, StepIInv

\* A token that opens under a process's session key was sent by its peer.
LEMMA TokenFromPeer ==
  ASSUME IInv, NEW d \in Devices, pc[d] = "await_token", HasMail(d),
         TokenOpens(Mail(d), call[d].session_key)
  PROVE  /\ call[d].peer \in Devices
         /\ MutualTrust(d, call[d].peer)
         /\ Mail(d).token.key = call[d].session_key
         /\ Mail(d).token.plaintext = call[d].peer
         /\ [by |-> call[d].peer, with |-> d, key |-> call[d].session_key] \in sessions
         /\ [by |-> d, with |-> call[d].peer, key |-> call[d].session_key] \in sessions
         /\ call[d].peer \in Responders =>
              [by |-> call[d].peer, with |-> d, key |-> call[d].session_key,
               token |-> d] \in received
<1> DEFINE msg == Mail(d)
           key == call[d].session_key
           p == call[d].peer
           s == Head(inbox[d]).sender
           mine == [by |-> d, with |-> p, key |-> key]
           theirs == [by |-> s, with |-> d, key |-> key]
<1>1. msg.type = "TOKEN" /\ msg.token.key = key
  BY DEF TokenOpens, Decrypts
<1>2. Honest(s, d, msg) /\ s \in Devices
  BY MailHonest DEF IInv
<1>3. /\ MutualTrust(s, d) /\ msg.token.plaintext = s /\ theirs \in sessions
      /\ s \in Responders =>
           [by |-> s, with |-> d, key |-> key, token |-> d] \in received
  BY <1>1, <1>2 DEF Honest
<1>4. mine \in sessions /\ p \in Devices
  BY DEF IInv, CallTyped, CallTypedAt, CallsGenuine, CallGenuine
<1>5. SessionGenuine(mine) /\ SessionGenuine(theirs)
  BY <1>3, <1>4 DEF IInv, SessionsGenuine
<1> HIDE DEF key, p, s
<1>6. /\ mine.by = d /\ mine.with = p /\ mine.key = key
      /\ theirs.by = s /\ theirs.with = d /\ theirs.key = key
  OBVIOUS
<1> HIDE DEF mine, theirs
<1>7. p = s
  BY <1>5, <1>6, RolesDisjoint DEF SessionGenuine, Used
<1>8. MutualTrust(d, p)
  BY <1>5, <1>6 DEF SessionGenuine
<1> QED BY <1>1, <1>3, <1>4, <1>7, <1>8 DEF mine, theirs, p, s, key, msg

LEMMA HandleTokenIInv ==
  ASSUME IInv, TypeOK', Grows, NEW i \in Initiators, HandleToken(i)
  PROVE  IInv'
<1>1. i \in Devices /\ i \notin Responders /\ TypeOK
  BY RolesDisjoint DEF Devices, IInv
<1>2. pc[i] = "await_token" /\ HasMail(i) /\ TakeMail(i) /\ UNCHANGED <<net, sessions>>
  BY DEF HandleToken
<1>3. SoundMail
  BY <1>1, <1>2, OldMailKept DEF OldMail, SoundMail
<1>4. /\ pc'[i] \in {"visit", "bad_bytes"}
      /\ \A d \in Devices \ {i} : pc'[d] = pc[d] /\ call'[d] = call[d]
  BY <1>1 DEF HandleToken, Conclude, End, TypeOK
<1>5. CallTypedAt(i)' /\ CallGenuine(i)'
  BY <1>1, <1>4, NotWaiting DEF Ended
<1>6. ASSUME NEW e \in received' \ received PROVE e.by = i /\ Agreed(e)'
  <2>1. TokenOpens(Mail(i), call[i].session_key) /\ ReceiveToken(i, call[i].peer, Mail(i))
    BY <1>6 DEF HandleToken
  <2>2. e = [by |-> i, with |-> call[i].peer, key |-> Mail(i).token.key,
             token |-> Mail(i).token.plaintext]
    BY <1>6, <2>1 DEF ReceiveToken
  <2>3. /\ [by |-> i, with |-> call[i].peer, key |-> call[i].session_key] \in sessions
        /\ Mail(i).token.key = call[i].session_key
        /\ Mail(i).token.plaintext = call[i].peer
        /\ call[i].peer \in Responders =>
              [by |-> call[i].peer, with |-> i, key |-> call[i].session_key,
               token |-> i] \in received
    BY <1>1, <1>2, <2>1, TokenFromPeer
  <2>4. call[i].peer \in Responders
    <3> DEFINE x == [by |-> i, with |-> call[i].peer, key |-> call[i].session_key]
    <3>1. SessionGenuine(x)
      BY <2>3 DEF IInv, SessionsGenuine
    <3> QED BY <1>1, <3>1 DEF SessionGenuine
  <2>5. e.by = i /\ e.with = call[i].peer /\ e.key = call[i].session_key
        /\ e.token = call[i].peer
    BY <2>2, <2>3
  <2> QED BY <1>1, <1>2, <2>3, <2>4, <2>5 DEF Agreed, Grows
<1> QED BY <1>1, <1>2, <1>3, <1>4, <1>5, <1>6, StepIInv

LEMMA RespondInitiateIInv ==
  ASSUME IInv, TypeOK', Grows, NEW r \in Responders, RespondInitiate(r)
  PROVE  IInv'
<1>0. PICK msg, s, p, n, eph : /\ msg = Mail(r) /\ s = Head(inbox[r]).sender
                               /\ p = msg.device_id /\ n = gen[r] + 1 /\ eph = <<r, n>>
  OBVIOUS
<1>1. r \in Devices /\ r \notin Initiators /\ TypeOK
  BY RolesDisjoint DEF Devices, IInv
<1>2. /\ pc[r] = "await_initiate" /\ HasMail(r) /\ TakeMail(r)
      /\ gen[r] < MaxEphemerals /\ gen' = [gen EXCEPT ![r] = n]
      /\ UNCHANGED <<trust, received>>
  BY <1>0 DEF RespondInitiate
<1>3. PICK ltk : ltk = compute_long_term_key(r, p, trust[r][p])
  OBVIOUS
<1>4. msg.type = "INITIATE" /\ msg.mac.key = ltk
  BY <1>0, <1>3 DEF RespondInitiate, Authentic, VerifiesInitiate, hmac
<1>5. /\ msg \in Body /\ s \in Devices /\ s \in Initiators /\ p = s
      /\ msg.ephemeral \in Used(s) /\ msg.ephemeral \in Ephemeral
      /\ \E k \in Generation : /\ msg.mac.key = compute_long_term_key(s, r, k)
                               /\ k = Identity[r] => trust[s][r] = Identity[r]
  <2>1. msg \in Body /\ s \in Devices /\ Honest(s, r, msg)
    BY <1>0, <1>1, <1>2, MailType, MailHonest DEF IInv
  <2>2. msg.ephemeral \in Ephemeral
    BY <1>4, <2>1, BodyParts
  <2> QED BY <1>0, <1>4, <2>1, <2>2 DEF Honest
\* The verified MAC says that each side holds the other's current key.
<1>6. MutualTrust(r, p) /\ MutualTrust(r, p)' /\ ltk = compute_long_term_key(r, p, Identity[p])
  <2>1. PICK k \in Generation : /\ msg.mac.key = compute_long_term_key(s, r, k)
                                /\ k = Identity[r] => trust[s][r] = Identity[r]
    BY <1>5
  <2>2. s # r
    BY <1>1, <1>5
  <2>3. compute_long_term_key(s, r, k) = compute_long_term_key(r, p, trust[r][p])
    BY <1>3, <1>4, <2>1, Zenon
  <2>4. trust[r][p] = Identity[s] /\ k = Identity[r]
    BY <2>2, <2>3, LongTermKeyAgreement
  <2>5. MutualTrust(r, p)
    BY <1>5, <2>1, <2>4 DEF MutualTrust
  <2>6. MutualTrust(r, p)'
    BY <1>2, <2>5 DEF MutualTrust
  <2> QED BY <1>3, <1>5, <2>4, <2>5, <2>6
<1>7. n \in 1..MaxEphemerals /\ gen[r] = n - 1 /\ gen'[r] = n /\ n \in Nat
  <2>1. gen[r] \in 0..MaxEphemerals /\ gen'[r] = n
    BY <1>1, <1>2 DEF TypeOK
  <2> QED BY <1>0, <1>2, <2>1, BoundsType
<1>8. eph \in Ephemeral /\ eph \in Used(r)' /\ eph \notin Used(r) /\ Used(s)' = Used(s)
  <2>1. gen'[s] = gen[s]
    BY <1>1, <1>2, <1>5 DEF TypeOK
  <2>2. Used(s)' = Used(s)
    BY <2>1 DEF Used
  <2>3. n \in 1..gen'[r] /\ n \notin 1..gen[r]
    BY <1>7
  <2> QED BY <1>0, <1>1, <1>7, <2>2, <2>3 DEF Ephemeral, Used
<1>9. PICK key, ct : key = SharedKey(msg.ephemeral, eph)
                  /\ ct = encapsulate(msg.ephemeral, eph).kem_ciphertext
  OBVIOUS
<1>10. /\ key \in SessionKey /\ key = SharedKey(msg.ephemeral, eph)
       /\ key = combine_secrets(derive_shared_secret(eph, msg.ephemeral),
                                encapsulate(msg.ephemeral, eph).pq_secret)
       /\ key.pq.keypair = msg.ephemeral /\ key.pq.ciphertext.rand = eph
       /\ ct \in CiphertextType /\ ct.to = msg.ephemeral /\ ct.rand = eph
  BY <1>5, <1>8, <1>9, SharedKeyType
<1> DEFINE body == ResponseMessage(r, eph, ct, ltk)
           locals == [peer |-> p, session_key |-> key]
           new == [by |-> r, with |-> p, key |-> key]
<1>11. /\ sessions' = sessions \cup {new}
       /\ ResponderSend(r, p, body, "await_token", locals)
  BY <1>0, <1>3, <1>9, <1>10 DEF RespondInitiate, DeriveSession, NewEphemeral
<1>12. new.by = r /\ new.with = p /\ new.key = key
  OBVIOUS
<1>13. ASSUME NEW x \in sessions' \ sessions PROVE x.by = r /\ SessionGenuine(x)'
  <2>1. x.by = r /\ x.with = p /\ x.key = key
    BY <1>11, <1>12, <1>13
  <2> QED BY <1>5, <1>6, <1>8, <1>10, <2>1 DEF SessionGenuine
<1>14. ASSUME NEW m, m = body PROVE Honest(r, p, m)'
  <2>1. /\ m.type = "RESPONSE" /\ m.mac.key = ltk
        /\ m.ephemeral = eph /\ m.kem_ciphertext = ct
    BY <1>14 DEF ResponseMessage, hmac
  <2> QED BY <1>5, <1>6, <1>8, <1>10, <2>1 DEF Honest
<1> HIDE DEF body
<1>15. \A f \in net' : f \in net \/ Honest(f.sender, f.to, f.body)'
  <2>1. ASSUME NEW f, f \in Copies(r, p, body) PROVE Honest(f.sender, f.to, f.body)'
    <3>1. f.sender = r /\ f.to = p /\ f.body = body
      BY <2>1 DEF Copies, Frame
    <3> QED BY <1>14, <3>1
  <2> QED BY <1>1, <1>11, <2>1, SendEffect
<1>16. CallTypedAt(r)' /\ CallGenuine(r)'
  <2>1. CASE pc'[r] = "await_token" /\ call'[r] = locals
    <3>1. locals \in [peer : Devices, session_key : SessionKey]
      BY <1>5, <1>10
    <3>2. locals.peer = p /\ locals.session_key = key
      OBVIOUS
    <3>3. \A e \in received : e.by = r => e.key # key
      <4> SUFFICES ASSUME NEW e \in received, e.by = r PROVE e.key # key
        OBVIOUS
      <4> DEFINE x == [by |-> e.by, with |-> e.with, key |-> e.key]
      <4>1. SessionGenuine(x)
        BY DEF IInv, ReceiptsGenuine, SessionsGenuine
      <4>2. e.key.pq.ciphertext.rand \in Used(r)
        BY <1>1, <4>1 DEF SessionGenuine
      <4> QED BY <1>8, <1>10, <4>2
    <3>4. [by |-> r, with |-> p, key |-> key] \in sessions'
      BY <1>11
    <3> HIDE DEF locals
    <3>5. CallTypedAt(r)'
      BY <2>1, <3>1 DEF CallTypedAt
    <3>6. CallGenuine(r)'
      BY <1>2, <2>1, <3>2, <3>3, <3>4 DEF CallGenuine
    <3> QED BY <3>5, <3>6
  <2>2. CASE pc'[r] \in Ended
    BY <1>1, <2>2, NotWaiting
  <2>3. ~(pc'[r] = "visit")
    BY <1>1, <1>11 DEF TypeOK, ResponderSend, GoOn, End
  <2> QED BY <1>1, <1>11, <2>1, <2>2, <2>3, SendEffect
<1>17. SoundMail
  BY <1>1, <1>2, OldMailKept DEF OldMail, SoundMail
<1>18. \A d \in Devices \ {r} : pc'[d] = pc[d] /\ call'[d] = call[d]
  BY <1>1, <1>11, SendEffect
<1> QED BY <1>1, <1>2, <1>13, <1>15, <1>16, <1>17, <1>18, StepIInv

LEMMA RespondTokenIInv ==
  ASSUME IInv, TypeOK', Grows, NEW r \in Responders, RespondToken(r)
  PROVE  IInv'
<1>0. PICK p, key, msg : p = call[r].peer /\ key = call[r].session_key /\ msg = Mail(r)
  OBVIOUS
<1>1. r \in Devices /\ r \notin Initiators /\ TypeOK
  BY RolesDisjoint DEF Devices, IInv
<1>2. /\ pc[r] = "await_token" /\ HasMail(r) /\ TakeMail(r)
      /\ UNCHANGED <<trust, sessions>>
  BY DEF RespondToken
<1>3. SoundMail
  BY <1>1, <1>2, OldMailKept DEF OldMail, SoundMail
<1>4. CASE End(r, "bad_bytes") /\ UNCHANGED <<net, received>>
  <2>1. /\ pc'[r] = "bad_bytes"
        /\ \A d \in Devices \ {r} : pc'[d] = pc[d] /\ call'[d] = call[d]
    BY <1>1, <1>4 DEF End, TypeOK
  <2>2. CallTypedAt(r)' /\ CallGenuine(r)'
    BY <1>1, <2>1, NotWaiting DEF Ended
  <2> QED BY <1>1, <1>2, <1>3, <1>4, <2>1, <2>2, StepIInv
<1>5. CASE /\ TokenOpens(msg, key)
           /\ ReceiveToken(r, p, msg)
           /\ ResponderSend(r, p, TokenMessage(r, key), "await_initiate", NoCall)
  <2> DEFINE body == TokenMessage(r, key)
             new == [by |-> r, with |-> p, key |-> key, token |-> p]
  <2>1. /\ p \in Devices /\ MutualTrust(r, p)
        /\ msg.token.key = key /\ msg.token.plaintext = p
        /\ [by |-> p, with |-> r, key |-> key] \in sessions
        /\ [by |-> r, with |-> p, key |-> key] \in sessions
    BY <1>0, <1>1, <1>2, <1>5, TokenFromPeer
  <2>2. received' = received \cup {new}
    BY <1>5, <2>1 DEF ReceiveToken
  <2>3. ASSUME NEW e \in received' \ received PROVE e.by = r /\ Agreed(e)'
    <3>1. e.by = r /\ e.with = p /\ e.key = key /\ e.token = p
      BY <2>2, <2>3
    <3> QED BY <1>1, <1>2, <2>1, <3>1 DEF Agreed
  <2>4. ASSUME NEW m, m = body PROVE Honest(r, p, m)'
    <3>1. m.type = "TOKEN" /\ m.token.plaintext = r /\ m.token.key = key
      BY <2>4 DEF TokenMessage, encrypt
    <3>2. MutualTrust(r, p)'
      BY <1>2, <2>1 DEF MutualTrust
    <3> QED BY <1>2, <2>1, <2>2, <3>1, <3>2 DEF Honest
  <2> HIDE DEF body
  <2>5. \A f \in net' : f \in net \/ Honest(f.sender, f.to, f.body)'
    <3>1. ASSUME NEW f, f \in Copies(r, p, body) PROVE Honest(f.sender, f.to, f.body)'
      <4>1. f.sender = r /\ f.to = p /\ f.body = body
        BY <3>1 DEF Copies, Frame
      <4> QED BY <2>4, <4>1
    <3> QED BY <1>1, <1>5, <3>1, SendEffect DEF body
  <2>6. /\ pc'[r] \in Ended \cup {"await_initiate"}
        /\ \A d \in Devices \ {r} : pc'[d] = pc[d] /\ call'[d] = call[d]
    BY <1>1, <1>5 DEF TypeOK, ResponderSend, GoOn, End, Ended
  <2>7. CallTypedAt(r)' /\ CallGenuine(r)'
    BY <1>1, <2>6, NotWaiting
  <2> QED BY <1>1, <1>2, <1>3, <2>3, <2>5, <2>6, <2>7, StepIInv
<1> QED BY <1>0, <1>4, <1>5 DEF RespondToken

LEMMA DeliverIInv ==
  ASSUME IInv, TypeOK', Grows, NEW f \in net, Deliver(f)
  PROVE  IInv'
<1> DEFINE m == [sender |-> f.sender, body |-> f.body]
<1>1. /\ f.to \in Devices
      /\ inbox' = [inbox EXCEPT ![f.to] = Append(inbox[f.to], m)]
      /\ net' \subseteq net /\ UNCHANGED <<trust, pc, call, gen, sessions, received>>
  BY DEF IInv, TypeOK, FrameType, Deliver, process
<1>2. f.sender \in Devices /\ f.body \in Body /\ Honest(f.sender, f.to, f.body)
  BY DEF IInv, TypeOK, FrameType, MessagesHonest
<1>3. Honest(f.sender, f.to, f.body)'
  BY <1>1, <1>2, HonestGrows DEF IInv
<1>4. SoundMail
  <2> SUFFICES ASSUME NEW d \in Devices, NEW j \in 1..Len(inbox'[d])
               PROVE  \/ \E k \in 1..Len(inbox[d]) : inbox'[d][j] = inbox[d][k]
                      \/ Honest(inbox[d][j].sender, d, inbox[d][j].body)'
    BY DEF SoundMail
  <2>1. inbox \in [Devices -> Seq(Letter)] /\ m \in Letter
    BY <1>2 DEF IInv, TypeOK, Letter
  <2>2. CASE d # f.to
    BY <1>1, <2>1, <2>2
  <2>3. CASE d = f.to
    <3>1. inbox'[d] = Append(inbox[d], m) /\ inbox[d] \in Seq(Letter)
      BY <1>1, <2>1, <2>3
    <3> HIDE DEF m
    <3>2. CASE j \in 1..Len(inbox[d])
      BY <3>1, <3>2
    <3>3. CASE j = Len(inbox[d]) + 1
      <4>1. inbox'[d][j] = m
        BY <2>1, <3>1, <3>3
      <4>2. inbox'[d][j].sender = f.sender /\ inbox'[d][j].body = f.body
        BY <4>1 DEF m
      <4> QED BY <1>3, <2>3, <4>2
    <3>4. Len(inbox'[d]) = Len(inbox[d]) + 1 /\ Len(inbox[d]) \in Nat
      BY <2>1, <3>1
    <3> QED BY <3>2, <3>3, <3>4
  <2> QED BY <2>2, <2>3
<1> QED BY <1>1, <1>4, IdleStepIInv

LEMMA GarbleIInv ==
  ASSUME IInv, TypeOK', Grows, NEW f \in net, NEW g \in net, Garble(f, g)
  PROVE  IInv'
<1> DEFINE h == Frame(f.sender, f.to, f.port, Garbage)
<1>1. net' \subseteq net \cup {h} /\ UNCHANGED <<trust, pc, call, gen, inbox, sessions, received>>
  BY DEF Garble, process
<1>2. Honest(h.sender, h.to, h.body)'
  BY DEF Honest, Frame, Garbage
<1> HIDE DEF h
<1>3. f.to \in Devices
  BY DEF IInv, TypeOK, FrameType
<1>4. SoundMail
  BY <1>1, <1>3, OldMailKept DEF IInv, OldMail, SoundMail
<1> QED BY <1>1, <1>2, <1>3, <1>4, IdleStepIInv

LEMMA InitIInv == Init => IInv
<1> SUFFICES ASSUME Init PROVE IInv
  OBVIOUS
<1>1. TypeOK
  BY InitTypeOK
<1>2. MessagesHonest
  BY DEF Init, MessagesHonest
<1>3. CallTyped /\ CallsGenuine
  BY DEF Init, CallTyped, CallTypedAt, CallsGenuine, CallGenuine
<1> QED BY <1>1, <1>2, <1>3
        DEF Init, IInv, SessionsGenuine, ReceiptsGenuine, ResponderAgreement, InitiatorAgreement

\* The invariant is inductive: one case per action.
LEMMA NextIInv == IInv /\ [Next]_vars => IInv'
<1> SUFFICES ASSUME IInv, [Next]_vars PROVE IInv'
  OBVIOUS
<1>0. TypeOK /\ TypeOK' /\ Grows
  BY NextTypeOK, NextGrows DEF IInv
<1>1. ASSUME NEW d \in Devices, Launch(d) PROVE IInv'
  <2>1. /\ UNCHANGED <<net, sessions, received>> /\ inbox' = [inbox EXCEPT ![d] = <<>>]
        /\ \A e \in Devices \ {d} : pc'[e] = pc[e] /\ call'[e] = call[e]
        /\ pc'[d] = IF d \in Initiators THEN "discover" ELSE "await_initiate"
    BY <1>0, <1>1 DEF Launch, TypeOK
  <2>2. OldMail
    BY <1>0, <2>1, OldMailKept
  <2> QED BY <1>0, <2>1, <2>2, QuietStepIInv DEF Devices
<1>2. ASSUME NEW d \in Devices, Kill(d) PROVE IInv'
  <2>1. /\ UNCHANGED <<net, inbox, sessions, received>>
        /\ \A e \in Devices \ {d} : pc'[e] = pc[e] /\ call'[e] = call[e]
        /\ pc'[d] = "killed"
    BY <1>0, <1>2 DEF Kill, End, TypeOK
  <2>2. OldMail
    BY <1>0, <2>1, OldMailKept
  <2> QED BY <1>0, <2>1, <2>2, QuietStepIInv
<1>3. ASSUME NEW d \in Devices, NEW p \in Devices, AddService(d, p) \/ SavePeer(d, p)
      PROVE  IInv'
  <2>1. UNCHANGED <<net, inbox, pc, call, gen, sessions, received>>
    BY <1>3 DEF AddService, SavePeer, process
  <2>2. SoundMail
    BY <1>0, <2>1, OldMailKept DEF OldMail, SoundMail
  <2> QED BY <1>0, <2>1, <2>2, IdleStepIInv
<1>4. ASSUME NEW f \in net, Deliver(f) PROVE IInv'
  BY <1>0, <1>4, DeliverIInv
<1>13. ASSUME NEW f \in net, NEW g \in net, Garble(f, g) PROVE IInv'
  BY <1>0, <1>13, GarbleIInv
<1>5. ASSUME NEW i \in Initiators,
             \/ Discover(i) \/ DiscoverFails(i) \/ \E p \in Devices : SkipUnpaired(i, p)
             \/ RejectResponse(i) \/ ReceiveTimeout(i) \/ Finish(i)
      PROVE  IInv'
  <2>1. i \in Devices
    BY DEF Devices
  <2>2. /\ UNCHANGED <<net, sessions, received>>
        /\ UNCHANGED inbox \/ (HasMail(i) /\ TakeMail(i))
    BY <1>5 DEF Discover, DiscoverFails, SkipUnpaired, RejectResponse, ReceiveTimeout, Finish
  <2>3. /\ pc'[i] \in {"visit", "bad_bytes", "stopped", "no_discovery"}
        /\ \A e \in Devices \ {i} : pc'[e] = pc[e] /\ call'[e] = call[e]
    BY <1>0, <1>5, <2>1
       DEF Discover, DiscoverFails, SkipUnpaired, RejectResponse, ReceiveTimeout, Finish,
           Conclude, End, TypeOK
  <2>4. OldMail
    BY <1>0, <2>1, <2>2, OldMailKept
  <2> QED BY <1>0, <2>1, <2>2, <2>3, <2>4, QuietStepIInv
<1>6. ASSUME NEW i \in Initiators, NEW p \in Devices, StartEncounter(i, p) PROVE IInv'
  BY <1>0, <1>6, StartEncounterIInv
<1>7. ASSUME NEW i \in Initiators, HandleResponse(i) PROVE IInv'
  BY <1>0, <1>7, HandleResponseIInv
<1>8. ASSUME NEW i \in Initiators, HandleToken(i) PROVE IInv'
  BY <1>0, <1>8, HandleTokenIInv
<1>9. ASSUME NEW r \in Responders, RejectInitiate(r) \/ Deadline(r) \/ NegativeTimeout(r)
      PROVE  IInv'
  <2>1. r \in Devices
    BY DEF Devices
  <2>2. /\ UNCHANGED <<net, sessions, received>>
        /\ UNCHANGED inbox \/ (HasMail(r) /\ TakeMail(r))
    BY <1>9 DEF RejectInitiate, Deadline, NegativeTimeout
  <2>3. /\ pc'[r] \in {"await_initiate", "bad_bytes", "stopped", "bad_timeout"}
        /\ \A e \in Devices \ {r} : pc'[e] = pc[e] /\ call'[e] = call[e]
    BY <1>0, <1>9, <2>1 DEF RejectInitiate, Deadline, NegativeTimeout, GoOn, End, TypeOK
  <2>4. OldMail
    BY <1>0, <2>1, <2>2, OldMailKept
  <2> QED BY <1>0, <2>1, <2>2, <2>3, <2>4, QuietStepIInv
<1>10. ASSUME NEW r \in Responders, RespondInitiate(r) PROVE IInv'
  BY <1>0, <1>10, RespondInitiateIInv
<1>11. ASSUME NEW r \in Responders, RespondToken(r) PROVE IInv'
  BY <1>0, <1>11, RespondTokenIInv
<1>12. CASE UNCHANGED vars
  <2>1. MessagesHonest'
    <3>1. \A s, t, b : Honest(s, t, b) => Honest(s, t, b)'
      BY <1>12 DEF vars, Honest, Used, MutualTrust
    <3> QED BY <1>12, <3>1 DEF vars, IInv, MessagesHonest
  <2>2. SessionsGenuine'
    BY <1>12 DEF vars, IInv, SessionsGenuine, SessionGenuine, Used, MutualTrust
  <2>3. CallTyped' /\ CallsGenuine'
    BY <1>12 DEF vars, IInv, CallTyped, CallTypedAt, CallsGenuine, CallGenuine, Used
  <2>4. ReceiptsGenuine' /\ ResponderAgreement' /\ InitiatorAgreement'
    BY <1>12 DEF vars, IInv, ReceiptsGenuine, ResponderAgreement, InitiatorAgreement
  <2> QED BY <1>0, <2>1, <2>2, <2>3, <2>4 DEF IInv
<1> QED
  BY <1>1, <1>2, <1>3, <1>4, <1>5, <1>6, <1>7, <1>8, <1>9, <1>10, <1>11, <1>12, <1>13
     DEF Next, InitiatorStep, ResponderStep

(***************************************************************************)
(* The theorems                                                            *)
(***************************************************************************)

\* The inductive invariant holds in every state of every run.
THEOREM Invariance == Spec => []IInv
<1>1. Init => IInv
  BY InitIInv
<1>2. IInv /\ [Next]_vars => IInv'
  BY NextIInv
<1> QED BY <1>1, <1>2, PTL DEF Spec

\* Every variable keeps its type: no handler of the proximity protocol reads a
\* field that the message or the local it reads does not have.
THEOREM TypeCorrect == Spec => []TypeOK
<1>1. IInv => TypeOK
  BY DEF IInv
<1> QED BY <1>1, Invariance, PTL

\* A RESPONSE or a TOKEN is sent only to a device that the sender holds the
\* current key of and that holds the sender's.
THEOREM PairedOnly == Spec => []OnlyPairedPeersAnswered
<1>1. IInv => OnlyPairedPeersAnswered
  BY DEF IInv, MessagesHonest, Honest, OnlyPairedPeersAnswered
<1> QED BY <1>1, Invariance, PTL

\* Whom respond_to_encounter returns is who sent the token, under a session
\* key it derived for this responder.
THEOREM ResponderAgrees == Spec => []ResponderAgreement
<1>1. IInv => ResponderAgreement
  BY DEF IInv
<1> QED BY <1>1, Invariance, PTL

\* When initiate_encounter returns, the responder has received the
\* initiator's token under the same session key.
THEOREM InitiatorAgrees == Spec => []InitiatorAgreement
<1>1. IInv => InitiatorAgreement
  BY DEF IInv
<1> QED BY <1>1, Invariance, PTL

LEMMA NewKeyStep ==
  ASSUME IInv, [Next]_vars, NEW d \in Devices, pc[d] # "await_token", pc'[d] = "await_token",
         NEW y \in sessions, y.by = d
  PROVE  call'[d].session_key # y.key
<1>0. SessionGenuine(y) /\ TypeOK
  BY DEF IInv, SessionsGenuine
<1>1. ASSUME NEW i \in Initiators, HandleResponse(i) PROVE call'[d].session_key # y.key
  <2> DEFINE key == combine_secrets(derive_shared_secret(call[i].ephemeral, Mail(i).ephemeral),
                                    decapsulate(call[i].ephemeral, Mail(i).kem_ciphertext))
             locals == [peer |-> call[i].peer, session_key |-> key]
  <2>1. /\ i \in Devices /\ pc[i] = "await_response"
        /\ InitiatorSend(i, call[i].peer, TokenMessage(i, key), "await_token", locals)
    BY <1>1 DEF HandleResponse, Devices
  <2>2. key.pq.keypair = call[i].ephemeral
    BY DEF combine_secrets, decapsulate
  <2> HIDE DEF key
  <2>3. d = i /\ call'[d] = locals
    BY <1>0, <2>1, SendEffect DEF Ended
  <2>4. y.key.pq.keypair # call[i].ephemeral
    BY <2>1, <2>3 DEF IInv, CallsGenuine, CallGenuine
  <2> QED BY <2>2, <2>3, <2>4
<1>2. ASSUME NEW r \in Responders, RespondInitiate(r) PROVE call'[d].session_key # y.key
  <2> DEFINE p == Mail(r).device_id
             ltk == compute_long_term_key(r, p, trust[r][p])
             eph == NewEphemeral(r)
             kem == encapsulate(Mail(r).ephemeral, eph)
             key == combine_secrets(derive_shared_secret(eph, Mail(r).ephemeral), kem.pq_secret)
             body == ResponseMessage(r, eph, kem.kem_ciphertext, ltk)
             locals == [peer |-> p, session_key |-> key]
  <2>1. r \in Devices /\ pc[r] = "await_initiate" /\ ResponderSend(r, p, body, "await_token", locals)
    BY <1>2 DEF RespondInitiate, Devices
  <2>2. key.pq.ciphertext.rand = <<r, gen[r] + 1>>
    BY DEF combine_secrets, encapsulate, decapsulate, Ciphertext, NewEphemeral
  <2> HIDE DEF key, body
  <2>3. d = r /\ call'[d] = locals
    BY <1>0, <2>1, SendEffect DEF Ended
  <2>4. y.key.pq.ciphertext.rand \in Used(r)
    BY <1>0, <1>2, <2>3, RolesDisjoint DEF SessionGenuine
  <2>5. gen[r] \in Nat
    BY BoundsType, <1>0, <2>1 DEF TypeOK
  <2>6. <<r, gen[r] + 1>> \notin Used(r)
    BY <2>5 DEF Used
  <2> QED BY <2>2, <2>3, <2>4, <2>6
<1>3. \A i \in Initiators, p \in Devices : ~StartEncounter(i, p)
  <2> SUFFICES ASSUME NEW i \in Initiators, NEW p \in Devices, StartEncounter(i, p) PROVE FALSE
    OBVIOUS
  <2> DEFINE ltk == compute_long_term_key(i, p, trust[i][p])
             body == InitiateMessage(i, NewEphemeral(i), ltk)
             locals == [peer |-> p, long_term_key |-> ltk, ephemeral |-> NewEphemeral(i)]
  <2>1. i \in Devices /\ InitiatorSend(i, p, body, "await_response", locals)
    BY DEF StartEncounter, Devices
  <2> HIDE DEF body, locals
  <2> QED BY <1>0, <2>1, SendEffect DEF Ended
<1>4. \A r \in Responders : ~RespondToken(r)
  BY <1>0 DEF RespondToken, ResponderSend, TypeOK, GoOn, End, Devices
<1>5. \A i \in Initiators, p \in Devices :
       ~Discover(i) /\ ~DiscoverFails(i) /\ ~SkipUnpaired(i, p) /\ ~RejectResponse(i)
  BY <1>0 DEF Discover, DiscoverFails, SkipUnpaired, RejectResponse, Conclude, End, TypeOK, Devices
<1>6. \A i \in Initiators : ~HandleToken(i) /\ ~ReceiveTimeout(i) /\ ~Finish(i)
  BY <1>0 DEF HandleToken, ReceiveTimeout, Finish, Conclude, End, TypeOK, Devices
<1>7. \A r \in Responders : ~RejectInitiate(r) /\ ~Deadline(r) /\ ~NegativeTimeout(r)
  BY <1>0 DEF RejectInitiate, Deadline, NegativeTimeout, GoOn, End, TypeOK, Devices
<1>8. \A e, p \in Devices : ~Launch(e) /\ ~Kill(e) /\ ~AddService(e, p) /\ ~SavePeer(e, p)
  BY <1>0 DEF Launch, Kill, AddService, SavePeer, End, TypeOK, process
<1>9. (\A f \in net : ~Deliver(f) /\ \A g \in net : ~Garble(f, g)) /\ ~UNCHANGED vars
  BY DEF Deliver, Garble, process, vars
<1> QED
  BY <1>1, <1>2, <1>3, <1>4, <1>5, <1>6, <1>7, <1>8, <1>9 DEF Next, InitiatorStep, ResponderStep

\* No device ever derives a session key a second time, whatever stale or
\* repeated messages it derives it from.
THEOREM NewKeys == Spec => NewKeyPerEncounter
<1>1. IInv /\ [Next]_vars =>
        [\A d \in Devices : pc[d] # "await_token" /\ pc'[d] = "await_token" =>
           \A s \in sessions : s.by = d => call'[d].session_key # s.key]_vars
  BY NewKeyStep
<1> QED BY <1>1, Invariance, PTL DEF Spec, NewKeyPerEncounter

(***************************************************************************)
(* How much device_a has left to do                                        *)
(***************************************************************************)
\* Where a step takes a process of device_a.
Moves(i) ==
  \/ pc'[i] \in Ended
  \/ pc[i] = "discover" /\ pc'[i] = "visit"
  \/ /\ pc[i] = "visit" /\ pc'[i] \in {"visit", "await_response"}
     /\ \E p \in todo[i] : todo'[i] = todo[i] \ {p}
  \/ pc[i] = "await_response" /\ pc'[i] \in {"visit", "await_token"} /\ todo'[i] = todo[i]
  \/ pc[i] = "await_token" /\ pc'[i] = "visit" /\ todo'[i] = todo[i]

LEMMA InitiatorMoves ==
  ASSUME IInv, NEW i \in Initiators, InitiatorStep(i)
  PROVE  Moves(i) /\ \A j \in Initiators \ {i} : pc'[j] = pc[j] /\ todo'[j] = todo[j]
<1>0. TypeOK /\ i \in Devices /\ Initiators \subseteq Devices
  BY DEF IInv, Devices
<1> DEFINE Alone == \A j \in Initiators \ {i} : pc'[j] = pc[j] /\ todo'[j] = todo[j]
<1>1. CASE Discover(i)
  BY <1>0, <1>1 DEF Discover, TypeOK, Moves
<1>2. ASSUME NEW p \in Devices, SkipUnpaired(i, p) PROVE Moves(i) /\ Alone
  BY <1>0, <1>2 DEF SkipUnpaired, Conclude, TypeOK, Moves
<1>3. ASSUME NEW p \in Devices, StartEncounter(i, p) PROVE Moves(i) /\ Alone
  <2> DEFINE ltk == compute_long_term_key(i, p, trust[i][p])
             body == InitiateMessage(i, NewEphemeral(i), ltk)
             locals == [peer |-> p, long_term_key |-> ltk, ephemeral |-> NewEphemeral(i)]
  <2>1. /\ pc[i] = "visit" /\ p \in todo[i]
        /\ todo' = [todo EXCEPT ![i] = @ \ {p}]
        /\ InitiatorSend(i, p, body, "await_response", locals)
    BY <1>3 DEF StartEncounter
  <2> HIDE DEF body, locals
  <2>2. /\ \A e \in Devices \ {i} : pc'[e] = pc[e]
        /\ pc'[i] \in {"await_response", "visit"} \cup Ended
    BY <1>0, <2>1, SendEffect
  <2> QED BY <1>0, <2>1, <2>2 DEF TypeOK, Moves
<1>4. CASE HandleResponse(i)
  <2> DEFINE key == combine_secrets(derive_shared_secret(call[i].ephemeral, Mail(i).ephemeral),
                                    decapsulate(call[i].ephemeral, Mail(i).kem_ciphertext))
             body == TokenMessage(i, key)
             locals == [peer |-> call[i].peer, session_key |-> key]
  <2>1. /\ pc[i] = "await_response" /\ UNCHANGED todo
        /\ InitiatorSend(i, call[i].peer, body, "await_token", locals)
    BY <1>4 DEF HandleResponse
  <2> HIDE DEF body, locals
  <2>2. /\ \A e \in Devices \ {i} : pc'[e] = pc[e]
        /\ pc'[i] \in {"await_token", "visit"} \cup Ended
    BY <1>0, <2>1, SendEffect
  <2> QED BY <1>0, <2>1, <2>2 DEF TypeOK, Moves
<1>5. ASSUME UNCHANGED todo, pc[i] \in {"await_response", "await_token"},
             (\E p, v : Conclude(i, p, v)) \/ \E how \in Ended : End(i, how)
      PROVE  Moves(i) /\ Alone
  BY <1>0, <1>5 DEF Conclude, End, TypeOK, Moves
<1>6. CASE RejectResponse(i) \/ HandleToken(i) \/ ReceiveTimeout(i)
  BY <1>5, <1>6 DEF RejectResponse, HandleToken, ReceiveTimeout, Ended
<1>7. CASE DiscoverFails(i) \/ Finish(i)
  BY <1>0, <1>7 DEF DiscoverFails, Finish, End, Ended, TypeOK, Moves
<1> QED BY <1>1, <1>2, <1>3, <1>4, <1>6, <1>7 DEF InitiatorStep

\* Only a process's own steps, its launch and its end move it.
LEMMA InitiatorsMove ==
  ASSUME IInv, [Next]_vars, NEW i \in Initiators, Up(i),
         <<pc[i], todo[i]>>' # <<pc[i], todo[i]>>
  PROVE  Moves(i)
<1>0. TypeOK /\ i \in Devices /\ i \notin Responders
  BY RolesDisjoint DEF IInv, Devices
<1>1. ASSUME NEW d \in Devices, Launch(d) PROVE FALSE
  BY <1>0, <1>1 DEF Launch, TypeOK
<1>2. ASSUME NEW d \in Devices, Kill(d) PROVE Moves(i)
  BY <1>0, <1>2 DEF Kill, End, Ended, TypeOK, Moves
<1>3. ASSUME NEW j \in Initiators, InitiatorStep(j) PROVE Moves(i)
  BY <1>3, InitiatorMoves
<1>4. ASSUME NEW r \in Responders, RespondInitiate(r) PROVE FALSE
  <2> DEFINE p == Mail(r).device_id
             ltk == compute_long_term_key(r, p, trust[r][p])
             eph == NewEphemeral(r)
             kem == encapsulate(Mail(r).ephemeral, eph)
             key == combine_secrets(derive_shared_secret(eph, Mail(r).ephemeral), kem.pq_secret)
             body == ResponseMessage(r, eph, kem.kem_ciphertext, ltk)
             locals == [peer |-> p, session_key |-> key]
  <2>1. UNCHANGED todo /\ r \in Devices /\ ResponderSend(r, p, body, "await_token", locals)
    BY <1>4 DEF RespondInitiate, Devices
  <2> HIDE DEF body, locals
  <2> QED BY <1>0, <2>1, SendEffect
<1>5. ASSUME NEW r \in Responders, RespondToken(r) PROVE FALSE
  BY <1>0, <1>5 DEF RespondToken, ResponderSend, GoOn, End, TypeOK, Devices
<1>6. ASSUME NEW r \in Responders, RejectInitiate(r) \/ Deadline(r) \/ NegativeTimeout(r) PROVE FALSE
  BY <1>0, <1>6 DEF RejectInitiate, Deadline, NegativeTimeout, GoOn, End, TypeOK, Devices
<1>7. \A d, p \in Devices : ~AddService(d, p) /\ ~SavePeer(d, p)
  BY DEF AddService, SavePeer, process
<1>8. (\A f \in net : ~Deliver(f) /\ \A g \in net : ~Garble(f, g)) /\ ~UNCHANGED vars
  BY DEF Deliver, Garble, process, vars
<1> QED BY <1>1, <1>2, <1>3, <1>4, <1>5, <1>6, <1>7, <1>8 DEF Next, ResponderStep

\* The bound for a process at l with n peers left.
Left(l, n) ==
  IF l = "discover" THEN 3 * Cardinality(Devices) + 2
  ELSE IF l \notin Waiting THEN 0
  ELSE 3 * n + CASE l = "visit" -> 1 [] l = "await_token" -> 2 [] OTHER -> 3

\* A launch of device_a takes at most three steps for each device there is, and
\* two: whatever arrives or fails, no peer is visited twice and no receive is
\* repeated.  (cmd_proximity's loop over peers, initiate_encounter)
THEOREM EachLaunchEnds ==
  ASSUME IsFiniteSet(Devices)
  PROVE  Spec => WorkShrinks
<1>1. \A T \in SUBSET Devices :
        /\ Cardinality(T) \in Nat /\ Cardinality(T) <= Cardinality(Devices)
        /\ \A p \in T : Cardinality(T \ {p}) = Cardinality(T) - 1
  <2> SUFFICES ASSUME NEW T \in SUBSET Devices
               PROVE  /\ Cardinality(T) \in Nat /\ Cardinality(T) <= Cardinality(Devices)
                      /\ \A p \in T : Cardinality(T \ {p}) = Cardinality(T) - 1
    OBVIOUS
  <2>1. IsFiniteSet(T) /\ Cardinality(T) <= Cardinality(Devices)
    BY FS_Subset
  <2> QED BY <2>1, FS_CardinalityType, FS_RemoveElement
<1>2. Cardinality(Devices) \in Nat
  BY FS_CardinalityType
<1>3. ASSUME IInv, TypeOK', [Next]_vars, NEW i \in Initiators, Up(i),
             <<pc[i], todo[i]>>' # <<pc[i], todo[i]>>
      PROVE  StepsLeft(i)' < StepsLeft(i)
  <2> DEFINE n == Cardinality(todo[i])
             m == Cardinality(todo'[i])
  <2>1. StepsLeft(i) = Left(pc[i], n) /\ StepsLeft(i)' = Left(pc'[i], m)
    BY DEF StepsLeft, Left, Up
  <2>2. todo[i] \in SUBSET Devices /\ todo'[i] \in SUBSET Devices
    BY <1>3 DEF IInv, TypeOK, Devices
  <2>3. /\ n \in Nat /\ m \in Nat /\ m <= Cardinality(Devices)
        /\ \A p \in todo[i] : todo'[i] = todo[i] \ {p} => m = n - 1
        /\ todo'[i] = todo[i] => m = n
    BY <1>1, <2>2
  <2>4. pc[i] \in {"discover", "visit", "await_response", "await_token"}
    BY <1>3, RolesDisjoint DEF IInv, CallsGenuine, CallGenuine, Up, Waiting, Devices
  <2>5. Moves(i)
    BY <1>3, InitiatorsMove
  <2> HIDE DEF n, m
  <2> SUFFICES Left(pc'[i], m) < Left(pc[i], n)
    BY <2>1
  <2>6. CASE pc'[i] \in Ended
    BY <1>2, <2>3, <2>4, <2>6 DEF Left, Waiting, Ended
  <2>7. CASE pc[i] = "discover" /\ pc'[i] = "visit"
    BY <1>2, <2>3, <2>7 DEF Left, Waiting
  <2>8. CASE pc[i] = "visit" /\ pc'[i] \in {"visit", "await_response"} /\ m = n - 1
    BY <2>3, <2>8 DEF Left, Waiting
  <2>9. CASE pc[i] = "await_response" /\ pc'[i] \in {"visit", "await_token"} /\ m = n
    BY <2>3, <2>9 DEF Left, Waiting
  <2>10. CASE pc[i] = "await_token" /\ pc'[i] = "visit" /\ m = n
    BY <2>3, <2>10 DEF Left, Waiting
  <2> QED BY <2>3, <2>5, <2>6, <2>7, <2>8, <2>9, <2>10 DEF Moves
<1>4. IInv /\ IInv' /\ [Next]_vars =>
        [\A i \in Initiators :
           Up(i) /\ <<pc[i], todo[i]>>' # <<pc[i], todo[i]>> => StepsLeft(i)' < StepsLeft(i)]_vars
  BY <1>3 DEF IInv
<1> QED BY <1>4, Invariance, PTL DEF Spec, WorkShrinks

(***************************************************************************)
(* Refinement                                                              *)
(***************************************************************************)

\* The keys under which tokens are received are those of the abstract module.
LEMMA KeyShared ==
  ASSUME IInv, NEW r \in Responders, NEW i, NEW k,
         [by |-> r, with |-> i, key |-> k] \in sessions
  PROVE  i \in Initiators /\ k \in SessionKeys
<1> DEFINE x == [by |-> r, with |-> i, key |-> k]
           ei == k.pq.keypair
           er == k.pq.ciphertext.rand
<1>1. SessionGenuine(x) /\ x.by = r /\ x.with = i /\ x.key = k
  BY DEF IInv, SessionsGenuine
<1> HIDE DEF x
<1>2. i \in Initiators /\ ei \in Used(i) /\ er \in Used(r) /\ k = SharedKey(ei, er)
  BY <1>1, RolesDisjoint DEF SessionGenuine
<1>3. gen[i] \in 0..MaxEphemerals /\ gen[r] \in 0..MaxEphemerals
  BY <1>2 DEF IInv, TypeOK, Devices
<1>4. /\ ei \in Initiators \X (1..MaxEphemerals)
      /\ er \in Responders \X (1..MaxEphemerals)
  BY <1>2, <1>3, BoundsType DEF Used
<1> QED BY <1>2, <1>4 DEF SessionKeys

LEMMA InitiatorLearnsStep ==
  ASSUME IInv, NEW i \in Initiators, HandleToken(i)
  PROVE  [TX!Next]_<<trust, received>>
<1> DEFINE r == call[i].peer
           k == call[i].session_key
<1>1. i \in Devices /\ i \notin Responders /\ pc[i] = "await_token" /\ HasMail(i)
      /\ UNCHANGED trust
  BY RolesDisjoint DEF Devices, HandleToken
<1>2. CASE UNCHANGED received
  BY <1>1, <1>2
<1>3. CASE TokenOpens(Mail(i), k) /\ ReceiveToken(i, r, Mail(i))
  <2>1. /\ MutualTrust(i, r) /\ Mail(i).token.key = k /\ Mail(i).token.plaintext = r
        /\ [by |-> r, with |-> i, key |-> k] \in sessions
        /\ [by |-> i, with |-> r, key |-> k] \in sessions
        /\ r \in Responders => [by |-> r, with |-> i, key |-> k, token |-> i] \in received
    BY <1>1, <1>3, TokenFromPeer
  <2>2. r \in Responders
    <3> DEFINE x == [by |-> i, with |-> r, key |-> k]
    <3>1. SessionGenuine(x)
      BY <2>1 DEF IInv, SessionsGenuine
    <3> QED BY <1>1, <3>1 DEF SessionGenuine
  <2>3. k \in SessionKeys
    BY <2>1, <2>2, KeyShared
  <2>4. ~TX!Learned(i, k)
    BY <1>1 DEF IInv, CallsGenuine, CallGenuine, TX!Learned
  <2>5. received' = received \cup {[by |-> i, with |-> r, key |-> k, token |-> r]}
    BY <1>3, <2>1 DEF ReceiveToken
  <2>6. TX!MutualTrust(r, i)
    BY <2>1 DEF MutualTrust, TX!MutualTrust
  <2> HIDE DEF r, k
  <2>7. TX!InitiatorLearns(i, r, k)
    BY <1>1, <2>1, <2>2, <2>4, <2>5, <2>6 DEF TX!InitiatorLearns
  <2> QED BY <2>2, <2>3, <2>7 DEF TX!Next
<1> QED BY <1>2, <1>3 DEF HandleToken

LEMMA ResponderLearnsStep ==
  ASSUME IInv, NEW r \in Responders, RespondToken(r)
  PROVE  [TX!Next]_<<trust, received>>
<1> DEFINE i == call[r].peer
           k == call[r].session_key
<1>1. r \in Devices /\ pc[r] = "await_token" /\ HasMail(r) /\ UNCHANGED trust
  BY DEF Devices, RespondToken
<1>2. CASE UNCHANGED received
  BY <1>1, <1>2
<1>3. CASE TokenOpens(Mail(r), k) /\ ReceiveToken(r, i, Mail(r))
  <2>1. /\ MutualTrust(r, i) /\ Mail(r).token.key = k /\ Mail(r).token.plaintext = i
        /\ [by |-> r, with |-> i, key |-> k] \in sessions
    BY <1>1, <1>3, TokenFromPeer
  <2>2. i \in Initiators /\ k \in SessionKeys
    BY <2>1, KeyShared
  <2>3. ~TX!Learned(r, k)
    BY <1>1 DEF IInv, CallsGenuine, CallGenuine, TX!Learned
  <2>4. received' = received \cup {[by |-> r, with |-> i, key |-> k, token |-> i]}
    BY <1>3, <2>1 DEF ReceiveToken
  <2>5. TX!MutualTrust(r, i)
    BY <2>1 DEF MutualTrust, TX!MutualTrust
  <2> HIDE DEF i, k
  <2>6. TX!ResponderLearns(r, i, k)
    BY <1>1, <2>2, <2>3, <2>4, <2>5 DEF TX!ResponderLearns
  <2> QED BY <2>2, <2>6 DEF TX!Next
<1> QED BY <1>2, <1>3 DEF RespondToken

\* Proximity implements TokenExchange: each step of the protocol decrypts a
\* token as the abstract module allows, pairs, or leaves both alone.
THEOREM Refinement == Spec => ImplementsTokenExchange
<1>1. Init => TX!Init
  BY DEF Init, TX!Init
<1>2. IInv /\ [Next]_vars => [TX!Next]_<<trust, received>>
  <2> SUFFICES ASSUME IInv, [Next]_vars PROVE [TX!Next]_<<trust, received>>
    OBVIOUS
  <2>1. ASSUME NEW d \in Devices, NEW p \in Devices, SavePeer(d, p)
        PROVE  TX!Next
    BY <2>1 DEF SavePeer, TX!SavePeer, TX!Next, TX!Devices, Devices
  <2>2. ASSUME NEW i \in Initiators, HandleToken(i)
        PROVE  [TX!Next]_<<trust, received>>
    BY <2>2, InitiatorLearnsStep
  <2>3. ASSUME NEW r \in Responders, RespondToken(r)
        PROVE  [TX!Next]_<<trust, received>>
    BY <2>3, ResponderLearnsStep
  <2>4. \/ UNCHANGED <<trust, received>>
        \/ \E d, p \in Devices : SavePeer(d, p)
        \/ \E i \in Initiators : HandleToken(i)
        \/ \E r \in Responders : RespondToken(r)
    BY DEF Next, vars, Launch, Kill, AddService, Deliver, Garble, InitiatorStep, ResponderStep,
           Discover, DiscoverFails, SkipUnpaired, StartEncounter, HandleResponse, RejectResponse,
           ReceiveTimeout, Finish, RespondInitiate, RejectInitiate, Deadline, NegativeTimeout
  <2> QED BY <2>1, <2>2, <2>3, <2>4
<1> QED BY <1>1, <1>2, Invariance, PTL DEF Spec, ImplementsTokenExchange, TX!Spec

=============================================================================
