---------------------------- MODULE MeetingProofs ----------------------------
(***************************************************************************)
(* Proofs that two paired devices that meet for the first time raise no    *)
(* false alarm, however the transport loses and delays their messages, for *)
(* any number of other devices that were not launched, any identities and  *)
(* any bounds; and that a session key belongs to one pair of devices.      *)
(***************************************************************************)
EXTENDS ProximityProofs

(***************************************************************************)
(* Who was never launched                                                  *)
(***************************************************************************)
LEMMA RunsGrow ==
  ASSUME TypeOK, [Next]_vars, NEW d \in Devices
  PROVE  run'[d] = run[d] \/ (Launch(d) /\ run'[d] = run[d] + 1)
<1>1. ASSUME NEW e \in Devices, Launch(e) PROVE run'[d] = run[d] \/ (Launch(d) /\ run'[d] = run[d] + 1)
  BY <1>1 DEF Launch, TypeOK
<1>2. CASE UNCHANGED run
  BY <1>2
<1>3. UNCHANGED run \/ \E e \in Devices : Launch(e)
  BY DEF Next, vars, process, Kill, AddService, SavePeer, Deliver, Garble, InitiatorStep,
         ResponderStep, Discover, DiscoverFails, SkipUnpaired, StartEncounter, HandleResponse,
         RejectResponse, HandleToken, ReceiveTimeout, Finish, RespondInitiate, RejectInitiate,
         RespondToken, Deadline, NegativeTimeout
<1> QED BY <1>1, <1>2, <1>3

\* A step of a launched process that learns, if any, addresses of launched ones.
LEMMA LaunchedStep ==
  ASSUME PeersWereUp, NEW a \in Devices, run[a] # 0, UNCHANGED run,
         \A d \in Devices \ {a} : pc'[d] = pc[d],
         \A d, p \in Devices :
           addr'[d][p] = addr[d][p] \/ (addr'[d][p] # 0 /\ p # d /\ run[p] # 0),
         \A d \in Devices : \A p \in todo'[d] : p \in todo[d] \/ addr'[d][p] # 0,
         \A d \in Devices : todo[d] \subseteq Devices
  PROVE  PeersWereUp'
BY DEF PeersWereUp

LEMMA NextPeersWereUp == TypeOK /\ TypeOK' /\ PeersWereUp /\ [Next]_vars => PeersWereUp'
<1> SUFFICES ASSUME TypeOK, TypeOK', PeersWereUp, [Next]_vars PROVE PeersWereUp'
  OBVIOUS
<1>1. ASSUME NEW d \in Devices, run[d] # 0 PROVE run'[d] # 0
  <2>1. run[d] \in Nat
    BY BoundsType DEF TypeOK
  <2>2. run'[d] = run[d] \/ run'[d] = run[d] + 1
    BY RunsGrow
  <2> QED BY <1>1, <2>1, <2>2
<1>2. ASSUME NEW d \in Devices, Launch(d) PROVE PeersWereUp'
  <2>1. run'[d] # 0
    BY <1>2, BoundsType DEF Launch, TypeOK
  <2> QED BY <1>1, <1>2, <2>1 DEF PeersWereUp, Launch, TypeOK
<1>3. ASSUME NEW d \in Devices, NEW p \in Devices, AddService(d, p) PROVE PeersWereUp'
  <2>1. run[p] # 0 /\ p # d
    BY <1>3 DEF AddService, Announced, Up, Waiting, PeersWereUp
  <2>2. /\ UNCHANGED <<run, pc, todo>>
        /\ \A e, q \in Devices : addr'[e][q] = IF e = d /\ q = p THEN run[p] ELSE addr[e][q]
    BY <1>3 DEF AddService, TypeOK, process
  <2>3. run[d] # 0 /\ \A e \in Devices : todo[e] \subseteq Devices
    BY <1>3 DEF AddService, Up, Waiting, PeersWereUp, TypeOK
  <2> QED BY <2>1, <2>2, <2>3, LaunchedStep
<1>4. ASSUME NEW i \in Initiators, Discover(i) PROVE PeersWereUp'
  <2>0. i \in Devices /\ run[i] # 0 /\ UNCHANGED run
    BY <1>4 DEF Discover, Devices, PeersWereUp
  <2>2. /\ \A d \in Devices \ {i} : pc'[d] = pc[d]
        /\ \A d \in Devices : todo[d] \subseteq Devices
    BY <1>4, <2>0 DEF Discover, TypeOK
  <2>1. CASE transport = "wifi"
    <3>1. UNCHANGED addr /\ todo' = [todo EXCEPT ![i] = {p \in Devices : addr[i][p] # 0}]
      BY <1>4, <2>1 DEF Discover
    <3>2. \A d \in Devices : \A p \in todo'[d] : p \in todo[d] \/ addr'[d][p] # 0
      BY <2>0, <3>1 DEF TypeOK
    <3> QED BY <2>0, <2>2, <3>1, <3>2, LaunchedStep
  <2>3. CASE transport = "ble"
    <3>1. PICK found \in SUBSET {p \in Devices \ {i} : Up(p)} :
              /\ addr' = [addr EXCEPT ![i] = [p \in Devices |->
                                                IF p \in found THEN run[p] ELSE addr[i][p]]]
              /\ todo' = [todo EXCEPT ![i] = found]
      BY <1>4, <2>3 DEF Discover
    <3>2. \A p \in found : p \in Devices /\ p # i /\ run[p] # 0
      BY DEF Up, Waiting, PeersWereUp
    <3>3. \A d, p \in Devices :
            addr'[d][p] = IF d = i /\ p \in found THEN run[p] ELSE addr[d][p]
      BY <2>0, <3>1 DEF TypeOK
    <3>4. \A d \in Devices : \A p \in todo'[d] : p \in todo[d] \/ addr'[d][p] # 0
      BY <2>0, <3>1, <3>2, <3>3 DEF TypeOK
    <3> QED BY <2>0, <2>2, <3>2, <3>3, <3>4, LaunchedStep
  <2> QED BY <2>1, <2>3 DEF TypeOK
\* The other steps are those of launched processes, which learn no address.
<1>5. ASSUME UNCHANGED <<run, addr>>, \A d \in Devices : todo'[d] \subseteq todo[d],
             \A d \in Devices : pc'[d] = pc[d] \/ pc[d] # "stopped"
      PROVE  PeersWereUp'
  BY <1>5 DEF PeersWereUp
<1>6. ASSUME NEW i \in Initiators, NEW p \in Devices, SkipUnpaired(i, p) \/ StartEncounter(i, p)
      PROVE  PeersWereUp'
  <2>1. i \in Devices /\ pc[i] = "visit" /\ UNCHANGED <<run, addr>>
        /\ todo' = [todo EXCEPT ![i] = todo[i] \ {p}]
    BY <1>6 DEF SkipUnpaired, StartEncounter, Devices
  <2>2. \A d \in Devices \ {i} : pc'[d] = pc[d]
    <3>1. CASE SkipUnpaired(i, p)
      BY <2>1, <3>1 DEF SkipUnpaired, Conclude, TypeOK
    <3>2. CASE StartEncounter(i, p)
      BY <2>1, <3>2, SendEffect DEF StartEncounter
    <3> QED BY <1>6, <3>1, <3>2
  <2>3. \A d \in Devices : todo'[d] \subseteq todo[d]
    BY <2>1 DEF TypeOK
  <2>4. \A d \in Devices : pc'[d] = pc[d] \/ pc[d] # "stopped"
    BY <2>1, <2>2
  <2> QED BY <1>5, <2>1, <2>3, <2>4
<1>7. ASSUME NEW i \in Initiators,
             DiscoverFails(i) \/ HandleResponse(i) \/ RejectResponse(i) \/ HandleToken(i)
               \/ ReceiveTimeout(i) \/ Finish(i)
      PROVE  PeersWereUp'
  <2>1. i \in Devices /\ pc[i] # "stopped" /\ UNCHANGED <<run, addr, todo>>
    BY <1>7 DEF DiscoverFails, HandleResponse, RejectResponse, HandleToken, ReceiveTimeout,
                Finish, Devices
  <2>2. \A d \in Devices \ {i} : pc'[d] = pc[d]
    <3>1. CASE HandleResponse(i)
      BY <2>1, <3>1, SendEffect DEF HandleResponse
    <3>2. CASE ~HandleResponse(i)
      BY <1>7, <2>1, <3>2 DEF DiscoverFails, RejectResponse, HandleToken, ReceiveTimeout,
                              Finish, Conclude, End, TypeOK
    <3> QED BY <3>1, <3>2
  <2>3. \A d \in Devices : pc'[d] = pc[d] \/ pc[d] # "stopped"
    BY <2>1, <2>2
  <2> QED BY <1>5, <2>1, <2>3
<1>8. ASSUME NEW r \in Responders,
             RespondInitiate(r) \/ RejectInitiate(r) \/ RespondToken(r) \/ Deadline(r)
               \/ NegativeTimeout(r)
      PROVE  PeersWereUp'
  <2>1. r \in Devices /\ pc[r] # "stopped" /\ UNCHANGED <<run, addr, todo>>
    BY <1>8 DEF RespondInitiate, RejectInitiate, RespondToken, Deadline, NegativeTimeout, Devices
  <2>2. \A d \in Devices \ {r} : pc'[d] = pc[d]
    <3>1. CASE RespondInitiate(r)
      BY <2>1, <3>1, SendEffect DEF RespondInitiate
    <3>2. CASE RespondToken(r)
      BY <2>1, <3>2, SendEffect DEF RespondToken, End, TypeOK
    <3>3. CASE RejectInitiate(r) \/ Deadline(r) \/ NegativeTimeout(r)
      BY <2>1, <3>3 DEF RejectInitiate, Deadline, NegativeTimeout, GoOn, End, TypeOK
    <3> QED BY <1>8, <3>1, <3>2, <3>3
  <2>3. \A d \in Devices : pc'[d] = pc[d] \/ pc[d] # "stopped"
    BY <2>1, <2>2
  <2> QED BY <1>5, <2>1, <2>3
<1>9. ASSUME NEW d \in Devices, Kill(d) PROVE PeersWereUp'
  <2>1. pc[d] # "stopped" /\ UNCHANGED <<run, addr, todo>> /\ \A e \in Devices \ {d} : pc'[e] = pc[e]
    BY <1>9 DEF Kill, Up, Waiting, End, TypeOK
  <2>2. \A e \in Devices : pc'[e] = pc[e] \/ pc[e] # "stopped"
    BY <2>1
  <2> QED BY <1>5, <2>1, <2>2
<1>10. CASE UNCHANGED <<run, addr, todo, pc>>
  BY <1>5, <1>10
<1>11. ASSUME NEW d \in Devices, NEW p \in Devices, SavePeer(d, p) PROVE PeersWereUp'
  BY <1>10, <1>11 DEF SavePeer, process
<1>12. ASSUME NEW f \in net, Deliver(f) \/ \E g \in net : Garble(f, g) PROVE PeersWereUp'
  BY <1>10, <1>12 DEF Deliver, Garble, process
<1>13. CASE UNCHANGED vars
  BY <1>10, <1>13 DEF vars
<1> QED BY <1>2, <1>3, <1>4, <1>6, <1>7, <1>8, <1>9, <1>11, <1>12, <1>13
        DEF Next, InitiatorStep, ResponderStep

(***************************************************************************)
(* The only message on its way                                             *)
(***************************************************************************)
\* Whatever is the only message stays it.
Kept == \A s, t \in Devices : \A body : Only(s, t, body) => Only(s, t, body)'

LEMMA MailUntouched ==
  ASSUME UNCHANGED <<net, inbox>>
  PROVE  Kept /\ (net = {} /\ NoMail => net' = {} /\ NoMail')
BY DEF Kept, Only, NoMail

LEMMA OnlyRead ==
  ASSUME TypeOK, NEW s \in Devices, NEW t \in Devices, NEW body, Only(s, t, body),
         NEW d \in Devices, HasMail(d)
  PROVE  d = t /\ Mail(d) = body /\ net = {} /\ (TakeMail(d) => NoMail')
<1>1. net = {} /\ \A e \in Devices :
        inbox[e] = IF e = t THEN <<[sender |-> s, body |-> body]>> ELSE <<>>
  BY DEF Only, NoMail, HasMail
<1>2. d = t /\ inbox[d] = <<[sender |-> s, body |-> body]>>
  BY <1>1 DEF HasMail
<1>3. Head(inbox[d]) = [sender |-> s, body |-> body] /\ Tail(inbox[d]) = <<>>
  BY <1>2
<1>4. ASSUME TakeMail(d) PROVE NoMail'
  BY <1>1, <1>2, <1>3, <1>4 DEF TakeMail, NoMail, TypeOK
<1> QED BY <1>1, <1>2, <1>3, <1>4 DEF Mail

LEMMA DeliverKeeps ==
  ASSUME TypeOK, NEW f \in net, Deliver(f)
  PROVE  Kept
<1> SUFFICES ASSUME NEW s \in Devices, NEW t \in Devices, NEW body, Only(s, t, body)
             PROVE  Only(s, t, body)'
  BY DEF Kept
<1>1. PICK port : NoMail /\ net = {Frame(s, t, port, body)}
  BY DEF Only
<1>2. f = Frame(s, t, port, body)
  BY <1>1
<1>3. f.to = t /\ f.sender = s /\ f.body = body
  BY <1>2 DEF Frame
<1>4. net' = {} /\ inbox' = [inbox EXCEPT ![t] = Append(inbox[t], [sender |-> s, body |-> body])]
  BY <1>1, <1>2, <1>3 DEF Deliver
<1> DEFINE letter == [sender |-> s, body |-> body]
<1> HIDE DEF letter
<1>7. inbox[t] = <<>> /\ Append(<<>>, letter) = <<letter>>
  BY <1>1 DEF NoMail
<1>8. inbox'[t] = <<letter>>
  <2>1. inbox' = [inbox EXCEPT ![t] = <<letter>>]
    BY <1>4, <1>7 DEF letter
  <2> QED BY <2>1 DEF TypeOK
<1>5. inbox'[t] = <<[sender |-> s, body |-> body]>>
  BY <1>8 DEF letter
<1>6. \A d \in Devices \ {t} : inbox'[d] = <<>>
  BY <1>1, <1>4 DEF NoMail, TypeOK
<1> QED BY <1>4, <1>5, <1>6 DEF Only

LEMMA NothingToGarble ==
  ASSUME NEW s, NEW t, NEW body, Only(s, t, body), NEW f \in net, NEW g \in net
  PROVE  ~Garble(f, g)
BY DEF Only, Garble

\* What is sent when nothing else is on its way is the only message.
LEMMA OnlySent ==
  ASSUME TypeOK, net = {}, NoMail', NEW d \in Devices, NEW p \in Devices, NEW body,
         NEW to, NEW locals,
         InitiatorSend(d, p, body, to, locals) \/ ResponderSend(d, p, body, to, locals)
  PROVE  Only(d, p, body)'
<1>1. net' = net \/ net' = net \cup {Frame(d, p, run[p], body)}
        \/ net' = net \cup {Frame(d, p, AnyPort, body)}
  BY DEF InitiatorSend, ResponderSend, SendOk, SendTimesOut, SendRefused, SendUnknown
<1>2. run[p] \in 0..MaxRuns /\ AnyPort \in 0..MaxRuns
  BY BoundsType DEF TypeOK, AnyPort
<1> QED BY <1>1, <1>2 DEF Only, NoMail

(***************************************************************************)
(* The stages of a first meeting                                           *)
(***************************************************************************)
LEMMA InitMeeting == Init => MeetingInv
<1> SUFFICES ASSUME Init PROVE MeetingInv
  OBVIOUS
<1>1. PeersWereUp
  BY DEF Init, PeersWereUp
<1>2. NoFalseAlarm
  BY DEF Init, NoFalseAlarm, Devices
<1>3. ASSUME NEW a \in Initiators, NEW b \in Responders PROVE Stage(a, b, 0)
  BY DEF Init, Stage, NoMail, Devices
<1>4. \A a \in Initiators, b \in Responders : FirstMeeting(a, b) =>
        /\ trust[a][b] = Identity[b] /\ trust[b][a] = Identity[a]
        /\ \E n \in 0..4 : Stage(a, b, n)
  BY <1>3 DEF Init, FirstMeeting
<1> QED BY <1>1, <1>2, <1>4 DEF MeetingInv

\* A step that makes no message keeps the stage.
LEMMA StageKept ==
  ASSUME NEW a \in Initiators, NEW b \in Responders, NEW n \in 0..4, Stage(a, b, n),
         Kept, net = {} /\ NoMail => net' = {} /\ NoMail',
         UNCHANGED gen, n # 0 => run'[a] # 0 /\ run'[b] # 0 /\ todo'[a] \subseteq todo[a],
         \/ pc'[a] = pc[a] /\ call'[a] = call[a]
         \/ pc'[a] \notin {"discover", "await_response", "await_token"},
         \/ pc'[b] = pc[b] /\ call'[b] = call[b]
         \/ pc'[b] \notin {"await_initiate", "await_token"}
  PROVE  Stage(a, b, n)'
<1> DEFINE ltk == compute_long_term_key(a, b, Identity[b])
           ciphertext == Ciphertext(<<a, 1>>, <<b, 1>>)
           key == SharedKey(<<a, 1>>, <<b, 1>>)
<1>1. a \in Devices /\ b \in Devices
  BY DEF Devices
<1>2. /\ n = 0 => net' = {} /\ NoMail' /\ gen'[a] = 0
      /\ n = 1 => Only(a, b, InitiateMessage(a, <<a, 1>>, ltk))'
      /\ n = 2 => Only(b, a, ResponseMessage(b, <<b, 1>>, ciphertext, ltk))'
      /\ n = 3 => Only(a, b, TokenMessage(a, key))'
      /\ n = 4 => Only(b, a, TokenMessage(b, key))'
  BY <1>1 DEF Stage, Kept
<1> HIDE DEF ltk, ciphertext, key
<1>3. /\ n \in {0, 1} => gen'[b] = 0
      /\ n # 0 => run'[a] # 0 /\ run'[b] # 0 /\ todo'[a] = {} /\ pc'[a] # "discover"
      /\ pc'[a] = "await_response" =>
           /\ n \in {1, 2}
           /\ call'[a] = [peer |-> b, long_term_key |-> ltk, ephemeral |-> <<a, 1>>]
      /\ pc'[a] = "await_token" => n \in {3, 4} /\ call'[a] = [peer |-> b, session_key |-> key]
      /\ pc'[b] = "await_initiate" => n \in {0, 1, 4}
      /\ pc'[b] = "await_token" => n \in {2, 3} /\ call'[b] = [peer |-> a, session_key |-> key]
  BY DEF Stage, ltk, key
<1> QED BY <1>2, <1>3 DEF Stage, ltk, ciphertext, key

(***************************************************************************)
(* The steps of a first meeting                                            *)
(***************************************************************************)
NoAlarm(a, b) ==
  /\ \A p \in Devices : verdict[a][p] \notin {"REJECTED", "SKIPPED"}
  /\ pc[a] # "bad_bytes" /\ pc[b] # "bad_bytes"

\* a and b are in the n-th stage of a meeting without an alarm.
Meeting(a, b, n) ==
  /\ TypeOK /\ PeersWereUp
  /\ FirstMeeting(a, b)
  /\ trust[a][b] = Identity[b] /\ trust[b][a] = Identity[a]
  /\ NoAlarm(a, b) /\ Stage(a, b, n)

\* A step took the meeting to a stage without an alarm.
MeetingGoesOn(a, b) == NoAlarm(a, b)' /\ \E m \in 0..4 : Stage(a, b, m)'

\* Nobody else does anything, and a knows of nobody else.
LEMMA OnlyTheTwo ==
  ASSUME NEW a \in Initiators, NEW b \in Responders, NEW n \in 0..4, Meeting(a, b, n)
  PROVE  /\ a \in Devices /\ b \in Devices /\ a # b
         /\ \A i \in Initiators : pc[i] # "stopped" => i = a /\ run[a] # 0
         /\ \A r \in Responders : pc[r] # "stopped" => r = b /\ run[b] # 0
         /\ \A p \in todo[a] : p = b /\ run[b] # 0 /\ n = 0
<1>1. a \in Devices /\ b \in Devices /\ a # b
  BY RolesDisjoint DEF Devices
<1>2. ASSUME NEW d \in Devices, run[d] # 0 PROVE d \in {a, b}
  <2>1. run[d] <= IF d \in {a, b} THEN 1 ELSE 0
    BY DEF Meeting, FirstMeeting
  <2>2. run[d] \in 0..MaxRuns
    BY DEF Meeting, TypeOK
  <2> QED BY <1>2, <2>1, <2>2, BoundsType
<1>3. \A d \in Devices : pc[d] # "stopped" => d \in {a, b} /\ run[d] # 0
  BY <1>2 DEF Meeting, PeersWereUp
<1>4. a \notin Responders /\ b \notin Initiators
  BY RolesDisjoint
<1>5. ASSUME NEW p \in todo[a] PROVE p = b /\ run[b] # 0 /\ n = 0
  <2>1. p \in Devices /\ addr[a][p] # 0
    BY <1>1 DEF Meeting, PeersWereUp, TypeOK
  <2>2. p # a /\ run[p] # 0
    BY <1>1, <2>1 DEF Meeting, PeersWereUp
  <2>3. n = 0
    BY DEF Meeting, Stage
  <2> QED BY <1>2, <2>1, <2>2, <2>3
<1> QED BY <1>1, <1>3, <1>4, <1>5 DEF Devices

\* The message that a device of the meeting reads is the one of its stage.
LEMMA TheMail ==
  ASSUME NEW a \in Initiators, NEW b \in Responders, NEW n \in 0..4, Meeting(a, b, n)
  PROVE  LET ltk == compute_long_term_key(a, b, Identity[b])
             ciphertext == Ciphertext(<<a, 1>>, <<b, 1>>)
             key == SharedKey(<<a, 1>>, <<b, 1>>)
         IN  /\ HasMail(a) => /\ net = {} /\ (TakeMail(a) => NoMail')
                              /\ \/ n = 2 /\ Mail(a) = ResponseMessage(b, <<b, 1>>, ciphertext, ltk)
                                 \/ n = 4 /\ Mail(a) = TokenMessage(b, key)
             /\ HasMail(b) => /\ net = {} /\ (TakeMail(b) => NoMail')
                              /\ \/ n = 1 /\ Mail(b) = InitiateMessage(a, <<a, 1>>, ltk)
                                 \/ n = 3 /\ Mail(b) = TokenMessage(a, key)
<1> DEFINE ltk == compute_long_term_key(a, b, Identity[b])
           ciphertext == Ciphertext(<<a, 1>>, <<b, 1>>)
           key == SharedKey(<<a, 1>>, <<b, 1>>)
           sent1 == InitiateMessage(a, <<a, 1>>, ltk)
           sent2 == ResponseMessage(b, <<b, 1>>, ciphertext, ltk)
           sent3 == TokenMessage(a, key)
           sent4 == TokenMessage(b, key)
<1>1. a \in Devices /\ b \in Devices /\ a # b /\ TypeOK
  BY OnlyTheTwo DEF Meeting
<1>2. /\ n = 0 => NoMail
      /\ n = 1 => Only(a, b, sent1)
      /\ n = 2 => Only(b, a, sent2)
      /\ n = 3 => Only(a, b, sent3)
      /\ n = 4 => Only(b, a, sent4)
  BY DEF Meeting, Stage
<1> HIDE DEF ltk, ciphertext, key, sent1, sent2, sent3, sent4
<1>3. n # 0 \/ (~HasMail(a) /\ ~HasMail(b))
  BY <1>1, <1>2 DEF NoMail, HasMail
<1>4. \A s, t, d \in Devices : \A body : Only(s, t, body) /\ HasMail(d) =>
        d = t /\ Mail(d) = body /\ net = {} /\ (TakeMail(d) => NoMail')
  BY <1>1, OnlyRead
<1>5. \A d \in {a, b} : HasMail(d) => net = {} /\ (TakeMail(d) => NoMail')
  BY <1>1, <1>2, <1>3, <1>4
<1>6. HasMail(a) => (n = 2 /\ Mail(a) = sent2) \/ (n = 4 /\ Mail(a) = sent4)
  BY <1>1, <1>2, <1>3, <1>4
<1>7. HasMail(b) => (n = 1 /\ Mail(b) = sent1) \/ (n = 3 /\ Mail(b) = sent3)
  BY <1>1, <1>2, <1>3, <1>4
<1> QED BY <1>5, <1>6, <1>7 DEF ltk, ciphertext, key, sent1, sent2, sent3, sent4

\* Both sides of the meeting compute the same long-term and session keys.
LEMMA MeetingKeys ==
  ASSUME NEW a, NEW b
  PROVE  /\ compute_long_term_key(b, a, Identity[a]) = compute_long_term_key(a, b, Identity[b])
         /\ combine_secrets(derive_shared_secret(<<a, 1>>, <<b, 1>>),
                            decapsulate(<<a, 1>>, Ciphertext(<<a, 1>>, <<b, 1>>)))
              = SharedKey(<<a, 1>>, <<b, 1>>)
         /\ encapsulate(<<a, 1>>, <<b, 1>>).kem_ciphertext = Ciphertext(<<a, 1>>, <<b, 1>>)
<1>1. {<<b, Identity[b]>>, <<a, Identity[a]>>} = {<<a, Identity[a]>>, <<b, Identity[b]>>}
  OBVIOUS
<1>2. {<<a, 1>>, <<b, 1>>} = {<<b, 1>>, <<a, 1>>}
  OBVIOUS
<1> QED BY <1>1, <1>2 DEF compute_long_term_key, derive_shared_secret, SharedKey, encapsulate

\* A step of one process that makes no message, does not begin to wait and
\* raises no alarm.
LEMMA QuietGoesOn ==
  ASSUME NEW a \in Initiators, NEW b \in Responders, NEW n \in 0..4, Meeting(a, b, n),
         Kept, net = {} /\ NoMail => net' = {} /\ NoMail',
         UNCHANGED <<run, gen>>, n # 0 => todo'[a] \subseteq todo[a],
         \/ pc'[a] = pc[a] /\ call'[a] = call[a]
         \/ pc'[a] \in {"visit"} \cup (Ended \ {"bad_bytes"}),
         \/ pc'[b] = pc[b] /\ call'[b] = call[b]
         \/ pc'[b] \in Ended \ {"bad_bytes"},
         \A p \in Devices : verdict'[a][p] \in {verdict[a][p], "TIMEOUT", "ACCEPTED"}
  PROVE  MeetingGoesOn(a, b)
<1>1. NoAlarm(a, b)'
  BY DEF Meeting, NoAlarm, Ended
<1>2. Stage(a, b, n)
  BY DEF Meeting
<1>3. n # 0 => run'[a] # 0 /\ run'[b] # 0 /\ todo'[a] \subseteq todo[a]
  BY <1>2 DEF Stage
<1>4. Stage(a, b, n)'
  BY <1>2, <1>3, StageKept DEF Ended
<1> QED BY <1>1, <1>4 DEF MeetingGoesOn

LEMMA StartEncounterGoesOn ==
  ASSUME NEW a \in Initiators, NEW b \in Responders, NEW n \in 0..4, Meeting(a, b, n),
         NEW i \in Initiators, NEW p \in Devices, StartEncounter(i, p)
  PROVE  MeetingGoesOn(a, b)
<1> DEFINE ltk == compute_long_term_key(a, b, Identity[b])
           body == InitiateMessage(a, <<a, 1>>, ltk)
           locals == [peer |-> b, long_term_key |-> ltk, ephemeral |-> <<a, 1>>]
<1>1. /\ a \in Devices /\ b \in Devices /\ a # b /\ TypeOK /\ Stage(a, b, n) /\ NoAlarm(a, b)
      /\ i = a /\ p = b /\ run[a] # 0 /\ run[b] # 0 /\ n = 0 /\ \A q \in todo[a] : q = b
  BY OnlyTheTwo DEF StartEncounter, Meeting
<1>2. net = {} /\ NoMail /\ gen[a] = 0 /\ gen[b] = 0
  BY <1>1 DEF Stage
<1>3. InitiatorSend(a, b, body, "await_response", locals)
  BY <1>1, <1>2 DEF StartEncounter, NewEphemeral, Meeting
<1>4. /\ UNCHANGED <<run, inbox>> /\ gen'[b] = 0 /\ todo'[a] = {}
  BY <1>1, <1>2 DEF StartEncounter, TypeOK
<1> HIDE DEF ltk, body, locals
<1>5. Only(a, b, body)'
  BY <1>1, <1>2, <1>3, <1>4, OnlySent DEF NoMail
<1>6. /\ pc'[b] = pc[b] /\ call'[b] = call[b]
      /\ \/ pc'[a] = "await_response" /\ call'[a] = locals
         \/ pc'[a] = "visit"
         \/ pc'[a] = "refused"
      /\ \A q \in Devices : verdict'[a][q] \in {verdict[a][q], "TIMEOUT"}
  BY <1>1, <1>3 DEF InitiatorSend, GoOn, Conclude, End, TypeOK
<1>7. NoAlarm(a, b)'
  BY <1>1, <1>6 DEF NoAlarm
<1>8. Stage(a, b, 1)'
  BY <1>1, <1>4, <1>5, <1>6 DEF Stage, body, locals, ltk
<1> QED BY <1>7, <1>8 DEF MeetingGoesOn

LEMMA HandleResponseGoesOn ==
  ASSUME NEW a \in Initiators, NEW b \in Responders, NEW n \in 0..4, Meeting(a, b, n),
         NEW i \in Initiators, HandleResponse(i)
  PROVE  MeetingGoesOn(a, b)
<1> DEFINE key == SharedKey(<<a, 1>>, <<b, 1>>)
           body == TokenMessage(a, key)
           locals == [peer |-> b, session_key |-> key]
<1>1. /\ a \in Devices /\ b \in Devices /\ a # b /\ TypeOK /\ Stage(a, b, n) /\ NoAlarm(a, b)
      /\ i = a /\ pc[a] = "await_response" /\ HasMail(a) /\ TakeMail(a)
  BY OnlyTheTwo DEF HandleResponse, Meeting
<1>2. /\ n = 2 /\ net = {} /\ NoMail'
      /\ Mail(a).ephemeral = <<b, 1>>
      /\ Mail(a).kem_ciphertext = Ciphertext(<<a, 1>>, <<b, 1>>)
      /\ call[a].ephemeral = <<a, 1>> /\ call[a].peer = b
  BY <1>1, TheMail DEF Stage, ResponseMessage
<1>3. InitiatorSend(a, b, body, "await_token", locals)
  BY <1>1, <1>2, MeetingKeys DEF HandleResponse
<1>4. UNCHANGED <<run, gen, todo>>
  BY <1>1 DEF HandleResponse
<1> HIDE DEF key, body, locals
<1>5. Only(a, b, body)'
  BY <1>1, <1>2, <1>3, OnlySent
<1>6. /\ pc'[b] = pc[b] /\ call'[b] = call[b]
      /\ \/ pc'[a] = "await_token" /\ call'[a] = locals
         \/ pc'[a] = "visit"
         \/ pc'[a] = "refused"
      /\ \A q \in Devices : verdict'[a][q] \in {verdict[a][q], "TIMEOUT"}
  BY <1>1, <1>3 DEF InitiatorSend, GoOn, Conclude, End, TypeOK
<1>7. NoAlarm(a, b)'
  BY <1>1, <1>6 DEF NoAlarm
<1>8. Stage(a, b, 3)'
  BY <1>1, <1>2, <1>4, <1>5, <1>6 DEF Stage, body, locals, key
<1> QED BY <1>7, <1>8 DEF MeetingGoesOn

LEMMA RespondInitiateGoesOn ==
  ASSUME NEW a \in Initiators, NEW b \in Responders, NEW n \in 0..4, Meeting(a, b, n),
         NEW r \in Responders, RespondInitiate(r)
  PROVE  MeetingGoesOn(a, b)
<1> DEFINE ltk == compute_long_term_key(a, b, Identity[b])
           key == SharedKey(<<a, 1>>, <<b, 1>>)
           body == ResponseMessage(b, <<b, 1>>, Ciphertext(<<a, 1>>, <<b, 1>>), ltk)
           locals == [peer |-> a, session_key |-> key]
<1>1. /\ a \in Devices /\ b \in Devices /\ a # b /\ TypeOK /\ Stage(a, b, n) /\ NoAlarm(a, b)
      /\ r = b /\ pc[b] = "await_initiate" /\ HasMail(b) /\ TakeMail(b)
  BY OnlyTheTwo DEF RespondInitiate, Meeting
<1>2. /\ n = 1 /\ net = {} /\ NoMail' /\ gen[b] = 0
      /\ Mail(b).device_id = a /\ Mail(b).ephemeral = <<a, 1>>
  BY <1>1, TheMail DEF Stage, InitiateMessage
<1>3. ResponderSend(b, a, body, "await_token", locals)
  <2>1. NewEphemeral(b) = <<b, 1>> /\ trust[b][a] = Identity[a]
    BY <1>2 DEF NewEphemeral, Meeting
  <2> QED BY <1>1, <1>2, <2>1, MeetingKeys DEF RespondInitiate, SharedKey
<1>4. UNCHANGED <<run, todo>>
  BY <1>1 DEF RespondInitiate
<1> HIDE DEF ltk, key, body, locals
<1>5. Only(b, a, body)'
  BY <1>1, <1>2, <1>3, OnlySent
<1>6. /\ pc'[a] = pc[a] /\ call'[a] = call[a] /\ UNCHANGED verdict
      /\ \/ pc'[b] = "await_token" /\ call'[b] = locals
         \/ pc'[b] \in {"gave_up", "refused", "unknown_peer"}
  BY <1>1, <1>3 DEF ResponderSend, GoOn, End, TypeOK
<1>7. NoAlarm(a, b)'
  BY <1>1, <1>6 DEF NoAlarm
<1>8. Stage(a, b, 2)'
  BY <1>1, <1>2, <1>4, <1>5, <1>6 DEF Stage, body, locals, key, ltk
<1> QED BY <1>7, <1>8 DEF MeetingGoesOn

LEMMA RespondTokenGoesOn ==
  ASSUME NEW a \in Initiators, NEW b \in Responders, NEW n \in 0..4, Meeting(a, b, n),
         NEW r \in Responders, RespondToken(r)
  PROVE  MeetingGoesOn(a, b)
<1> DEFINE key == SharedKey(<<a, 1>>, <<b, 1>>)
           body == TokenMessage(b, key)
<1>1. /\ a \in Devices /\ b \in Devices /\ a # b /\ TypeOK /\ Stage(a, b, n) /\ NoAlarm(a, b)
      /\ r = b /\ pc[b] = "await_token" /\ HasMail(b) /\ TakeMail(b)
  BY OnlyTheTwo DEF RespondToken, Meeting
<1>2. /\ n = 3 /\ net = {} /\ NoMail' /\ Mail(b) = TokenMessage(a, key)
      /\ call[b].session_key = key /\ call[b].peer = a
  BY <1>1, TheMail DEF Stage
<1>3. ResponderSend(b, a, body, "await_initiate", NoCall)
  <2>1. TokenOpens(Mail(b), call[b].session_key)
    BY <1>2 DEF TokenOpens, TokenMessage, encrypt, Decrypts
  <2> QED BY <1>1, <1>2, <2>1 DEF RespondToken
<1>4. UNCHANGED <<run, gen, todo>>
  BY <1>1 DEF RespondToken
<1> HIDE DEF key, body
<1>5. Only(b, a, body)'
  BY <1>1, <1>2, <1>3, OnlySent
<1>6. /\ pc'[a] = pc[a] /\ call'[a] = call[a] /\ UNCHANGED verdict
      /\ pc'[b] \in {"await_initiate", "gave_up", "refused", "unknown_peer"}
  BY <1>1, <1>3 DEF ResponderSend, GoOn, End, TypeOK
<1>7. NoAlarm(a, b)'
  BY <1>1, <1>6 DEF NoAlarm
<1>8. Stage(a, b, 4)'
  BY <1>1, <1>2, <1>4, <1>5, <1>6 DEF Stage, body, key
<1> QED BY <1>7, <1>8 DEF MeetingGoesOn

\* Each side takes the other's message for what it is.
LEMMA NoReject ==
  ASSUME NEW a \in Initiators, NEW b \in Responders, NEW n \in 0..4, Meeting(a, b, n)
  PROVE  /\ \A i \in Initiators : ~RejectResponse(i)
         /\ \A r \in Responders : ~RejectInitiate(r)
<1>1. /\ Stage(a, b, n)
      /\ trust[b][a] = Identity[a] /\ Identity[a] # 0
  BY OnlyTheTwo, IdentityType DEF Meeting
<1>2. ASSUME NEW i \in Initiators, RejectResponse(i) PROVE FALSE
  <2>1. i = a /\ pc[a] = "await_response" /\ HasMail(a)
    BY <1>2, OnlyTheTwo DEF RejectResponse
  <2>2. VerifiesResponse(Mail(a), call[a].long_term_key)
    BY <1>1, <2>1, TheMail DEF Stage, VerifiesResponse, ResponseMessage
  <2> QED BY <1>2, <2>1, <2>2 DEF RejectResponse
<1>3. ASSUME NEW r \in Responders, RejectInitiate(r) PROVE FALSE
  <2>1. r = b /\ pc[b] = "await_initiate" /\ HasMail(b)
    BY <1>3, OnlyTheTwo DEF RejectInitiate
  <2>2. Mail(b) = InitiateMessage(a, <<a, 1>>, compute_long_term_key(a, b, Identity[b]))
    BY <1>1, <2>1, TheMail DEF Stage
  <2>3. Mail(b) = InitiateMessage(a, <<a, 1>>, compute_long_term_key(b, a, trust[b][a]))
    BY <1>1, <2>2, MeetingKeys
  <2>4. Authentic(b, Mail(b))
    BY <1>1, <2>3 DEF Authentic, VerifiesInitiate, InitiateMessage
  <2> QED BY <1>3, <2>1, <2>4 DEF RejectInitiate
<1> QED BY <1>2, <1>3

LEMMA HandleTokenGoesOn ==
  ASSUME NEW a \in Initiators, NEW b \in Responders, NEW n \in 0..4, Meeting(a, b, n),
         NEW i \in Initiators, HandleToken(i)
  PROVE  MeetingGoesOn(a, b)
<1>1. /\ a \in Devices /\ b \in Devices /\ a # b /\ TypeOK /\ Stage(a, b, n)
      /\ i = a /\ pc[a] = "await_token" /\ HasMail(a) /\ TakeMail(a)
  BY OnlyTheTwo DEF HandleToken, Meeting
<1>2. /\ n = 4 /\ net = {} /\ NoMail'
      /\ Mail(a) = TokenMessage(b, SharedKey(<<a, 1>>, <<b, 1>>))
      /\ call[a].session_key = SharedKey(<<a, 1>>, <<b, 1>>)
  BY <1>1, TheMail DEF Stage
<1>3. TokenOpens(Mail(a), call[a].session_key)
  BY <1>2 DEF TokenOpens, TokenMessage, encrypt, Decrypts
<1>4. Conclude(a, call[a].peer, "ACCEPTED") /\ UNCHANGED <<run, gen, todo, net>>
  BY <1>1, <1>3 DEF HandleToken
<1>5. Kept
  BY <1>2, <1>4 DEF Kept, Only
<1>6. /\ pc'[a] = "visit" /\ pc'[b] = pc[b] /\ call'[b] = call[b]
      /\ \A p \in Devices : verdict'[a][p] \in {verdict[a][p], "ACCEPTED"}
  BY <1>1, <1>4 DEF Conclude, TypeOK
<1> QED BY <1>2, <1>4, <1>5, <1>6, QuietGoesOn

\* The steps that only end a process or an encounter.
LEMMA EndGoesOn ==
  ASSUME NEW a \in Initiators, NEW b \in Responders, NEW n \in 0..4, Meeting(a, b, n),
         NEW d \in {a, b}, UNCHANGED <<run, gen, todo, net, inbox>>,
         \/ \E how \in Ended \ {"bad_bytes"} : End(d, how)
         \/ d = a /\ \E p : Conclude(a, p, "TIMEOUT")
  PROVE  MeetingGoesOn(a, b)
<1>1. a \in Devices /\ b \in Devices /\ a # b /\ TypeOK
  BY OnlyTheTwo DEF Meeting
<1>2. /\ \/ pc'[a] = pc[a] /\ call'[a] = call[a]
         \/ pc'[a] \in {"visit"} \cup (Ended \ {"bad_bytes"})
      /\ \/ pc'[b] = pc[b] /\ call'[b] = call[b]
         \/ pc'[b] \in Ended \ {"bad_bytes"}
      /\ \A p \in Devices : verdict'[a][p] \in {verdict[a][p], "TIMEOUT"}
  <2>1. ASSUME NEW how \in Ended \ {"bad_bytes"}, End(d, how)
        PROVE  /\ pc'[d] = how /\ UNCHANGED verdict
               /\ \A e \in {a, b} \ {d} : pc'[e] = pc[e] /\ call'[e] = call[e]
    BY <1>1, <2>1 DEF End, TypeOK
  <2>2. ASSUME NEW p, d = a, Conclude(a, p, "TIMEOUT")
        PROVE  /\ pc'[a] = "visit" /\ pc'[b] = pc[b] /\ call'[b] = call[b]
               /\ \A q \in Devices : verdict'[a][q] \in {verdict[a][q], "TIMEOUT"}
    BY <1>1, <2>2 DEF Conclude, TypeOK
  <2> QED BY <1>1, <2>1, <2>2
<1> QED BY <1>2, MailUntouched, QuietGoesOn

LEMMA LaunchGoesOn ==
  ASSUME NEW a \in Initiators, NEW b \in Responders, NEW n \in 0..4, Meeting(a, b, n),
         NEW d \in Devices, Launch(d), FirstMeeting(a, b)'
  PROVE  MeetingGoesOn(a, b)
<1>1. a \in Devices /\ b \in Devices /\ a # b /\ TypeOK /\ Stage(a, b, n) /\ NoAlarm(a, b)
  BY OnlyTheTwo DEF Meeting
<1>2. run[d] \in Nat /\ run'[d] = run[d] + 1
  BY <1>1, BoundsType DEF Launch, TypeOK
<1>3. d \in {a, b} /\ run[d] = 0
  BY <1>2 DEF FirstMeeting
<1>4. n = 0 /\ net = {} /\ NoMail /\ gen[a] = 0 /\ gen[b] = 0
  BY <1>1, <1>3 DEF Stage
<1>5. net' = {} /\ NoMail' /\ gen'[a] = 0 /\ gen'[b] = 0
  BY <1>1, <1>4 DEF Launch, NoMail, TypeOK
<1>6. \A e \in Initiators : e \notin Responders
  BY RolesDisjoint
<1>7. /\ pc'[a] \in {pc[a], "discover"} /\ pc'[b] \in {pc[b], "await_initiate"}
      /\ \A p \in Devices : verdict'[a][p] \in {verdict[a][p], "none"}
  BY <1>1, <1>3, <1>6 DEF Launch, TypeOK
<1>8. NoAlarm(a, b)'
  BY <1>1, <1>7 DEF NoAlarm
<1>9. Stage(a, b, 0)'
  BY <1>1, <1>4, <1>5, <1>7 DEF Stage
<1> QED BY <1>8, <1>9 DEF MeetingGoesOn

LEMMA DiscoverGoesOn ==
  ASSUME NEW a \in Initiators, NEW b \in Responders, NEW n \in 0..4, Meeting(a, b, n),
         NEW i \in Initiators, Discover(i)
  PROVE  MeetingGoesOn(a, b)
<1>1. a \in Devices /\ b \in Devices /\ a # b /\ TypeOK /\ Stage(a, b, n)
      /\ i = a /\ pc[a] = "discover"
  BY OnlyTheTwo DEF Discover, Meeting
<1>2. n = 0
  BY <1>1 DEF Stage
<1>3. pc'[a] = "visit" /\ pc'[b] = pc[b] /\ UNCHANGED <<run, gen, net, inbox, call, verdict>>
  BY <1>1 DEF Discover, TypeOK
<1> QED BY <1>2, <1>3, MailUntouched, QuietGoesOn

LEMMA MeetingStep ==
  ASSUME NEW a \in Initiators, NEW b \in Responders, NEW n \in 0..4, Meeting(a, b, n),
         [Next]_vars, FirstMeeting(a, b)'
  PROVE  MeetingGoesOn(a, b)
<1>1. /\ a \in Devices /\ b \in Devices /\ a # b /\ TypeOK /\ Stage(a, b, n)
      /\ trust[a][b] = Identity[b] /\ Identity[b] # 0
  BY OnlyTheTwo, IdentityType DEF Meeting
<1>2. ASSUME UNCHANGED <<run, pc, todo, verdict, call, gen, net, inbox>>
      PROVE  MeetingGoesOn(a, b)
  BY <1>2, MailUntouched, QuietGoesOn
<1>3. ASSUME NEW d \in Devices, Launch(d) PROVE MeetingGoesOn(a, b)
  BY <1>3, LaunchGoesOn
<1>4. ASSUME NEW d \in Devices, Kill(d) PROVE MeetingGoesOn(a, b)
  <2>1. d \in {a, b}
    BY <1>4, OnlyTheTwo DEF Kill, Up, Waiting, Devices
  <2> QED BY <1>4, <2>1, EndGoesOn DEF Kill, Ended
<1>5. ASSUME NEW f \in net, Deliver(f) PROVE MeetingGoesOn(a, b)
  <2>1. Kept
    BY <1>1, <1>5, DeliverKeeps
  <2>2. UNCHANGED <<run, pc, todo, verdict, call, gen>>
    BY <1>5 DEF Deliver, process
  <2> QED BY <2>1, <2>2, QuietGoesOn
<1>6. ASSUME NEW f \in net, NEW g \in net, Garble(f, g) PROVE FALSE
  <2>1. n = 0 \/ \E s, t, body : Only(s, t, body)
    BY <1>1 DEF Stage
  <2> QED BY <1>1, <1>6, <2>1, NothingToGarble DEF Stage
<1>7. ASSUME NEW i \in Initiators, NEW p \in Devices, SkipUnpaired(i, p) PROVE FALSE
  <2>1. i = a /\ p = b
    BY <1>7, OnlyTheTwo DEF SkipUnpaired
  <2> QED BY <1>1, <1>7, <2>1 DEF SkipUnpaired
<1>8. ASSUME NEW i \in Initiators, DiscoverFails(i) \/ ReceiveTimeout(i) \/ Finish(i)
      PROVE  MeetingGoesOn(a, b)
  <2>1. i = a
    BY <1>8, OnlyTheTwo DEF DiscoverFails, ReceiveTimeout, Finish
  <2>2. /\ UNCHANGED <<run, gen, todo, net, inbox>>
        /\ \/ \E how \in Ended \ {"bad_bytes"} : End(i, how)
           \/ \E p : Conclude(i, p, "TIMEOUT")
    BY <1>8 DEF DiscoverFails, ReceiveTimeout, Finish, Ended
  <2> QED BY <2>1, <2>2, EndGoesOn
<1>9. ASSUME NEW r \in Responders, Deadline(r) \/ NegativeTimeout(r) PROVE MeetingGoesOn(a, b)
  <2>1. r = b
    BY <1>9, OnlyTheTwo DEF Deadline, NegativeTimeout
  <2>2. UNCHANGED <<run, gen, todo, net, inbox>> /\ \E how \in Ended \ {"bad_bytes"} : End(r, how)
    BY <1>9 DEF Deadline, NegativeTimeout, Ended
  <2> QED BY <2>1, <2>2, EndGoesOn
<1>10. ASSUME NEW i \in Initiators, InitiatorStep(i) PROVE MeetingGoesOn(a, b)
  BY <1>7, <1>8, <1>10, DiscoverGoesOn, StartEncounterGoesOn, HandleResponseGoesOn, NoReject,
     HandleTokenGoesOn DEF InitiatorStep
<1>11. ASSUME NEW r \in Responders, ResponderStep(r) PROVE MeetingGoesOn(a, b)
  BY <1>9, <1>11, RespondInitiateGoesOn, NoReject, RespondTokenGoesOn DEF ResponderStep
<1>12. ASSUME NEW d \in Devices, NEW p \in Devices, AddService(d, p) \/ SavePeer(d, p)
       PROVE  MeetingGoesOn(a, b)
  BY <1>2, <1>12 DEF AddService, SavePeer, process
<1>13. CASE UNCHANGED vars
  BY <1>2, <1>13 DEF vars
<1> QED BY <1>3, <1>4, <1>5, <1>6, <1>9, <1>10, <1>11, <1>12, <1>13 DEF Next

LEMMA NextMeeting == TypeOK /\ TypeOK' /\ MeetingInv /\ [Next]_vars => MeetingInv'
<1> SUFFICES ASSUME TypeOK, TypeOK', MeetingInv, [Next]_vars PROVE MeetingInv'
  OBVIOUS
<1>1. PeersWereUp'
  BY NextPeersWereUp DEF MeetingInv
<1>2. ASSUME NEW a \in Initiators, NEW b \in Responders, FirstMeeting(a, b)'
      PROVE  /\ NoAlarm(a, b)'
             /\ trust'[a][b] = Identity[b] /\ trust'[b][a] = Identity[a]
             /\ \E n \in 0..4 : Stage(a, b, n)'
  <2>1. a \in Devices /\ b \in Devices
    BY DEF Devices
  <2>2. FirstMeeting(a, b)
    <3>1. \A d \in Devices : run[d] \in Nat /\ (run'[d] = run[d] \/ run'[d] = run[d] + 1)
      BY RunsGrow, BoundsType DEF TypeOK
    <3>2. ASSUME NEW d \in Devices PROVE run[d] <= IF d \in {a, b} THEN 1 ELSE 0
      BY <1>2, <3>1 DEF FirstMeeting
    <3> QED BY <1>2, <3>2 DEF FirstMeeting
  <2>3. PICK n \in 0..4 : Meeting(a, b, n)
    BY <2>2 DEF MeetingInv, Meeting, NoFalseAlarm, NoAlarm
  <2>4. MeetingGoesOn(a, b)
    BY <1>2, <2>3, MeetingStep
  <2>5. trust'[a][b] = Identity[b] /\ trust'[b][a] = Identity[a]
    BY <2>1, <2>3, NextGrows DEF Meeting, Grows
  <2> QED BY <2>4, <2>5 DEF MeetingGoesOn
<1> QED BY <1>1, <1>2 DEF MeetingInv, NoFalseAlarm, NoAlarm

\* At every point of a first meeting its four messages are made one at a time,
\* each from the one before, and both sides compute the same keys.
THEOREM MeetingInvariance == Spec => []MeetingInv
<1>1. Init => MeetingInv
  BY InitMeeting
<1>2. IInv /\ IInv' /\ MeetingInv /\ [Next]_vars => MeetingInv'
  BY NextMeeting DEF IInv
<1> QED BY <1>1, <1>2, Invariance, PTL DEF Spec

\* Two paired devices that meet for the first time never reject each other and
\* take no message for another, whatever is lost, late or sent by a send that
\* gave up, over either transport.
THEOREM NoAlarmAtFirstMeeting == Spec => []NoFalseAlarm
<1>1. MeetingInv => NoFalseAlarm
  BY DEF MeetingInv
<1> QED BY <1>1, MeetingInvariance, PTL

(***************************************************************************)
(* Whose a session key is                                                  *)
(***************************************************************************)
LEMMA KeyNamesPair ==
  ASSUME SessionsGenuine, NEW x \in sessions
  PROVE  \/ /\ x.by \in Initiators /\ x.with \in Responders
            /\ x.key.pq.keypair[1] = x.by /\ x.key.pq.ciphertext.rand[1] = x.with
         \/ /\ x.by \in Responders /\ x.with \in Initiators
            /\ x.key.pq.keypair[1] = x.with /\ x.key.pq.ciphertext.rand[1] = x.by
<1>1. SessionGenuine(x)
  BY DEF SessionsGenuine
<1>2. \A d, e : e \in Used(d) => e[1] = d
  BY DEF Used
<1> QED BY <1>1, <1>2 DEF SessionGenuine

\* A session key names the pair that derives it, whatever late RESPONSE an
\* initiator takes it from.
THEOREM KeysAreOfOnePair == Spec => []OnePairPerKey
<1>1. ASSUME IInv PROVE OnePairPerKey
  <2> SUFFICES ASSUME NEW x \in sessions, NEW y \in sessions, x.key = y.key
               PROVE  x = y \/ (x.by = y.with /\ x.with = y.by)
    BY DEF OnePairPerKey
  <2>1. SessionsGenuine /\ x \in Session /\ y \in Session
    BY <1>1 DEF IInv, TypeOK
  <2>2. \/ x.by = y.by /\ x.with = y.with
        \/ x.by = y.with /\ x.with = y.by
    BY <2>1, KeyNamesPair, RolesDisjoint
  <2>3. x.by = y.by /\ x.with = y.with => x = y
    BY <2>1 DEF Session
  <2> QED BY <2>2, <2>3
<1> QED BY <1>1, Invariance, PTL
=============================================================================
