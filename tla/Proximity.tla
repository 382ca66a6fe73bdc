------------------------------ MODULE Proximity ------------------------------
(***************************************************************************)
(* Proximity encounters between devices: initiate_encounter and            *)
(* respond_to_encounter run by the loops of device_a and device_b over a   *)
(* Transport.  The code between two blocking receives is one action: a     *)
(* process shares nothing but its inbox, its peer table and its trust      *)
(* store with other threads, and reads each at most once in between.       *)
(***************************************************************************)
EXTENDS Integers, Sequences, FiniteSets, HybridCrypto

CONSTANTS
  Initiators,    \* devices that run device_a --proximity
  Responders,    \* devices that run device_b --proximity
  Identity,      \* Identity[d]: the generation of d's long-term keys
  Trust0,        \* Trust0[d][p]: the generation of p's key in d's store, 0 if none
  Pairable,      \* pairs <<d, p>> for which pairing may save p at d meanwhile
  Transports,    \* the names make_transport may be given
  MaxRuns,       \* bound: how often a device's process is launched
  MaxEphemerals  \* bound: how many ephemeral key pairs a device generates

Devices == Initiators \cup Responders

ASSUME RolesDisjoint == Initiators \cap Responders = {}
ASSUME IdentityType == Identity \in [Devices -> Nat \ {0}]
ASSUME Trust0Type == Trust0 \in [Devices -> [Devices -> Nat]]
ASSUME TransportsType == Transports \subseteq {"wifi", "ble"}
ASSUME BoundsType == MaxRuns \in Nat /\ MaxEphemerals \in Nat

VARIABLES
  transport, \* what every process is launched with: --transport
  trust,     \* each device's trust store (the file outlives the process)
  run,       \* how often each device was launched; names its listening port
  pc,        \* where each process is
  addr,      \* _peers: addr[d][p] is the run of p whose address d knows, or 0
  todo,      \* the discovered peers device_a's loop has not reached
  verdict,   \* what device_a logged about each peer
  call,      \* the locals of the encounter a process is in
  gen,       \* how many ephemeral key pairs each device has generated
  inbox,     \* _inbox: the messages receive() will return, in order
  net,       \* messages sent and not yet in an inbox; one that stays is lost
  sessions,  \* history: the session keys derived, by whom and for whom
  received   \* history: the tokens decrypted, by whom, under which key

vars == <<transport, trust, run, pc, addr, todo, verdict, call, gen, inbox, net,
          sessions, received>>

process == <<pc, todo, verdict, call>>   \* what only the process itself writes

Waiting == {"discover", "visit", "await_initiate", "await_response", "await_token"}
\* How a process ends: its loop finishes; kill -9; OSError from send,
\* ValueError from send, from parsing or decrypting, from a negative timeout;
\* device_b's break before its time; an exception from discover.
Ended == {"stopped", "killed", "refused", "unknown_peer", "bad_bytes",
          "bad_timeout", "gave_up", "no_discovery"}

Up(d) == pc[d] \in Waiting

NoCall == [peer |-> "none"]

(***************************************************************************)
(* Keys and messages                                                       *)
(***************************************************************************)

\* Mistake: a key made of the device ids, whatever key pairs they hold.
compute_long_term_key_of_ids(d, p, peer_record) == derive_shared_secret(<<d, 0>>, <<p, 0>>)

\* HKDF of the X25519 secret of d's own identity and the peer's key on record.
compute_long_term_key(d, p, peer_record) ==
  derive_shared_secret(<<d, Identity[d]>>, <<p, peer_record>>)

\* INITIATE carries the X25519 and the ML-KEM key of one ephemeral `eph`.
InitiateMessage(d, eph, ltk) ==
  [type |-> "INITIATE", device_id |-> d, ephemeral |-> eph,
   mac |-> hmac(ltk, <<d, eph>>)]

\* Mistake: the MAC does not cover the ciphertext.
ResponseMessageUncovered(d, eph, ciphertext, ltk) ==
  [type |-> "RESPONSE", device_id |-> d, ephemeral |-> eph,
   kem_ciphertext |-> ciphertext, mac |-> hmac(ltk, <<d, eph>>)]

ResponseMessage(d, eph, ciphertext, ltk) ==
  [type |-> "RESPONSE", device_id |-> d, ephemeral |-> eph,
   kem_ciphertext |-> ciphertext, mac |-> hmac(ltk, <<d, eph, ciphertext>>)]

\* Mistakes: a token in another device's name; key and plaintext swapped.
TokenMessageOfOther(d, key) ==
  [type |-> "TOKEN", token |-> encrypt(key, CHOOSE p \in Devices : p # d)]
TokenMessageSwapped(d, key) == [type |-> "TOKEN", token |-> encrypt(d, key)]

\* Each device's presence token names the device.
TokenMessage(d, key) == [type |-> "TOKEN", token |-> encrypt(key, d)]

\* What no code built.
Garbage == [type |-> "GARBAGE"]

\* Mistake: the MAC is not verified.
VerifiesInitiateNever(body, ltk) == body.type = "INITIATE"

\* A message of another type parsed as INITIATE or RESPONSE has a cut-off or
\* shifted mac field, so only one of the right type can verify.
VerifiesInitiate(body, ltk) ==
  body.type = "INITIATE" /\ body.mac = hmac(ltk, <<body.device_id, body.ephemeral>>)

VerifiesResponse(body, ltk) ==
  /\ body.type = "RESPONSE"
  /\ body.mac = hmac(ltk, <<body.device_id, body.ephemeral, body.kem_ciphertext>>)

\* Mistake: the token is taken without authentication.
TokenOpensAlways(body, key) == body.type = "TOKEN"

\* Anything but a token under the same key fails ASCON's authentication.
TokenOpens(body, key) == body.type = "TOKEN" /\ Decrypts(key, body.token)

(***************************************************************************)
(* The transport                                                           *)
(***************************************************************************)

\* A restarted process listens on another port; a BLE address stays.
Current(d, p) == transport = "ble" \/ addr[d][p] = run[p]

\* stop() closes the WiFi socket under a thread blocked in accept(), which
\* keeps listening until the process exits, for messages nobody will read.
Leaving(p) == transport = "wifi" /\ ~Up(p) /\ pc[p] # "killed"

Reachable(d, p) == Current(d, p) /\ (Up(p) \/ Leaving(p))

AnyPort == 0
Frame(d, p, port, body) == [to |-> p, port |-> port, sender |-> d, body |-> body]

SendOk(d, p, body) ==
  /\ addr[d][p] # 0 /\ Reachable(d, p)
  /\ net' = net \cup {Frame(d, p, run[p], body)}

\* BLE's result(timeout=20) gives up waiting without cancelling the write: it
\* may go on, or even connect later, to whichever run of p it then finds.
SendTimesOut(d, p, body) ==
  /\ addr[d][p] # 0
  /\ \/ UNCHANGED net
     \/ transport = "ble" /\ net' = net \cup {Frame(d, p, AnyPort, body)}

\* OSError or BleakError: nobody listens there, no route, the connection breaks.
\* Over BLE only the last chunk's acknowledgement may be what was lost.
SendRefused(d, p, body) ==
  /\ addr[d][p] # 0
  /\ \/ UNCHANGED net
     \/ transport = "ble" /\ net' = net \cup {Frame(d, p, run[p], body)}

SendUnknown(d, p) == addr[d][p] = 0 /\ UNCHANGED net

Arrives(f) == Up(f.to) /\ f.port \in {run[f.to], AnyPort}

\* Each WiFi message has a connection and a thread of its own, so messages
\* reach the inbox in any order.
Deliver(f) ==
  /\ Arrives(f)
  /\ net' = net \ {f}
  /\ inbox' = [inbox EXCEPT ![f.to] = Append(@, [sender |-> f.sender, body |-> f.body])]
  /\ UNCHANGED <<trust, transport, run, process, addr, gen, sessions, received>>

\* Over BLE a message whose chunks meet those of another, or half of another, in
\* the buffer is put together with it to something else; see BleTransport.
Garble(f, g) ==
  /\ transport = "ble"
  /\ f # g /\ f.to = g.to
  /\ Arrives(f) /\ Arrives(g)
  /\ net' = (net \ {f, g}) \cup {Frame(f.sender, f.to, f.port, Garbage)}
  /\ UNCHANGED <<trust, transport, run, process, addr, gen, inbox, sessions, received>>

\* A killed process never unregisters from mDNS.
Announced(p) == Up(p) \/ pc[p] = "killed"

\* d learns where p listens; remove_service forgets nothing.
AddService(d, p) ==
  /\ transport = "wifi"
  /\ d # p /\ Up(d) /\ Announced(p)
  /\ addr[d][p] # run[p]
  /\ addr' = [addr EXCEPT ![d][p] = run[p]]
  /\ UNCHANGED <<trust, transport, run, process, gen, inbox, net, sessions, received>>

(***************************************************************************)
(* A process's life                                                        *)
(***************************************************************************)
Launch(d) ==
  /\ ~Up(d) /\ run[d] < MaxRuns
  /\ run' = [run EXCEPT ![d] = @ + 1]
  /\ pc' = [pc EXCEPT ![d] = IF d \in Initiators THEN "discover" ELSE "await_initiate"]
  /\ addr' = [addr EXCEPT ![d] = [p \in Devices |-> 0]]
  /\ todo' = [todo EXCEPT ![d] = {}]
  /\ verdict' = [verdict EXCEPT ![d] = [p \in Devices |-> "none"]]
  /\ call' = [call EXCEPT ![d] = NoCall]
  /\ inbox' = [inbox EXCEPT ![d] = <<>>]
  /\ UNCHANGED <<trust, transport, gen, net, sessions, received>>

End(d, how) ==
  /\ pc' = [pc EXCEPT ![d] = how]
  /\ call' = [call EXCEPT ![d] = NoCall]
  /\ UNCHANGED verdict

Kill(d) ==
  /\ Up(d)
  /\ End(d, "killed")
  /\ UNCHANGED <<trust, transport, run, todo, addr, gen, inbox, net, sessions, received>>

\* Pairing, in another process, writes the store a running process reads.
SavePeer(d, p) ==
  /\ <<d, p>> \in Pairable
  /\ trust' = [trust EXCEPT ![d][p] = Identity[p]]
  /\ UNCHANGED <<transport, run, process, addr, gen, inbox, net, sessions, received>>

HasMail(d) == inbox[d] # <<>>
Mail(d) == Head(inbox[d]).body
TakeMail(d) == inbox' = [inbox EXCEPT ![d] = Tail(@)]

GoOn(d, to, locals) ==
  /\ pc' = [pc EXCEPT ![d] = to]
  /\ call' = [call EXCEPT ![d] = locals]
  /\ UNCHANGED verdict

DeriveSession(d, p, key) ==
  sessions' = sessions \cup {[by |-> d, with |-> p, key |-> key]}

ReceiveToken(d, p, body) ==
  received' = received \cup
    {[by |-> d, with |-> p, key |-> body.token.key, token |-> body.token.plaintext]}

\* Mistake: one ephemeral for all encounters.
NewEphemeralOnce(d) == <<d, 1>>

\* Both key pairs an encounter generates, under one name.
NewEphemeral(d) == <<d, gen[d] + 1>>

(***************************************************************************)
(* device_a: discover, then one initiate_encounter per discovered peer     *)
(***************************************************************************)
Discover(i) ==
  /\ pc[i] = "discover"
  /\ \/ /\ transport = "wifi"
        /\ todo' = [todo EXCEPT ![i] = {p \in Devices : addr[i][p] # 0}]
        /\ UNCHANGED addr
     \/ /\ transport = "ble"
        /\ \E found \in SUBSET {p \in Devices \ {i} : Up(p)} :
             /\ addr' = [addr EXCEPT ![i] = [p \in Devices |->
                                               IF p \in found THEN run[p] ELSE @[p]]]
             /\ todo' = [todo EXCEPT ![i] = found]
  /\ pc' = [pc EXCEPT ![i] = "visit"]
  /\ UNCHANGED <<trust, transport, run, verdict, call, gen, inbox, net, sessions, received>>

\* zeroconf's thread adds a peer while discover iterates (RuntimeError), or the
\* scan fails or takes too long: nothing catches it.
DiscoverFails(i) ==
  /\ pc[i] = "discover"
  /\ transport = "wifi" => \E p \in Devices \ {i} : addr[i][p] = 0 /\ Announced(p)
  /\ End(i, "no_discovery")
  /\ UNCHANGED <<trust, transport, run, todo, addr, gen, inbox, net, sessions, received>>

\* One iteration of the loop over the peers is over.
Conclude(i, p, v) ==
  /\ pc' = [pc EXCEPT ![i] = "visit"]
  /\ verdict' = [verdict EXCEPT ![i][p] = v]
  /\ call' = [call EXCEPT ![i] = NoCall]

\* A discovered peer is never unknown to send.
InitiatorSend(i, p, body, to, locals) ==
  \/ SendOk(i, p, body) /\ GoOn(i, to, locals)
  \/ SendTimesOut(i, p, body) /\ Conclude(i, p, "TIMEOUT")
  \/ SendRefused(i, p, body) /\ End(i, "refused")

SkipUnpaired(i, p) ==
  /\ pc[i] = "visit" /\ p \in todo[i]
  /\ trust[i][p] = 0
  /\ todo' = [todo EXCEPT ![i] = @ \ {p}]
  /\ Conclude(i, p, "SKIPPED")
  /\ UNCHANGED <<trust, transport, run, addr, gen, inbox, net, sessions, received>>

StartEncounter(i, p) ==
  LET ltk == compute_long_term_key(i, p, trust[i][p])
      eph == NewEphemeral(i)
  IN  /\ pc[i] = "visit" /\ p \in todo[i]
      /\ trust[i][p] # 0
      /\ todo' = [todo EXCEPT ![i] = @ \ {p}]
      /\ gen[i] < MaxEphemerals
      /\ gen' = [gen EXCEPT ![i] = @ + 1]
      /\ InitiatorSend(i, p, InitiateMessage(i, eph, ltk), "await_response",
                       [peer |-> p, long_term_key |-> ltk, ephemeral |-> eph])
      /\ UNCHANGED <<trust, transport, run, addr, inbox, sessions, received>>

\* The response's device_id is not compared with the peer's: the MAC decides.
HandleResponse(i) ==
  /\ pc[i] = "await_response" /\ HasMail(i)
  /\ VerifiesResponse(Mail(i), call[i].long_term_key)
  /\ TakeMail(i)
  /\ LET pq_secret == decapsulate(call[i].ephemeral, Mail(i).kem_ciphertext)
         shared_x == derive_shared_secret(call[i].ephemeral, Mail(i).ephemeral)
         key == combine_secrets(shared_x, pq_secret)
         p == call[i].peer
     IN  /\ DeriveSession(i, p, key)
         /\ InitiatorSend(i, p, TokenMessage(i, key), "await_token",
                          [peer |-> p, session_key |-> key])
  /\ UNCHANGED <<trust, transport, run, todo, addr, gen, received>>

\* The first byte of a token's nonce is taken for an id length: what follows
\* is not UTF-8 (ValueError), or it is and the MAC fails.
RejectResponse(i) ==
  /\ pc[i] = "await_response" /\ HasMail(i)
  /\ ~VerifiesResponse(Mail(i), call[i].long_term_key)
  /\ TakeMail(i)
  /\ \/ Conclude(i, call[i].peer, "REJECTED")
     \/ Mail(i).type \in {"TOKEN", "GARBAGE"} /\ End(i, "bad_bytes")
  /\ UNCHANGED <<trust, transport, run, todo, addr, gen, net, sessions, received>>

HandleToken(i) ==
  /\ pc[i] = "await_token" /\ i \in Initiators /\ HasMail(i)
  /\ TakeMail(i)
  /\ \/ /\ TokenOpens(Mail(i), call[i].session_key)
        /\ ReceiveToken(i, call[i].peer, Mail(i))
        /\ Conclude(i, call[i].peer, "ACCEPTED")
     \/ /\ ~TokenOpens(Mail(i), call[i].session_key)
        /\ End(i, "bad_bytes")
        /\ UNCHANGED received
  /\ UNCHANGED <<trust, transport, run, todo, addr, gen, net, sessions>>

\* Mistake: the second receive has no timeout.
ReceiveTimeoutOnce(i) ==
  /\ pc[i] = "await_response"
  /\ ~HasMail(i)
  /\ Conclude(i, call[i].peer, "TIMEOUT")
  /\ UNCHANGED <<trust, transport, run, todo, addr, gen, inbox, net, sessions, received>>

\* Mistake: a peer that did not answer in time is tried again.
ReceiveTimeoutRetries(i) ==
  /\ pc[i] \in {"await_response", "await_token"} /\ i \in Initiators
  /\ ~HasMail(i)
  /\ Conclude(i, call[i].peer, "TIMEOUT")
  /\ todo' = [todo EXCEPT ![i] = @ \cup {call[i].peer}]
  /\ UNCHANGED <<trust, transport, run, addr, gen, inbox, net, sessions, received>>

\* queue.get raises Empty only when the queue is empty.
ReceiveTimeout(i) ==
  /\ pc[i] \in {"await_response", "await_token"} /\ i \in Initiators
  /\ ~HasMail(i)
  /\ Conclude(i, call[i].peer, "TIMEOUT")
  /\ UNCHANGED <<trust, transport, run, todo, addr, gen, inbox, net, sessions, received>>

Finish(i) ==
  /\ pc[i] = "visit" /\ todo[i] = {}
  /\ End(i, "stopped")
  /\ UNCHANGED <<trust, transport, run, todo, addr, gen, inbox, net, sessions, received>>

(***************************************************************************)
(* device_b: respond_to_encounter until the deadline                       *)
(***************************************************************************)
ResponderSend(r, p, body, to, locals) ==
  \/ SendOk(r, p, body) /\ GoOn(r, to, locals)
  \/ SendTimesOut(r, p, body) /\ End(r, "gave_up")
  \/ SendRefused(r, p, body) /\ End(r, "refused")
  \/ SendUnknown(r, p) /\ End(r, "unknown_peer")

Authentic(r, body) ==
  /\ body.type \in {"INITIATE", "RESPONSE"}
  /\ trust[r][body.device_id] # 0
  /\ VerifiesInitiate(body,
       compute_long_term_key(r, body.device_id, trust[r][body.device_id]))

RespondInitiate(r) ==
  LET initiate == Mail(r)
      p == initiate.device_id
      ltk == compute_long_term_key(r, p, trust[r][p])
      eph == NewEphemeral(r)
      kem == encapsulate(initiate.ephemeral, eph)
      key == combine_secrets(derive_shared_secret(eph, initiate.ephemeral), kem.pq_secret)
  IN  /\ pc[r] = "await_initiate" /\ HasMail(r)
      /\ Authentic(r, initiate)
      /\ TakeMail(r)
      /\ gen[r] < MaxEphemerals
      /\ gen' = [gen EXCEPT ![r] = @ + 1]
      /\ DeriveSession(r, p, key)
      /\ ResponderSend(r, p, ResponseMessage(r, eph, kem.kem_ciphertext, ltk),
                       "await_token", [peer |-> p, session_key |-> key])
      /\ UNCHANGED <<trust, transport, run, todo, addr, received>>

\* UnpairedPeerError or AuthenticationFailedError: logged, and the loop goes
\* on.  A token parsed as INITIATE has an unknown id or is not UTF-8.
RejectInitiate(r) ==
  /\ pc[r] = "await_initiate" /\ HasMail(r)
  /\ ~Authentic(r, Mail(r))
  /\ TakeMail(r)
  /\ \/ GoOn(r, "await_initiate", NoCall)
     \/ Mail(r).type \in {"TOKEN", "GARBAGE"} /\ End(r, "bad_bytes")
  /\ UNCHANGED <<trust, transport, run, todo, addr, gen, net, sessions, received>>

RespondToken(r) ==
  /\ pc[r] = "await_token" /\ r \in Responders /\ HasMail(r)
  /\ TakeMail(r)
  /\ \/ /\ TokenOpens(Mail(r), call[r].session_key)
        /\ ReceiveToken(r, call[r].peer, Mail(r))
        /\ ResponderSend(r, call[r].peer, TokenMessage(r, call[r].session_key),
                         "await_initiate", NoCall)
     \/ /\ ~TokenOpens(Mail(r), call[r].session_key)
        /\ End(r, "bad_bytes")
        /\ UNCHANGED <<net, received>>
  /\ UNCHANGED <<trust, transport, run, todo, addr, gen, sessions>>

\* Mistake: the loop itself has no deadline.
DeadlineInsideOnly(r) ==
  /\ pc[r] = "await_token" /\ r \in Responders /\ ~HasMail(r)
  /\ End(r, "stopped")
  /\ UNCHANGED <<trust, transport, run, todo, addr, gen, inbox, net, sessions, received>>

\* The deadline passes: at the top of the loop, or with a receive's timeout.
Deadline(r) ==
  /\ \/ pc[r] = "await_initiate"
     \/ pc[r] = "await_token" /\ r \in Responders /\ ~HasMail(r)
  /\ End(r, "stopped")
  /\ UNCHANGED <<trust, transport, run, todo, addr, gen, inbox, net, sessions, received>>

\* The deadline passes between the loop's test and `remaining`: queue.get
\* raises ValueError on a negative timeout.
NegativeTimeout(r) ==
  /\ pc[r] = "await_initiate"
  /\ End(r, "bad_timeout")
  /\ UNCHANGED <<trust, transport, run, todo, addr, gen, inbox, net, sessions, received>>

(***************************************************************************)
(* The system                                                              *)
(***************************************************************************)
InitiatorStep(i) ==
  \/ Discover(i) \/ DiscoverFails(i)
  \/ \E p \in Devices : SkipUnpaired(i, p) \/ StartEncounter(i, p)
  \/ HandleResponse(i) \/ RejectResponse(i)
  \/ HandleToken(i)
  \/ ReceiveTimeout(i)
  \/ Finish(i)

ResponderStep(r) ==
  \/ RespondInitiate(r) \/ RejectInitiate(r)
  \/ RespondToken(r)
  \/ Deadline(r)

Init ==
  /\ transport \in Transports
  /\ trust = Trust0
  /\ run = [d \in Devices |-> 0]
  /\ pc = [d \in Devices |-> "stopped"]
  /\ addr = [d \in Devices |-> [p \in Devices |-> 0]]
  /\ todo = [d \in Devices |-> {}]
  /\ verdict = [d \in Devices |-> [p \in Devices |-> "none"]]
  /\ call = [d \in Devices |-> NoCall]
  /\ gen = [d \in Devices |-> 0]
  /\ inbox = [d \in Devices |-> <<>>]
  /\ net = {}
  /\ sessions = {}
  /\ received = {}

Next ==
  \/ \E d \in Devices : Launch(d) \/ Kill(d)
  \/ \E d, p \in Devices : AddService(d, p) \/ SavePeer(d, p)
  \/ \E f \in net : Deliver(f) \/ \E g \in net : Garble(f, g)
  \/ \E i \in Initiators : InitiatorStep(i)
  \/ \E r \in Responders : ResponderStep(r) \/ NegativeTimeout(r)

\* Processes run on, and timeouts and deadlines pass; no message need arrive.
Fairness ==
  /\ \A i \in Initiators : WF_vars(InitiatorStep(i))
  /\ \A r \in Responders : WF_vars(ResponderStep(r))

Spec == Init /\ [][Next]_vars
FairSpec == Spec /\ Fairness
=============================================================================
