--------------------------- MODULE ProximityProps ---------------------------
(***************************************************************************)
(* What proximity encounters guarantee: the properties TLC checks and      *)
(* ProximityProofs proves, and the inductive invariant behind them.        *)
(***************************************************************************)
EXTENDS Proximity

(***************************************************************************)
(* Types                                                                   *)
(***************************************************************************)
\* The generations of long-term keys there are: held, or on record.
Generation == {0} \cup {Identity[d] : d \in Devices}
                  \cup UNION {{Trust0[d][p] : p \in Devices} : d \in Devices}
Ephemeral == Devices \X (1..MaxEphemerals)
CiphertextType == [to : Ephemeral, rand : Ephemeral]
SessionKey == [classical : SUBSET Ephemeral,
               pq : [keypair : Ephemeral, ciphertext : CiphertextType]]
LongTermKey == SUBSET (Devices \X Generation)
Body ==
  [type : {"INITIATE"}, device_id : Devices, ephemeral : Ephemeral,
   mac : [key : LongTermKey, parts : Devices \X Ephemeral]]
  \cup
  [type : {"RESPONSE"}, device_id : Devices, ephemeral : Ephemeral,
   kem_ciphertext : CiphertextType,
   mac : [key : LongTermKey, parts : Devices \X Ephemeral \X CiphertextType]]
  \cup
  [type : {"TOKEN"}, token : [key : SessionKey, plaintext : Devices]]
  \cup
  {Garbage}

Call ==
  {NoCall}
  \cup [peer : Devices, long_term_key : LongTermKey, ephemeral : Ephemeral]
  \cup [peer : Devices, session_key : SessionKey]
Verdict == {"none", "ACCEPTED", "SKIPPED", "REJECTED", "TIMEOUT"}
Letter == [sender : Devices, body : Body]
FrameType == [to : Devices, port : 0..MaxRuns, sender : Devices, body : Body]
Session == [by : Devices, with : Devices, key : SessionKey]
Receipt == [by : Devices, with : Devices, key : SessionKey, token : Devices]

\* The type invariant.
TypeOK ==
  /\ transport \in {"wifi", "ble"}
  /\ trust \in [Devices -> [Devices -> Generation]]
  /\ run \in [Devices -> 0..MaxRuns]
  /\ pc \in [Devices -> Waiting \cup Ended]
  /\ addr \in [Devices -> [Devices -> 0..MaxRuns]]
  /\ todo \in [Devices -> SUBSET Devices]
  /\ verdict \in [Devices -> [Devices -> Verdict]]
  /\ call \in [Devices -> Call]
  /\ gen \in [Devices -> 0..MaxEphemerals]
  /\ inbox \in [Devices -> Seq(Letter)]
  /\ net \subseteq FrameType
  /\ sessions \subseteq Session
  /\ received \subseteq Receipt

(***************************************************************************)
(* Properties of every run                                                 *)
(***************************************************************************)
\* Each device's record of the other names the key that the other now has.
MutualTrust(a, b) == trust[a][b] = Identity[b] /\ trust[b][a] = Identity[a]

\* "Rejected before any token is exchanged": only a device that holds the
\* peer's current key, and is held by it, is ever sent a RESPONSE or a TOKEN,
\* whatever records were missing, one-sided or stale and whenever they were
\* re-saved.  (respond_to_encounter's checks before its first send)
OnlyPairedPeersAnswered ==
  \A f \in net : f.body.type \in {"RESPONSE", "TOKEN"} => MutualTrust(f.sender, f.to)

\* When a responder accepts i, then i derived the same session key in an
\* encounter with this responder, and the token is the one i sent -- although
\* receive() correlates nothing and late messages of other encounters, peers
\* and runs reach the same inbox.  (respond_to_encounter's return value)
ResponderAgreement ==
  \A e \in received : e.by \in Responders =>
    /\ e.token = e.with
    /\ [by |-> e.with, with |-> e.by, key |-> e.key] \in sessions

\* When an initiator accepts r, then r has accepted the initiator's own token
\* under the same key: an acceptance is never one-sided on this side.
\* (initiate_encounter's return value)
InitiatorAgreement ==
  \A e \in received : e.by \in Initiators =>
    /\ e.token = e.with
    /\ [by |-> e.with, with |-> e.by, key |-> e.key, token |-> e.by] \in received

\* "Completely fresh": no encounter goes on under a session key that the device
\* derived before, whatever late or repeated messages it is made from.
\* (the ephemerals generated in each call of the two encounter functions)
NewKeyPerEncounter ==
  [][\A d \in Devices : pc[d] # "await_token" /\ pc'[d] = "await_token" =>
       \A s \in sessions : s.by = d => call'[d].session_key # s.key]_vars

\* Only a and b were launched so far, each once, and they are paired.
FirstMeeting(a, b) ==
  /\ Trust0[a][b] = Identity[b] /\ Trust0[b][a] = Identity[a]
  /\ \A d \in Devices : run[d] <= IF d \in {a, b} THEN 1 ELSE 0

\* As long as no process was launched again and no third device came near, two
\* paired devices never reject each other and take no message for another: an
\* encounter is accepted or runs into a timeout or a dead peer, whatever is lost,
\* late or sent by a send that gave up.  (the two encounter functions together)
NoFalseAlarm ==
  \A a \in Initiators, b \in Responders : FirstMeeting(a, b) =>
    /\ \A p \in Devices : verdict[a][p] \notin {"REJECTED", "SKIPPED"}
    /\ pc[a] # "bad_bytes" /\ pc[b] # "bad_bytes"

\* A session key belongs to one pair of devices: no third device ever derives
\* it, and neither of the two derives it for anyone else, also not from a late
\* RESPONSE, which any later encounter with that responder takes for its own.
\* (combine_secrets over ephemerals and the ML-KEM secret)
OnePairPerKey ==
  \A x, y \in sessions : x.key = y.key => x = y \/ (x.by = y.with /\ x.with = y.by)

\* No process waits for ever, neither both sides for each other nor one for a
\* peer that is gone.  (the timeouts given to receive)
Termination == \A d \in Devices : Up(d) ~> ~Up(d)

\* An upper bound of the steps device_a has left: three for each peer in its list.
StepsLeft(i) ==
  IF pc[i] = "discover" THEN 3 * Cardinality(Devices) + 2
  ELSE IF ~Up(i) THEN 0
  ELSE 3 * Cardinality(todo[i])
         + CASE pc[i] = "visit" -> 1 [] pc[i] = "await_token" -> 2 [] OTHER -> 3

\* Nothing that arrives, fails or is discovered meanwhile makes device_a's work
\* longer: no peer is visited twice and no receive repeated, so a launch ends
\* after that many receives and sends, each of which ends by its timeout.
\* (cmd_proximity's loop over peers, initiate_encounter)
WorkShrinks ==
  [][\A i \in Initiators :
       Up(i) /\ <<pc[i], todo[i]>>' # <<pc[i], todo[i]>> => StepsLeft(i)' < StepsLeft(i)]_vars

\* The abstract specification of token exchange.
SessionKeys == {SharedKey(ei, er) : ei \in Initiators \X (1..MaxEphemerals),
                                    er \in Responders \X (1..MaxEphemerals)}
TX == INSTANCE TokenExchange WITH Key <- SessionKeys

\* Every step that decrypts a token is one the abstract specification allows,
\* and no other step changes what was learned.
ImplementsTokenExchange == TX!Spec

(***************************************************************************)
(* The inductive invariant                                                 *)
(***************************************************************************)
Used(d) == {d} \X (1..gen[d])

\* A message s sent to t is what its type says: an INITIATE names an ephemeral
\* of s and is authenticated for the key s had on record for t; a RESPONSE and
\* a TOKEN only flow under mutual trust, and a TOKEN under a session key that
\* s derived for t -- a responder's only after it received t's.
Honest(s, t, body) ==
  /\ body.type = "INITIATE" =>
       /\ s \in Initiators
       /\ body.device_id = s
       /\ body.ephemeral \in Used(s)
       /\ \E k \in Generation :
            /\ body.mac.key = compute_long_term_key(s, t, k)
            /\ k = Identity[t] => trust[s][t] = Identity[t]
  /\ body.type = "RESPONSE" =>
       /\ s \in Responders /\ t \in Initiators
       /\ MutualTrust(s, t)
       /\ body.mac.key = compute_long_term_key(s, t, Identity[t])
       /\ body.ephemeral \in Used(s)
       /\ body.kem_ciphertext.to \in Used(t)
       /\ body.kem_ciphertext.rand = body.ephemeral
  /\ body.type = "TOKEN" =>
       /\ MutualTrust(s, t)
       /\ body.token.plaintext = s
       /\ [by |-> s, with |-> t, key |-> body.token.key] \in sessions
       /\ s \in Responders =>
            [by |-> s, with |-> t, key |-> body.token.key, token |-> t] \in received

MessagesHonest ==
  /\ \A f \in net : Honest(f.sender, f.to, f.body)
  /\ \A d \in Devices : \A j \in 1..Len(inbox[d]) :
       Honest(inbox[d][j].sender, d, inbox[d][j].body)

\* Session keys exist only under mutual trust; the ML-KEM part of each names
\* the initiator's ephemeral and the randomness of the responder's.
SessionGenuine(x) ==
  /\ MutualTrust(x.by, x.with)
  /\ \/ /\ x.by \in Initiators /\ x.with \in Responders
        /\ x.key.pq.keypair \in Used(x.by)
        /\ x.key.pq.ciphertext.rand \in Used(x.with)
     \/ /\ x.by \in Responders /\ x.with \in Initiators
        /\ x.key.pq.keypair \in Used(x.with)
        /\ x.key.pq.ciphertext.rand \in Used(x.by)
        /\ x.key = SharedKey(x.key.pq.keypair, x.key.pq.ciphertext.rand)

SessionsGenuine == \A x \in sessions : SessionGenuine(x)

\* The locals of a waiting process are those of the place it waits at.
CallTypedAt(d) ==
  /\ pc[d] = "await_response" =>
       call[d] \in [peer : Devices, long_term_key : LongTermKey, ephemeral : Ephemeral]
  /\ pc[d] = "await_token" => call[d] \in [peer : Devices, session_key : SessionKey]

CallTyped == \A d \in Devices : CallTypedAt(d)

\* While a process waits, its locals belong to the encounter it is in: its
\* ephemeral made no session yet, its session key received no token yet.
CallGenuine(d) ==
  /\ pc[d] \in {"discover", "visit", "await_response"} => d \in Initiators
  /\ pc[d] = "await_initiate" => d \in Responders
  /\ pc[d] = "await_response" =>
       /\ call[d].ephemeral \in Used(d)
       /\ \E k \in Generation : call[d].long_term_key = compute_long_term_key(d, call[d].peer, k)
       /\ \A x \in sessions : x.by = d => x.key.pq.keypair # call[d].ephemeral
  /\ pc[d] = "await_token" =>
       /\ [by |-> d, with |-> call[d].peer, key |-> call[d].session_key] \in sessions
       /\ \A e \in received : e.by = d => e.key # call[d].session_key

CallsGenuine == \A d \in Devices : CallGenuine(d)

ReceiptsGenuine ==
  \A e \in received : [by |-> e.by, with |-> e.with, key |-> e.key] \in sessions

\* TLC checks it on the instances of the runs; ProximityProofs proves it.
IInv ==
  /\ TypeOK
  /\ CallTyped
  /\ MessagesHonest
  /\ SessionsGenuine
  /\ CallsGenuine
  /\ ReceiptsGenuine
  /\ ResponderAgreement
  /\ InitiatorAgreement

\* Who was never launched does nothing and is known to nobody, and device_a's
\* loop visits only peers it can send to.
PeersWereUp ==
  /\ \A d \in Devices : run[d] = 0 => pc[d] = "stopped"
  /\ \A d, p \in Devices : addr[d][p] # 0 => p # d /\ run[p] # 0
  /\ \A d \in Devices : \A p \in todo[d] : addr[d][p] # 0

NoMail == \A d \in Devices : inbox[d] = <<>>

\* Nothing is on its way or unread but, perhaps, this one message from s to t.
Only(s, t, body) ==
  \/ net = {} /\ NoMail
  \/ NoMail /\ \E port \in 0..MaxRuns : net = {Frame(s, t, port, body)}
  \/ /\ net = {}
     /\ \A d \in Devices :
          inbox[d] = IF d = t THEN <<[sender |-> s, body |-> body]>> ELSE <<>>

\* The first n of the four messages of an encounter were made.  Each is made
\* only when the one before was read, so there is never more than one.
Stage(a, b, n) ==
  LET ltk == compute_long_term_key(a, b, Identity[b])
      ciphertext == Ciphertext(<<a, 1>>, <<b, 1>>)
      key == SharedKey(<<a, 1>>, <<b, 1>>)
  IN  /\ n = 0 => net = {} /\ NoMail /\ gen[a] = 0
      /\ n = 1 => Only(a, b, InitiateMessage(a, <<a, 1>>, ltk))
      /\ n = 2 => Only(b, a, ResponseMessage(b, <<b, 1>>, ciphertext, ltk))
      /\ n = 3 => Only(a, b, TokenMessage(a, key))
      /\ n = 4 => Only(b, a, TokenMessage(b, key))
      /\ n \in {0, 1} => gen[b] = 0
      /\ n # 0 => run[a] # 0 /\ run[b] # 0 /\ todo[a] = {} /\ pc[a] # "discover"
      /\ pc[a] = "await_response" =>
           /\ n \in {1, 2}
           /\ call[a] = [peer |-> b, long_term_key |-> ltk, ephemeral |-> <<a, 1>>]
      /\ pc[a] = "await_token" => n \in {3, 4} /\ call[a] = [peer |-> b, session_key |-> key]
      /\ pc[b] = "await_initiate" => n \in {0, 1, 4}
      /\ pc[b] = "await_token" => n \in {2, 3} /\ call[b] = [peer |-> a, session_key |-> key]

\* TLC checks it on the instances of the runs; MeetingProofs proves it.
MeetingInv ==
  /\ PeersWereUp
  /\ NoFalseAlarm
  /\ \A a \in Initiators, b \in Responders : FirstMeeting(a, b) =>
       /\ trust[a][b] = Identity[b] /\ trust[b][a] = Identity[a]
       /\ \E n \in 0..4 : Stage(a, b, n)

(***************************************************************************)
(* What the documentation says and the code does not do                    *)
(***************************************************************************)
\* "responding to any authenticated proximity encounter from a paired peer
\* (and rejecting anyone else) until --duration seconds pass": no message
\* ends the responder early.  (device_b.cmd_proximity)
ResponderSurvivesMessages == \A r \in Responders : pc[r] # "bad_bytes"

\* "Swap --transport wifi for --transport ble": a responder can answer over
\* BLE too.  (device_b.cmd_proximity never calls discover)
ResponderKnowsItsPeers == \A r \in Responders : pc[r] # "unknown_peer"

\* "Raised when a peer's MAC doesn't verify -- they don't hold the paired
\* long-term key": a peer reported as REJECTED does not.
RejectedPeersAreUnpaired ==
  \A i \in Initiators, p \in Devices :
    verdict[i][p] = "REJECTED" => ~MutualTrust(i, p)

\* "initiates [...] with each one that's already paired": when device_a has
\* ended by itself, it has tried every paired peer it discovered.
EveryPairedPeerTried ==
  \A i \in Initiators : ~Up(i) /\ pc[i] # "killed" =>
    \A p \in todo[i] : trust[i][p] = 0
=============================================================================
