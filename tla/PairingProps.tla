---------------------------- MODULE PairingProps ----------------------------
(***************************************************************************)
(* What pairing guarantees: the properties TLC checks and PairingProofs    *)
(* proves, and the inductive invariant behind them.                        *)
(***************************************************************************)
EXTENDS Pairing

KeyPair == Devices \X (1..MaxIdentities)
PeerRecord == [key : KeyPair, fingerprint : SUBSET KeyPair]
CiphertextType == [to : KeyPair, rand : KeyPair]
SecretType == [classical : SUBSET KeyPair,
               pq : [keypair : KeyPair, ciphertext : CiphertextType]]
ResponseType == [x25519_pub : KeyPair, kem_ciphertext : CiphertextType,
                 ciphertext : [key : SecretType, plaintext : KeyPair]]
Connection == [from : Scanners, state : {"open", "sent", "dead", "silent"}, message : ResponseType]
FileState == {Absent, Torn} \cup (1..MaxIdentities)

\* The type invariant.
PairingTypeOK ==
  /\ identity \in [Devices -> FileState]
  /\ qr \in [Devices -> FileState]
  /\ trust \in [Devices -> [Devices -> PeerRecord \cup {NoRecord}]]
  /\ store \in [Devices -> {Absent, Present, Torn}]
  /\ gens \in [Devices -> 0..MaxIdentities]
  /\ launches \in [Devices -> Nat] /\ \A d \in Devices : launches[d] <= MaxLaunches[d]
  /\ pc \in [Devices -> Idle \cup {"load", "create", "write_identity", "loaded", "write_qr", "listen",
                                   "accept", "recv", "connect", "send", "save"}]
  /\ mem \in [Devices -> 0..MaxIdentities]
  /\ peer \in [Devices -> PeerRecord \cup {NoRecord}]
  /\ conns \in [Displayers -> Seq(Connection)]
  /\ computed \subseteq [by : KeyPair, fingerprint : SUBSET KeyPair]
  /\ other \in [Devices -> {"idle", "create", "write", "empty"}]
  /\ otherMem \in [Devices -> 0..MaxIdentities]
  /\ replaced \subseteq Devices

\* "Both sides independently compute the same fingerprint": when device_a has
\* saved a peer, the peer computed this very number with the keys on record --
\* whatever connection was accepted first, and also when the QR code that was
\* scanned had become out of date.  (complete_pairing, cmd_pair)
SafetyNumbersAgree ==
  \A a \in Displayers, b \in Devices : trust[a][b] # NoRecord =>
    [by |-> trust[a][b].key, fingerprint |-> trust[a][b].fingerprint] \in computed

\* Every record names the identity its device still has, however processes
\* were killed around the writes of identity and QR code, until somebody
\* deletes that device's state or two of its processes create an identity at
\* once.  (load_or_create_identity)
HeldByItsIdentity ==
  \A d, p \in Devices : trust[d][p] # NoRecord /\ p \notin replaced =>
    trust[d][p].key = <<p, identity[p]>>

\* The generations of the keys on record as proximity programs see them (0: no
\* record), of devices with the identity they had first.
KeysOnRecord ==
  [d \in Devices |-> [p \in Devices |->
     IF trust[d][p] = NoRecord \/ {d, p} \cap replaced # {} THEN 0 ELSE trust[d][p].key[2]]]

PX == INSTANCE TokenExchange
        WITH Initiators <- Displayers, Responders <- Scanners, Pairable <- Devices \X Devices,
             Identity <- [d \in Devices |-> 1],
             Trust0 <- [d \in Devices |-> [p \in Devices |-> 0]],
             Key <- {}, trust <- KeysOnRecord, received <- {}

\* Whatever pairs, is killed or starts its proximity program, the trust stores
\* change only as encounters count on, by SavePeer of TokenExchange (and of
\* Proximity): one record is replaced by that peer's present key and all others
\* stay.  Not while an identity is deleted or overwritten, nor while a proximity
\* program that found no store is about to write an empty one -- one that finds
\* a store leaves it alone.  (save_peer at the end of either cmd_pair, TrustStore
\* in either cmd_proximity)
PlaysTokenExchange ==
  /\ PX!Init
  /\ [][UNCHANGED replaced /\ (\A d \in Devices : other[d] # "empty") =>
           [PX!Next]_KeysOnRecord]_vars

\* b is connected to a, before everyone else, having scanned the QR code of the
\* identity a runs with.
First(a, b) ==
  /\ conns[a] # <<>> /\ Head(conns[a]).from = b /\ Head(conns[a]).state = "open"
  /\ peer[b].key = Me(a)

\* The same after b has sent its response, which a has not read yet.
FirstSent(a, b) ==
  LET first == Head(conns[a]) IN
  /\ conns[a] # <<>> /\ first.from = b /\ first.state = "sent"
  /\ first.message = Response(first.message.x25519_pub, Me(a))

\* That very connection breaks before a has read the response.
Lost(a, b) ==
  conns[a] # <<>> /\ Head(conns[a]).from = b /\ Head(conns[a]).state \in {"dead", "silent"}

\* d cannot save: its store is torn, or its proximity program is about to write
\* an empty one.
CannotSave(d) == store[d] = Torn \/ other[d] = "empty"

\* Who is connected first is saved by the displayer, unless that connection
\* breaks, the displayer is killed or cannot save: a waits for as long as it
\* takes, whoever else connects, fails or waits in the backlog.
\* (accept without a timeout, recv_framed, complete_pairing, save_peer)
FirstIsPaired ==
  \A a \in Displayers, b \in Scanners :
    First(a, b) ~>
      \/ Lost(a, b) \/ pc[a] = "killed" \/ CannotSave(a)
      \/ pc[a] = "paired" /\ peer[a].key[1] = b

\* The first connection stays the first until both know the right key: b goes on
\* to save the key a runs with when it has sent its response, and a to save the
\* key b sent it.  Only the network, b's own failure or kill and a's kill come
\* in between: no other connection, no other scanner's failure and no late or
\* partial message costs the first one its pairing.
\* (accept, recv_framed and complete_pairing; connect and send_framed)
FirstIsKept ==
  [][\A a \in Displayers, b \in Scanners :
       LET broken == Lost(a, b)' /\ (UNCHANGED pc \/ pc'[b] \in {"failed", "killed"}) IN
       /\ First(a, b) =>
            \/ First(a, b)'
            \/ /\ FirstSent(a, b)' /\ Head(conns'[a]).message.x25519_pub = Me(b)
               /\ pc'[b] = "save" /\ peer'[b].key = Me(a)
            \/ broken \/ pc'[a] = "killed"
       /\ FirstSent(a, b) =>
            \/ FirstSent(a, b)' /\ Head(conns'[a]) = Head(conns[a])
            \/ pc'[a] = "save" /\ peer'[a].key = Head(conns[a]).message.x25519_pub
            \/ Lost(a, b)' /\ UNCHANGED pc
            \/ pc'[a] = "killed"]_vars

(***************************************************************************)
(* The inductive invariant                                                 *)
(***************************************************************************)
\* A key pair that left its device: it exists, and unless the device's identity
\* was replaced it is the one in its file.
Known(k) == k \in KeyPair /\ (k[1] \notin replaced => k[2] = identity[k[1]])

\* Unless it was replaced, a device's identity is the first and only one.
FirstIdentity ==
  \A d \in Devices :
    /\ identity[d] <= gens[d] /\ mem[d] <= gens[d] /\ otherMem[d] <= gens[d]
    /\ d \notin replaced => gens[d] = IF identity[d] = Absent THEN 0 ELSE 1

\* A process past load_or_create_identity runs with the identity in the file.
MemoryIsFile ==
  \A d \in Devices :
    Running(d) /\ pc[d] \notin {"load", "create", "write_identity"} =>
      mem[d] # Absent /\ (d \notin replaced => mem[d] = identity[d])

\* While an identity is written nobody knows it, and only one process writes.
WritingIsTorn ==
  \A d \in Devices :
    /\ pc[d] = "write_identity" =>
         mem[d] # Absent /\ (d \notin replaced => identity[d] = Torn /\ other[d] # "write")
    /\ other[d] = "write" =>
         otherMem[d] # Absent /\ (d \notin replaced => identity[d] = Torn)

RoleOf(d) ==
  /\ pc[d] \in {"write_qr", "listen", "accept", "recv"} => d \in Displayers
  /\ pc[d] \in {"connect", "send"} => d \in Scanners

KeysKnown ==
  /\ \A d \in Devices : qr[d] \notin {Absent, Torn} => Known(<<d, qr[d]>>)
  /\ \A d \in Devices : peer[d] # NoRecord => Known(peer[d].key)
  /\ \A d, p \in Devices : trust[d][p] # NoRecord =>
       trust[d][p].key[1] = p /\ Known(trust[d][p].key)
  /\ \A a \in Displayers : \A k \in 1..Len(conns[a]) : Known(conns[a][k].message.x25519_pub)

\* A process about to connect, to send or to save has something to save; what a
\* displayer saves, its peer computed.
PeersGenuine ==
  \A d \in Devices :
    /\ pc[d] \in {"connect", "send", "save"} => peer[d] # NoRecord
    /\ peer[d] # NoRecord /\ d \in Displayers =>
         [by |-> peer[d].key, fingerprint |-> peer[d].fingerprint] \in computed
    /\ pc[d] \in {"connect", "send"} =>
         [by |-> Me(d), fingerprint |-> compute_fingerprint(Me(d), peer[d].key)] \in computed

\* Every response was made by its sender for some QR code.
ConnectionsGenuine ==
  /\ \A a \in Displayers : \A k \in 1..Len(conns[a]) :
       \E mine, theirs \in KeyPair :
         /\ conns[a][k].message = Response(mine, theirs)
         /\ [by |-> mine, fingerprint |-> compute_fingerprint(mine, theirs)] \in computed
  /\ \A a \in Displayers : pc[a] = "recv" => conns[a] # <<>>

\* Only a listening displayer has connections, and who has an open one is about
\* to send its response over it.
OpenIsSending ==
  \A a \in Displayers :
    /\ conns[a] # <<>> => Listening(a)
    /\ \A b \in Scanners : \A k \in 1..Len(conns[a]) :
         conns[a][k].from = b /\ conns[a][k].state = "open" =>
           pc[b] = "send" /\ conns[a][k].message = Response(Me(b), peer[b].key)

\* TLC checks it on the instances of the runs; PairingProofs proves it.
PairingInv ==
  /\ PairingTypeOK
  /\ FirstIdentity /\ MemoryIsFile /\ WritingIsTorn
  /\ \A d \in Devices : RoleOf(d)
  /\ KeysKnown
  /\ PeersGenuine
  /\ ConnectionsGenuine /\ OpenIsSending
  /\ SafetyNumbersAgree
=============================================================================
