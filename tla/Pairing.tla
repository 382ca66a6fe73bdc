------------------------------- MODULE Pairing -------------------------------
(***************************************************************************)
(* QR pairing: cmd_pair of device_a (displays a QR code and waits for one  *)
(* connection) and of device_b (scans, connects and sends), with the files *)
(* of their state directories.  One process pairs per device at a time; it *)
(* may be killed between any two steps, which leaves its files as they are.*)
(* The device's proximity program may be started in another process, and   *)
(* the network may drop a connection at any time.                          *)
(* A key pair is <<d, n>>, the n-th identity generated by device d.        *)
(***************************************************************************)
EXTENDS Integers, Sequences, HybridCrypto

CONSTANTS
  Displayers,     \* devices that run device_a --pair
  Scanners,       \* devices that run device_b --pair
  Bystanders,     \* devices that also run their proximity program
  Backlog,        \* bound: connections a displayer holds, the accepted one included
  MaxLaunches,    \* bound: how often each device's process is launched
  MaxIdentities   \* bound: how many identities a device generates

Devices == Displayers \cup Scanners

ASSUME PairingRoles == Displayers \cap Scanners = {}
ASSUME PairingBystanders == Bystanders \subseteq Devices
ASSUME PairingBounds ==
  Backlog \in Nat /\ MaxLaunches \in [Devices -> Nat] /\ MaxIdentities \in Nat

VARIABLES
  identity,   \* identity.json: the n of the identity in it, Absent or Torn
  qr,         \* qr.png: the n of the displayer's key pair in it, Absent or Torn
  trust,      \* trust_store.json: trust[d][p] is d's record of p
  store,      \* whether there is such a file: Absent, Present or Torn
  gens,       \* how many identities each device has generated
  launches,   \* how often each device's process was launched
  pc,         \* where each process is
  mem,        \* the identity in a process's memory
  peer,       \* what a process is about to save
  conns,      \* a displayer's connections, the one it accepts first at the head
  computed,   \* history: the fingerprints respond_to_qr returned, and for whom
  other,      \* where the proximity program is before it starts its transport
  otherMem,   \* the identity it has generated
  replaced    \* history: the devices whose identity was deleted or overwritten

vars == <<identity, qr, trust, store, gens, launches, pc, mem, peer, conns, computed,
          other, otherMem, replaced>>

stores == <<trust, store>>
files == <<identity, qr, stores, replaced>>
others == <<other, otherMem>>

Absent == 0
Torn == -1
Present == 1
NoRecord == [key |-> "none"]
NoRecords == [p \in Devices |-> NoRecord]
Idle == {"idle", "paired", "failed", "killed"}
Running(d) == pc[d] \notin Idle
Listening(a) == pc[a] \in {"accept", "recv"}

Goto(d, l) == pc' = [pc EXCEPT ![d] = l]
Me(d) == <<d, mem[d]>>

(***************************************************************************)
(* Messages                                                                *)
(***************************************************************************)
\* Mistake: only the peer's keys are hashed.
compute_fingerprint_of_peer(mine, theirs) == {theirs}

\* A hash of both devices' ids and keys, sorted by id, so it does not depend
\* on who computes it (for different ids).
compute_fingerprint(mine, theirs) == {mine, theirs}

Record(mine, theirs) ==
  [key |-> theirs, fingerprint |-> compute_fingerprint(mine, theirs)]

\* X25519 and ML-KEM against the key pair in the QR code; what is random in the
\* encapsulation is named by the sender.
ResponseKey(mine, theirs) ==
  combine_secrets(derive_shared_secret(mine, theirs), encapsulate(theirs, mine).pq_secret)

Response(mine, theirs) ==
  [x25519_pub |-> mine,
   kem_ciphertext |-> encapsulate(theirs, mine).kem_ciphertext,
   ciphertext |-> encrypt(ResponseKey(mine, theirs), mine)]

\* Mistake: the payload is taken without authentication.
CompletesAlways(mine, message) == message.ciphertext.plaintext = message.x25519_pub

\* complete_pairing raises ValueError unless this holds.
Completes(mine, message) ==
  /\ Decrypts(combine_secrets(derive_shared_secret(mine, message.x25519_pub),
                              decapsulate(mine, message.kem_ciphertext)),
              message.ciphertext)
  /\ message.ciphertext.plaintext = message.x25519_pub

(***************************************************************************)
(* A process's life                                                        *)
(***************************************************************************)
\* d's open connection in a queue (there is never more than one) changes state.
Marked(queue, d, state) ==
  [k \in 1..Len(queue) |->
     IF queue[k].from = d /\ queue[k].state = "open"
     THEN [from |-> d, state |-> state, message |-> queue[k].message] ELSE queue[k]]

\* The network drops a connection, also one whose message is under way: the
\* displayer's recv raises, or never hears of it and goes on waiting.
Break(a, k) ==
  /\ k \in 1..Len(conns[a]) /\ conns[a][k].state \in {"open", "sent"}
  /\ \E state \in {"dead", "silent"} : conns' = [conns EXCEPT ![a][k].state = state]
  /\ UNCHANGED <<files, others, gens, launches, pc, mem, peer, computed>>

\* The sockets of d close: its own connection breaks unless the message is sent
\* already, and those to it are gone.
HangUp(d) ==
  conns' = [a \in Displayers |-> IF a = d THEN <<>> ELSE Marked(conns[a], d, "dead")]

End(d, how) == Goto(d, how) /\ HangUp(d)

Launch(d) ==
  /\ ~Running(d) /\ launches[d] < MaxLaunches[d]
  /\ launches' = [launches EXCEPT ![d] = @ + 1]
  /\ Goto(d, "load")
  /\ peer' = [peer EXCEPT ![d] = NoRecord]
  /\ UNCHANGED <<files, others, gens, mem, conns, computed>>

Kill(d) ==
  /\ Running(d)
  /\ End(d, "killed")
  /\ UNCHANGED <<files, others, gens, launches, mem, peer, computed>>

\* The user deletes the state directory of a device that is not running.
Wipe(d) ==
  /\ ~Running(d) /\ other[d] = "idle" /\ identity[d] # Absent /\ gens[d] < MaxIdentities
  /\ identity' = [identity EXCEPT ![d] = Absent]
  /\ qr' = [qr EXCEPT ![d] = Absent]
  /\ trust' = [trust EXCEPT ![d] = NoRecords]
  /\ store' = [store EXCEPT ![d] = Absent]
  /\ replaced' = replaced \cup {d}
  /\ UNCHANGED <<others, gens, launches, pc, mem, peer, conns, computed>>

(***************************************************************************)
(* load_or_create_identity                                                 *)
(***************************************************************************)
LoadIdentity(d) ==
  /\ pc[d] = "load"
  /\ \/ /\ identity[d] \notin {Absent, Torn}
        /\ mem' = [mem EXCEPT ![d] = identity[d]]
        /\ Goto(d, "loaded")
     \/ /\ identity[d] = Torn        \* json.loads raises ValueError
        /\ Goto(d, "failed")
        /\ UNCHANGED mem
     \/ /\ identity[d] = Absent
        /\ Goto(d, "create")
        /\ UNCHANGED mem
  /\ UNCHANGED <<files, others, gens, launches, peer, conns, computed>>

\* write_text first empties the file, whatever is in it by now ...
Emptied(d) ==
  /\ identity' = [identity EXCEPT ![d] = Torn]
  /\ replaced' = IF identity[d] = Absent THEN replaced ELSE replaced \cup {d}

\* Mistake: the identity is returned and never saved.
CreateIdentityUnsaved(d) ==
  /\ pc[d] = "create"
  /\ gens[d] < MaxIdentities
  /\ gens' = [gens EXCEPT ![d] = @ + 1]
  /\ mem' = [mem EXCEPT ![d] = gens[d] + 1]
  /\ Goto(d, "loaded")
  /\ UNCHANGED <<files, others, launches, peer, conns, computed>>

CreateIdentity(d) ==
  /\ pc[d] = "create"
  /\ gens[d] < MaxIdentities
  /\ gens' = [gens EXCEPT ![d] = @ + 1]
  /\ mem' = [mem EXCEPT ![d] = gens[d] + 1]
  /\ Emptied(d)
  /\ Goto(d, "write_identity")
  /\ UNCHANGED <<qr, stores, others, launches, peer, conns, computed>>

\* ... and then fills it.
WriteIdentity(d) ==
  /\ pc[d] = "write_identity"
  /\ identity' = [identity EXCEPT ![d] = mem[d]]
  /\ Goto(d, "loaded")
  /\ UNCHANGED <<qr, stores, replaced, others, gens, launches, mem, peer, conns, computed>>

\* It ends, or has its files and goes on.
OtherGone(d) ==
  /\ other' = [other EXCEPT ![d] = "idle"]
  /\ otherMem' = [otherMem EXCEPT ![d] = Absent]

\* The constructor of its TrustStore looks whether there is one.
LooksForStore(d) ==
  \/ store[d] # Absent /\ OtherGone(d)
  \/ /\ store[d] = Absent
     /\ other' = [other EXCEPT ![d] = "empty"]
     /\ otherMem' = [otherMem EXCEPT ![d] = Absent]

\* The same in the proximity program ...
OtherLoads(d) ==
  /\ d \in Bystanders /\ other[d] = "idle"
  /\ \/ /\ identity[d] = Absent
        /\ other' = [other EXCEPT ![d] = "create"]
        /\ UNCHANGED otherMem
     \/ identity[d] \notin {Absent, Torn} /\ LooksForStore(d)
  /\ UNCHANGED <<files, gens, launches, pc, mem, peer, conns, computed>>

OtherCreates(d) ==
  /\ other[d] = "create" /\ gens[d] < MaxIdentities
  /\ gens' = [gens EXCEPT ![d] = @ + 1]
  /\ otherMem' = [otherMem EXCEPT ![d] = gens[d] + 1]
  /\ Emptied(d)
  /\ other' = [other EXCEPT ![d] = "write"]
  /\ UNCHANGED <<qr, stores, launches, pc, mem, peer, conns, computed>>

OtherWrites(d) ==
  /\ other[d] = "write"
  /\ identity' = [identity EXCEPT ![d] = otherMem[d]]
  /\ LooksForStore(d)
  /\ UNCHANGED <<qr, stores, replaced, gens, launches, pc, mem, peer, conns, computed>>

\* The whole store is replaced by these records, or by what nobody can read.
Puts(d, records) ==
  /\ trust' = [trust EXCEPT ![d] = records]
  /\ store' = [store EXCEPT ![d] = Present]

Tears(d) ==
  /\ trust' = [trust EXCEPT ![d] = NoRecords]
  /\ store' = [store EXCEPT ![d] = Torn]

\* ... and if there was none writes {}, whatever has been saved by now.  With a
\* save_peer meanwhile, the two write one temporary file: what is moved into
\* place may be both, and who comes second finds it gone.
OtherEmpties(d) ==
  /\ other[d] = "empty"
  /\ \/ Puts(d, NoRecords)
     \/ (store[d] # Absent \/ pc[d] = "save") /\ (Tears(d) \/ UNCHANGED stores)
  /\ OtherGone(d)
  /\ UNCHANGED <<identity, qr, replaced, gens, launches, pc, mem, peer, conns, computed>>

\* It may be killed at any point.
OtherEnds(d) ==
  /\ other[d] # "idle"
  /\ OtherGone(d)
  /\ UNCHANGED <<files, gens, launches, pc, mem, peer, conns, computed>>

(***************************************************************************)
(* device_a                                                                *)
(***************************************************************************)
\* save_qr opens the image file, empty, and writes it.
OpenQR(a) ==
  /\ a \in Displayers /\ pc[a] = "loaded"
  /\ qr' = [qr EXCEPT ![a] = Torn]
  /\ Goto(a, "write_qr")
  /\ UNCHANGED <<identity, stores, replaced, others, gens, launches, mem, peer, conns, computed>>

WriteQR(a) ==
  /\ pc[a] = "write_qr"
  /\ qr' = [qr EXCEPT ![a] = mem[a]]
  /\ Goto(a, "listen")
  /\ UNCHANGED <<identity, stores, replaced, others, gens, launches, mem, peer, conns, computed>>

Listen(a) ==
  /\ pc[a] = "listen"
  /\ Goto(a, "accept")
  /\ UNCHANGED <<files, others, gens, launches, mem, peer, conns, computed>>

\* accept blocks until somebody connects; it has no timeout.
Accept(a) ==
  /\ pc[a] = "accept" /\ conns[a] # <<>>
  /\ Goto(a, "recv")
  /\ UNCHANGED <<files, others, gens, launches, mem, peer, conns, computed>>

\* Mistake: one recv, which returns what has arrived so far.
CompletePairingEager(a) ==
  /\ pc[a] = "recv"
  /\ LET first == Head(conns[a]) IN
     \/ /\ first.state = "sent" /\ Completes(Me(a), first.message)
        /\ peer' = [peer EXCEPT ![a] = Record(Me(a), first.message.ciphertext.plaintext)]
        /\ End(a, "save")
     \/ /\ ~(first.state = "sent" /\ Completes(Me(a), first.message))
        /\ End(a, "failed")
        /\ UNCHANGED peer
  /\ UNCHANGED <<files, others, gens, launches, mem, computed>>

\* recv_framed blocks until the whole response is there (or the connection is
\* closed: ConnectionError), without a timeout; the server socket is closed and
\* everyone still in the backlog with it; complete_pairing.
CompletePairing(a) ==
  /\ pc[a] = "recv"
  /\ LET first == Head(conns[a]) IN
     \/ /\ first.state = "sent" /\ Completes(Me(a), first.message)
        /\ peer' = [peer EXCEPT ![a] = Record(Me(a), first.message.ciphertext.plaintext)]
        /\ End(a, "save")
     \/ /\ first.state = "sent" => ~Completes(Me(a), first.message)
        /\ first.state \notin {"open", "silent"}
        /\ End(a, "failed")
        /\ UNCHANGED peer
  /\ UNCHANGED <<files, others, gens, launches, mem, computed>>

(***************************************************************************)
(* device_b                                                                *)
(***************************************************************************)
\* respond_to_qr computes what b will send to a and save about it.
respond_to_qr(b, a) ==
  LET record == Record(Me(b), <<a, qr[a]>>) IN
  /\ qr[a] \notin {Absent, Torn}
  /\ peer' = [peer EXCEPT ![b] = record]
  /\ computed' = computed \cup {[by |-> Me(b), fingerprint |-> record.fingerprint]}
  /\ Goto(b, "connect")

SeesNothing(b) == Goto(b, "failed") /\ UNCHANGED <<peer, computed>>

\* FileNotFoundError, or ValueError where there is no QR code in the image.
scan_image_file(b) ==
  \E a \in Displayers :
    \/ respond_to_qr(b, a)
    \/ qr[a] \in {Absent, Torn} /\ SeesNothing(b)

\* The first QR code among so many frames, or TimeoutError.
scan_webcam(b) == SeesNothing(b) \/ \E a \in Displayers : respond_to_qr(b, a)

Scan(b) ==
  /\ b \in Scanners /\ pc[b] = "loaded"
  /\ scan_image_file(b) \/ scan_webcam(b)
  /\ UNCHANGED <<files, others, gens, launches, mem, conns>>

\* To the host and port the user typed, whose QR code it may not be.
Connect(b) ==
  /\ pc[b] = "connect"
  /\ \/ \E a \in Displayers :
          /\ Listening(a) /\ Len(conns[a]) < Backlog
          /\ conns' = [conns EXCEPT ![a] = Append(@, [from |-> b, state |-> "open",
                                                     message |-> Response(Me(b), peer[b].key)])]
          /\ Goto(b, "send")
     \/ Goto(b, "failed") /\ UNCHANGED conns   \* refused, or no answer in 10 seconds
  /\ UNCHANGED <<files, others, gens, launches, mem, peer, computed>>

\* Mistake: the error is ignored and the peer saved.
SendFramedUnchecked(b) ==
  /\ pc[b] = "send"
  /\ \E state \in {"sent", "dead"} : conns' = [a \in Displayers |-> Marked(conns[a], b, state)]
  /\ Goto(b, "save")
  /\ UNCHANGED <<files, others, gens, launches, mem, peer, computed>>

\* sendall hands the message to the kernel, which may succeed for a connection
\* that is broken already, or raises: a timeout, a reset, no route.
SendFramed(b) ==
  /\ pc[b] = "send"
  /\ \/ /\ conns' = [a \in Displayers |-> Marked(conns[a], b, "sent")]
        /\ Goto(b, "save")
     \/ End(b, "failed")
  /\ UNCHANGED <<files, others, gens, launches, mem, peer, computed>>

(***************************************************************************)
(* Both: TrustStore(...).save_peer, which TrustStore looks into            *)
(***************************************************************************)
\* Mistake: the new record replaces the store.
SaveRecordAlone(d) ==
  /\ pc[d] = "save"
  /\ Puts(d, [NoRecords EXCEPT ![peer[d].key[1]] = peer[d]])
  /\ Goto(d, "paired")
  /\ UNCHANGED <<identity, qr, replaced, others, gens, launches, mem, peer, conns, computed>>

\* A store nobody can read raises ValueError.  A proximity program writing {}
\* meanwhile may get its file into place, tear it or take it away
\* (FileNotFoundError, which may come too late to undo the saving).
SaveRecord(d) ==
  LET records == [trust[d] EXCEPT ![peer[d].key[1]] = peer[d]] IN
  /\ pc[d] = "save"
  /\ \/ other[d] # "empty" /\ store[d] # Torn /\ Puts(d, records) /\ Goto(d, "paired")
     \/ store[d] = Torn /\ UNCHANGED stores /\ Goto(d, "failed")
     \/ /\ other[d] = "empty"
        /\ \/ /\ Puts(d, records) \/ Puts(d, NoRecords) \/ Tears(d)
              /\ Goto(d, "paired") \/ Goto(d, "failed")
           \/ UNCHANGED stores /\ Goto(d, "failed")
  /\ UNCHANGED <<identity, qr, replaced, others, gens, launches, mem, peer, conns, computed>>

Init ==
  /\ identity = [d \in Devices |-> Absent]
  /\ qr = [d \in Devices |-> Absent]
  /\ trust = [d \in Devices |-> NoRecords]
  /\ store = [d \in Devices |-> Absent]
  /\ gens = [d \in Devices |-> 0]
  /\ launches = [d \in Devices |-> 0]
  /\ pc = [d \in Devices |-> "idle"]
  /\ mem = [d \in Devices |-> Absent]
  /\ peer = [d \in Devices |-> NoRecord]
  /\ conns = [a \in Displayers |-> <<>>]
  /\ computed = {}
  /\ other = [d \in Devices |-> "idle"]
  /\ otherMem = [d \in Devices |-> Absent]
  /\ replaced = {}

Step(d) ==
  \/ LoadIdentity(d) \/ CreateIdentity(d) \/ WriteIdentity(d)
  \/ OpenQR(d) \/ WriteQR(d) \/ Listen(d) \/ Accept(d) \/ CompletePairing(d)
  \/ Scan(d) \/ Connect(d) \/ SendFramed(d)
  \/ SaveRecord(d)

OtherStep(d) ==
  \/ OtherLoads(d) \/ OtherCreates(d) \/ OtherWrites(d)
  \/ OtherEmpties(d) \/ OtherEnds(d)

Next ==
  \/ \E d \in Devices : Launch(d) \/ Kill(d) \/ Wipe(d) \/ Step(d) \/ OtherStep(d)
  \/ \E a \in Displayers : \E k \in 1..Backlog : Break(a, k)

Spec == Init /\ [][Next]_vars

\* The operating system runs every process on.
FairSpec == Spec /\ \A d \in Devices : WF_vars(Step(d))
=============================================================================
