# Formal verification of Secure Device Pairing and Proximity Exchange

TLA+ models of the program in `src/`, checked by TLC on small instances and,
for what matters most, proved for all instances with TLAPS.

## The system

Two (or more) devices pair once through a QR code and a socket, and afterwards
recognise each other over WiFi or BLE: an authenticated handshake with fresh
keys, then an exchange of presence tokens.

| Component | Source | State | Operations | Model |
|---|---|---|---|---|
| Proximity protocol | `proximity/proximity_protocol.py` | the locals of one call | `initiate_encounter`, `respond_to_encounter` | `Proximity` |
| Device programs | `demo/device_a.py`, `demo/device_b.py` (`cmd_proximity`) | the loop over the peers, the deadline | launch, loop, exception handlers, end, kill | `Proximity` |
| Trust store | `pairing/trust_store.py` | `trust_store.json` and its `.tmp` | constructor, `save_peer`, `get_peer`, `is_paired`, `list_peers` | `TrustStore`, and `trust` in `Proximity` |
| WiFi transport | `proximity/transport_wifi.py` | `_peers`, `_inbox`, sockets, threads | `start`, `discover`, `send`, `receive`, `stop`, the mDNS listener, accept and handler threads | `WifiTransport`, and in `Proximity` |
| BLE transport | `proximity/transport_ble.py` | `_peers`, `_inbox`, the reassembly buffer | the same, and `_on_write`, the `_send` coroutines | `BleTransport`, and in `Proximity` |
| Cryptography | `core/*.py` | none | X25519, ML-KEM, HKDF, ASCON | `HybridCrypto` (symbolic) |
| Pairing protocol | `pairing/pairing_protocol.py`, `cmd_pair` of both programs | `identity.json`, the QR image, the listening socket's connections | identity creation, QR, response, completion | `Pairing` |
| QR images | `pairing/qr_generate.py`, `qr_scan.py` | `qr.png` | encode, decode, `scan_image_file`, `scan_webcam` | `qr` in `Pairing`; encoding: not modelled (library I/O) |
| Benchmarks | `benchmarks/run_benchmark.py` | none | measuring | not modelled |

How they interact: `device_a` and `device_b` are separate processes.
`cmd_proximity` calls the protocol functions, which read the trust store once per
encounter and call `send` and `receive` of a transport; the transport's threads
put messages into `_inbox`. `cmd_pair`, in further processes of the same device,
runs the pairing protocol over a plain socket and writes the trust store. Nothing else is shared, and no lock protects the file.

What is hard here, and what the properties are about:

- `receive()` returns whatever message comes next: it names the sender, but the
  protocol functions discard the name (`_sender`). Messages of another encounter,
  of another peer or of a process's previous run arrive in the middle of an
  encounter.
- Messages are lost, delayed and reordered, `send` can time out with the message
  on its way, and processes are killed and launched again.
- Trust can be one-sided or out of date, and can change while a process runs.
- The transports have threads and coroutines of their own. WiFi connections break in the
  middle of a frame, fall silent or wait in a backlog; BLE puts the chunks of all
  centrals into one buffer, and a `send` that has given up goes on writing.
- The trust store is read, changed and written back by several processes.
- Pairing accepts one connection, without a timeout, and nobody acknowledges a
  response; identity and QR image are written in place and outlive their process, and two processes of one device may create the identity at once.

`PROJECT.json` lists these hazards one by one, at their lines.

## Modules

| Module | What it is |
|---|---|
| `HybridCrypto` | The primitives as terms. Two terms are equal exactly if the code's bytes are; ML-KEM decapsulation of a foreign ciphertext yields a key of its own, as implicit rejection does. |
| `TokenExchange` | Abstract specification: trust stores and learned tokens. A responder may learn a token of a mutually trusted initiator under a new key; the initiator may learn under that key afterwards. |
| `Proximity` | The two protocol functions in the two programs' loops, over a transport. |
| `ProximityProps` | Its properties, the refinement mapping to `TokenExchange`, and the inductive invariant. |
| `ProximityProofs` | The proofs for every run. |
| `MeetingProofs` | The proofs about a first meeting, and about whom a session key belongs to. |
| `Channel` | Abstract specification of a transport: whole messages, each at most once, lost or reordered. |
| `WifiTransport` | The WiFi transport with all its threads and connections. |
| `WifiTransportProps`, `WifiTransportProofs` | Its properties, the refinement of `Channel`, the proofs. |
| `BleTransport` | The BLE transport: chunks, the reassembly buffer, coroutines. |
| `BleTransportProps`, `BleTransportProofs` | Its properties, the refinement of `Channel`, the proofs. |
| `PeerRecords` | Abstract specification of a store: atomic saves and reads. |
| `TrustStore` | The JSON file, call by call to the file system. |
| `TrustStoreProps`, `TrustStoreProofs` | Its properties and proofs. |
| `Pairing` | `cmd_pair` of both programs with identity, QR image, connections and records. |
| `PairingProps`, `PairingProofs` | Its properties, inductive invariant and proofs. |
| `MCProximity`, `MCWifiTransport`, `MCBleTransport`, `MCTrustStore`, `MCPairing` | Instances for TLC. |

### Proximity

A device is in `Initiators` (runs `device_a --proximity`) or in `Responders`
(`device_b --proximity`); the module does not limit their number, as the library
does not, although the demo programs fix the ids `device-a` and `device-b`. `pc`
says where the process waits: `discover`, `visit` (the head of the loop over the
peers), `await_initiate`, `await_response` and `await_token` (the calls of
`receive`), or how it ended.

One action is the code from one blocking `receive` to the next, with everything it
does: `RespondInitiate`, for instance, takes the message, reads the trust store,
verifies the MAC, generates the ephemerals, derives the session key, and sends: the message is on
its way, `send` times out, it raises an `OSError` or a `BleakError` (whether the peer is up or not), or the
peer is unknown. This granularity is sound because a process shares
only its inbox, `_peers` and the trust store with other threads and touches each at
most once in such a stretch. The exceptions of `send` go where the programs'
handlers send them: `TimeoutError` ends an iteration of `device_a` and the whole loop of
`device_b` (which takes it for the deadline), `OSError` and `ValueError` end either.
Socket and future timeouts are `TimeoutError`s, as they are from Python 3.11 on.

`transport` is what the processes were launched with (`--transport`), one for all; most
of what it does differs:

- `net` holds messages on their way. `Deliver` takes any of them, in any order (WiFi
  starts a thread per connection); one that is never delivered is lost.
- A WiFi port is named by the number of the process's run, so an address learned
  from mDNS dies with the run. `AddService` also sees the records of killed
  processes, which never unregister; `remove_service` does nothing, so addresses stay.
- `stop()` closes the listening socket under a thread blocked in `accept`, which can
  take another connection until the process exits: `Leaving`.
- Over BLE only `discover` learns addresses, and an address survives a restart.
  `send` gives up after 20 seconds without cancelling the write, which may go on, or even
  connect later, to whichever run of the peer it finds: such a message has `AnyPort`. BLE
  delivers the messages of one sender in order; the model also reorders them, so what
  it shows over BLE holds for more behaviours than there are.
- Over BLE two messages that meet in a peer's buffer arrive as one that nobody sent
  (`Garble`), or not at all. `BleTransport` shows that this, and no more, can happen to
  them; that a garbage length makes the peer deaf is, here, the loss of what follows.
- Over BLE `device_b`'s first answer always fails (`bug_ble`), so nobody receives a token there: what the
  properties say of accepted peers is, over BLE, about nobody, and its messages and failures matter for
  the others, such as `Termination` and `NoFalseAlarm`.
- `discover` can raise (`DiscoverFails`): `RuntimeError` when mDNS adds a peer while it
  iterates, a BLE scan that fails. `device_a` does not catch it and ends.
- A token (or garbage) parsed as an INITIATE or a RESPONSE has a random byte for an id length: what
  follows is not UTF-8 and raises `ValueError`, or it is and the check fails. Both are
  possible (`RejectInitiate`, `RejectResponse`).

`sessions` and `received` are history variables: the keys derived and the tokens
decrypted. `SavePeer` assumes that pairing saves the peer's present identity and touches no
other record. `PlaysTokenExchange` of `Pairing` says so, and is proved, as long as no identity
is deleted or overwritten meanwhile and no proximity program is about to write an empty store
(which erases records: `bug_wiped`; `Proximity` has no such step); a record that such an event has made out of date and that
is saved only afterwards is outside `Proximity`, which starts with any out-of-date records but
gets no new ones.

Not in the module: the time stamps behind the timeouts (a timeout may fire
whenever `queue.Empty` could be raised), the log, devices of other makes that a BLE
scan returns (they would be SKIPPED), the exceptions of `transport.start` (they end a
program before it has done anything), and the `--as-stranger` option, which is an
initiator with an empty trust store.

### WifiTransport

In each process run the caller's thread, zeroconf's, the accept thread and one thread per
accepted connection. `send` is `Connect` (the kernel completes the connection if somebody
listens and the backlog has room; otherwise nothing happens) and `SendAll`. A connection is
intact, reset or silent (`Break`): the receiver notices the second when it reads, the third
never. `Accept` hands it to a thread, which reads the frame in four parts (`ReadPart`: the
id's length, the id, the body's length, the body) and puts the message, or drops the
connection on an empty `recv` (`DropConnection`). `discover` is two steps, `Discover` and
`DiscoverEnds`, between which `AddService` may change the size of `_peers`: then it raises
`RuntimeError` and returns nothing. `Stop` leaves the accept thread in `accept`, or finds it
between two calls; `AcceptFails` is an `OSError` of `accept` in a running process (too many open
files, a connection aborted), which ends the accept loop while the socket goes on listening, so that
the kernel still takes connections nobody will read; `End` is the exit after it, or a kill at any point, and takes the threads and
sockets with it.

Not in the module: a thread that cannot be started, ports that the system gives to another process afterwards, a host
without a network (`_local_ip` then announces the loopback address), and connections made by
other programs.

### BleTransport

A `_send` coroutine is a record in `writes`: its message, the run of the peripheral it is
connected to, and how many bytes it has written. `WriteChunk` is one acknowledged write
together with the peripheral's `_on_write`, which is one step for the event loop. `Extended` is the
buffer after the chunk: a first chunk starts a frame with the length in its four first bytes
(`Header`), and if it was cut out of the middle of a message that length is any of
`Misreads`. Of the bytes in the buffer the model keeps their number and whose they
are, `Garbage` if they are of two messages; a full buffer of one message is this message,
because lengths are compared exactly. `GiveUp` is the timeout of `send`, which leaves the coroutine
where it is; `WriteFails` a connection that is refused or lost; `End` the exit or the kill,
which ends all coroutines of the process. The history variable `cut` holds the processes to which a
message was cut short or two were written at once, since their launch.

The comment at the head of `transport_ble.py` names the restriction (one central at a time).
The module shows what it costs, that the same central suffices (a send that gave up and
the next one), and that nothing is wrong otherwise.

### TrustStore

Each call to the file system is an action: `CheckExists`, the read of `save_peer`
or of a lookup, `open(tmp, "w")`, each flushed block, `os.replace`. A document is
written in blocks, more for more peers; a file that mixes blocks of two documents,
or lacks some, counts as unreadable. Files are inodes, so what happens when two
processes share the one `.tmp` name follows: the second truncates the file the first
writes, and the first may replace the store by it. A process can be killed anywhere
(`Stop`); power failures, which need `fsync`, are not considered. `overlap` is a
history variable: it becomes true when two processes mean to write (are between the
read and the replace) at the same time.

### Pairing

A displayer runs `device_a --pair`, a scanner `device_b --pair`. A key pair is a device
and a number, the n-th identity this device generated; it stands for the X25519 and the
ML-KEM key together, which are generated and saved together. The steps of a process are
the places where another can notice or a kill matters: reading `identity.json`, emptying and
filling it (`CreateIdentity`, `WriteIdentity`; a file left `Torn` makes `json.loads` fail in
every later run), the same for `qr.png`, `listen`, `accept`, `recv_framed` with
`complete_pairing`, and on the other side the scan with `respond_to_qr`,
`create_connection`, `sendall`, and the save on both.

A displayer's connections are a queue, the one that `accept` returns first at its head.
A connection is open, sent (the whole response is in the kernel), dead or silent. The network may
drop one at any time (`Break`), before or after the send: the displayer's `recv` then raises
(dead), or never hears of it (silent). `recv_framed` waits while the first is open or silent and fails
if it is dead, as it also is when its sender ends before the response is sent; the end of a displayer's
sockets drops the rest, whose senders may not notice. `sendall` may succeed, on a connection
that is broken already too, or raise, on an intact one too (a timeout, a reset). A scanner may connect to
any displayer, whatever QR code it scanned, since the user types host and port. `Wipe` is the user
who deletes the state directory of a device while no process of it runs.

The proximity program of a device in `Bystanders` may be started as well. What matters of it
here (`OtherLoads` to `OtherEnds`) is what it does to the device's files before it starts its transport.
In `load_or_create_identity`, when both programs find no identity, both generate one, and the second to
write replaces what the first may already have shown to a peer. The constructor of its `TrustStore` looks
whether there is a store (`LooksForStore`) and if not writes `{}` (`OtherEmpties`), over whatever
`save_peer` has saved since. When the two write at once they share a `.tmp` file: `SaveRecord` and
`OtherEmpties` then have the outcomes `TrustStore` takes apart (one of the two documents, a file that
nobody can read, `FileNotFoundError` for either). `store` says whether there is a store file and
whether it can be read; a torn one fails every save. `computed` (what `respond_to_qr` returned, for whom) and `replaced` (the
devices whose identity was deleted, or emptied by `write_text` when there was one) are history
variables.

Assumed: devices have different ids, as the programs' constants are; one process per
device pairs at a time; the save, which `TrustStore` takes apart, is one step (with the outcomes above
if it overlaps with another); a webcam sees the
image that is in the file.

## What TLC checks

| Run | Instance | Properties |
|---|---|---|
| `restart` | 1 initiator, 1 responder, 3 launches and 3 ephemerals each | `IInv`, `TypeOK`, `ResponderAgreement`, `NewKeyPerEncounter`, `NoFalseAlarm` |
| `two_responders` | 1 initiator, 2 responders, 1 launch each, with fairness | `InitiatorAgreement`, `MeetingInv`, `OnePairPerKey`, `WorkShrinks`, `Termination` |
| `repair` | 2 initiators, 1 responder, one initiator's state wiped, pairing again meanwhile | `OnlyPairedPeersAnswered`, `ImplementsTokenExchange` |
| `wifi` | 1 sender, 1 receiver with 2 launches, 2 connections, a backlog of 1, with fairness | `WifiInv`, `ImplementsChannel`, `IntactIsDelivered`, `DiscoveredIsKnown`, `SentArrives` |
| `ble` | 2 centrals, 1 peripheral with 2 launches, 3 messages of one or three chunks | `BleInv`, `ChannelUntilCut`, `AckedIsDelivered`, `WholeOrGarbage` |
| `store_races` | no store yet, 2 pairing processes, 1 reader, 2 peers, 2 saves | `NobodyFailsAlone`, `StoreInv`, `AtomicWithoutOverlap`, `ReadsNeverGoBack` |
| `pairing` | 1 displayer with 2 launches and its proximity program, 2 scanners with 1, 2 identities each, with fairness | `PairingInv`, `SafetyNumbersAgree`, `HeldByItsIdentity`, `FirstIsPaired`, `FirstIsKept`, `PlaysTokenExchange` |

The three Proximity runs check both transports.

In words:

- `ResponderAgreement`: who is accepted by a responder derived the same session key in
  an encounter with that responder, and the token is its own.
- `InitiatorAgreement`: when an initiator accepts, the responder has accepted already,
  under the same key.
- `NewKeyPerEncounter`: no encounter continues under a key its device had before.
- `OnlyPairedPeersAnswered`: a RESPONSE or a TOKEN only goes from one device to
  another if each holds the other's *current* key.
- `ImplementsTokenExchange`: the token exchange as a whole implements the abstract one.
- `NoFalseAlarm`: as long as only one initiator and one responder that trust each other were
  launched, each once, neither is rejected or skipped and no message is taken for another,
  whatever is lost, late or sent by a send that gave up. `MeetingInv` is what makes it so.
- `OnePairPerKey`: two devices at most derive one session key, each for the other.
- `Termination`: every launched process ends.
- `WorkShrinks`: each step of `device_a` leaves it less to do, at most three steps for each
  peer in its list, whatever arrives and whatever is discovered meanwhile.
- `ImplementsChannel`: what `receive` returns over WiFi was sent to this device, whole, and is
  returned once at most, whichever connections break in mid-frame.
- `IntactIsDelivered`: a running receiver gives a connection up only if it is broken.
- `SentArrives`: a message sent over an intact connection is received, although other
  connections may be silent for ever; unless it breaks, the receiver stops, or its accept loop ends
  on an error before it got to the connection.
- `DiscoveredIsKnown`: `send` knows every peer `discover` has returned.
- `ChannelUntilCut`, `AckedIsDelivered`: a BLE peripheral is a `Channel` too, and has the message
  when its last chunk is acknowledged, until a message to it is cut short or two are
  written at once; launched again, it is one again.
- `WholeOrGarbage`: and at all other times, with frames begun in the middle of a message and a
  coroutine that `send` has given up on writing into the next message, what gets into a
  peripheral's `_inbox` is a message for it, whole and at most once, or else garbage; never a second
  copy, a half or a message for someone else.
- `NobodyFailsAlone`, `AtomicWithoutOverlap`: saves and reads are
  atomic, and nobody finds an unreadable file, until two processes mean to write
  at once.
- `ReadsNeverGoBack`: until then what a process reads of a peer is never older than what it
  read before.
- `SafetyNumbersAgree`: whom a displayer records computed the very safety number it shows,
  with the keys on record, also when the QR code was out of date.
- `HeldByItsIdentity`: a record names the identity its peer still has on file, however
  processes were killed around the writes, until the peer's state is deleted or two of its
  processes create an identity at once.
- `FirstIsPaired`: a displayer pairs with the scanner that connected first, having scanned the present
  identity, whoever else connects, fails or waits behind it; unless that very connection breaks, or the
  displayer is killed or cannot save (its store is torn, or its proximity program is about to
  write an empty one). The scanner may still end up paired alone: nothing acknowledges its response.
- `FirstIsKept`: the same step by step, for both sides and without fairness: only the network, the
  scanner's own failure or kill, and the displayer's kill take the first scanner's place in the queue, or the
  response in it, and each goes on to save the key the other runs with.
- `PlaysTokenExchange`: what pairing does to the records, as far as proximity programs see them
  (generations of keys, of devices that have kept their first identity), are steps of `TokenExchange`: one
  record gets the peer's present key and the others stay. This is claimed only of steps during which no
  proximity program that found no store is about to write an empty one; one that found a store leaves
  it alone.

Bounds. `MaxRuns` bounds launches, `MaxEphemerals` the ephemerals of a device,
`MaxSaves` the saves. An initiator visits each peer once per launch, so in `restart`
and `two_responders` the initiator never needs more ephemerals than it has;
a responder answers each INITIATE once, so neither does it. Two launches are what it
takes for a message to outlive its process, three for two such messages to meet, two responders for it to reach an
encounter with somebody else, two initiators for one to disturb the other, and four
inodes for every file that can be open or linked to differ. In `pairing` two launches and two
identities are what an outdated QR image takes, or two programs that both create one, and
two scanners a backlog. In `wifi` two connections are one that is silent, or fills the backlog, and
one behind it; in `ble` a message of three chunks has a chunk that is neither its
first nor its last, and three messages are two that meet and one that comes after them.
`MaxSends` bounds what is sent, `CHUNK_SIZE` has its value in the code, and the two
sizes, 150 and 362 bytes, are below one chunk and just above two. The proofs remove the
bounds for safety. Only the store's runs check for deadlock: elsewhere
processes end and launches are bounded.

Fairness. `FairSpec` assumes weak fairness of each process's own steps: the
operating system runs it, and every `receive` has a timeout. It assumes nothing of
`Deliver`, `AddService` or `Launch`: messages may be lost for ever. `NegativeTimeout` is
left out too, since the deadline need not fall between two statements. In `Pairing` it is weak
fairness of each process's `Step`, which is disabled while `accept` or `recv_framed`
blocks; launches, kills and deletions are never owed. In `WifiTransport` the accept thread of each
device runs on, and so does each connection's thread while there is something to read or a
break to notice; no call of the transport's methods is owed, connections may break or fall silent at any
point, and the accept loop may end on an error. `BleTransport` has no liveness property, and no fairness.

Every property was also tried against a plausible mistake in the code (the operators
marked "Mistake" in the modules; pairs in `PROJECT.json`), and TLC finds each of them.

### Where the code departs from its documentation

| Run | Property | What happens |
|---|---|---|
| `bug_bad_bytes` | `ResponderSurvivesMessages` | The INITIATE of an initiator that was launched again reaches a responder that waits for the first run's token. Decrypting it raises `ValueError`, which `device_b` does not catch, although it "waits, responding to any authenticated proximity encounter [...] until --duration seconds pass". |
| `bug_ble` | `ResponderKnowsItsPeers` | Over BLE only `discover` fills `_peers`, and `device_b` never calls it: its first answer raises `ValueError`. |
| `bug_rejected` | `RejectedPeersAreUnpaired` | A late RESPONSE of one responder makes the next, properly paired one be logged as REJECTED. |
| `bug_untried` | `EveryPairedPeerTried` | An `OSError` of one `send` is caught by none of `device_a`'s handlers and ends it before it has tried the others. It takes no bad network: `remove_service` forgets nothing, so `discover` returns a peer that is gone, and its address refuses the connection. |
| `bug_wiped` | `SavedRecordsPersist` | A process whose constructor found no store writes `{}` over the record another saved in between. |

## What is proved

The six proof modules have no unproved step. The constants are any
sets and bounds that satisfy the named assumptions (roles disjoint, keys numbered,
bounds natural; for the store: roles disjoint, finitely many peers; for `WorkShrinks`: finitely many devices; for WiFi: finitely many
devices; for BLE: messages longer than their header, and chunks too).

**Proximity.** `IInv` is inductive (`Invariance`), and from it follow `TypeCorrect`,
`PairedOnly`, `ResponderAgrees`, `InitiatorAgrees`, `NewKeys` and `Refinement`. The
agreements alone are not inductive: nothing in them says where the message comes from
that the next step accepts. The argument:

1. *Messages* (`MessagesHonest`). Every INITIATE, RESPONSE and TOKEN on its way or in
   an inbox was built by the code, so its MAC is under the key its sender had on record.
2. *Trust.* A MAC verifies if the long-term keys of both ends are equal, and since they
   are Diffie-Hellman secrets of two identities this forces each side's record to be the
   other's current identity. Hence a RESPONSE means mutual trust, and pairing again
   never undoes it.
3. *Attribution* (`SessionsGenuine`). The ML-KEM part of a session key names the
   initiator's ephemeral and the responder's randomness, so equal keys mean equal
   pairs of devices and encounters. The RESPONSE's MAC does not cover the initiator's
   ephemeral; a stale RESPONSE verifies, but the key derived from it is nobody else's.
4. *Tokens* (`ReceiptsGenuine`, `CallsGenuine`). A token that opens was encrypted under
   this key by the other side, and no key is used for two receipts.

Garbage needs no argument of its own: it is not what any of these clauses speaks of, and
neither a MAC nor a token's authentication accepts it.

`EachLaunchEnds` (`WorkShrinks`) gives each state of `device_a` a number that every step of it
lowers: three for each peer in the list and at most three for the encounter it is in. That no other
action changes `pc` or `todo` of a running initiator is half of the proof. Nothing of the
kind holds of a responder, which ends with its deadline only.

**A first meeting.** `NoFalseAlarm` is false as soon as a third process or a second launch is
involved (`bug_rejected`, `bug_bad_bytes`), so it is no consequence of `IInv`: it needs to know
that messages do not overlap. `MeetingInv` says that the meeting is in one of five stages
(`Stage`), that of the four messages only the last one made can be on its way or unread (`Only`),
that it is exactly the message this stage makes, and which process waits for what.
A message is made only by the step that consumes the previous one, and this is where a send
that gave up matters: its message may still arrive, but its sender is back in its loop with nobody
left to visit, or has ended, so the stage stays. `PeersWereUp` keeps out everyone else, because
who was never launched does nothing, is discovered by nobody and is sent nothing. From it follow
`MeetingInvariance` and `NoAlarmAtFirstMeeting`, with any number of devices that are
launched later.

`KeysAreOfOnePair` (`OnePairPerKey`) follows from `IInv` alone: a session key names both ends by
its ML-KEM part (`SessionsGenuine`), also one derived from a late RESPONSE.

**WiFi.** `WifiInv` is inductive (`WifiInvariance`); `Channels`, `Intact` and `Discovered` follow.
The refinement maps `net` to the messages that have a connection to the device. For a
step to be one of `Channel`, connections must carry different messages and lead to a process
that runs (`ConnsSound`), or a message could be delivered twice or to a later run.

**BLE.** `BleInv` is inductive (`BleInvariance`); `Channels` and `Delivery` follow. Its heart is
`Assembles`: unless the device is in `cut`, its buffer is empty and no connected
coroutine is midway, or exactly one is and the buffer holds exactly what it has written. A new
launch restores this, because a coroutine connected to the previous run is no longer
connected to anything. The lengths then show that the frame ends with the message's last chunk and
not before. `WholeMessages` (`WholeOrGarbage`) holds of devices in `cut` too and cannot use `Assembles`. It
rests on `FrameSound`: a buffer that is of one message began with that message's own length, so it is full
with the very write that ends the coroutine, never before, and the message cannot come again, because
coroutines write different messages (`WritesSound`). A buffer of two messages, or one begun in the
middle of a message, yields garbage.

**Trust store.** `StoreInv` is inductive (`StoreInvariance`); `NobodyFails` and `Atomicity`
follow. Until two processes mean to write at once there is at most one writer; the
invariant says how far it has got (`Progressed`) and what its `os.replace` will do to
the records (`Intends`), which makes `os.replace` the moment at which a save happens.
`ReadsMonotone` rests on `SeenIsPast`: what somebody has read is no newer than what the store holds,
and a save only makes that newer.
`OneSaver` adds that with an existing store and a single pairing process `overlap`
stays false, so the file implements `PeerRecords` outright, with any number of readers, and
`OneSaverKeepsRecords` that no record is ever lost then: both premises are needed, since
`bug_wiped` finds the loss when the store does not exist yet, and two savers lose each other's.

**Pairing.** `PairingInv` is inductive (`PairingInvariance`); `SameSafetyNumber` and
`RecordsAreCurrent` follow. Agreement alone says nothing about the response a displayer is
about to read, so the invariant adds: every queued response was made by its sender for
some key pair, and the sender computed the fingerprint of the two before it connected
(`ConnectionsGenuine`, `PeersGenuine`). A response opens only if its ML-KEM part was made for the
key pair that opens it, whence the fingerprints are equal. For the records, a key pair
that has left its device (in a QR image, a response, a record) is the one in its identity
file (`KeysKnown`): keys leave only from processes past `load_or_create_identity`
(`MemoryIsFile`), and while an identity is written nobody knows it and only one process
writes (`WritingIsTorn`), unless it replaces one, which `replaced` records.

`PairingPlays` (`PlaysTokenExchange`) is the composition with the encounters: `KeysOnRecord` maps
the records to generations of keys, and `FirstIdentity` says that a device that was not replaced
has its first identity, so the record `SaveRecord` writes is the peer's present key; when no
proximity program is about to write `{}`, `SaveRecord` is all that changes a store (`StoreReplaced`).
`Refinement` says of encounters that they implement `TokenExchange` with such steps
of pairing in between. The two are proved side by side and share no state: in one run of both programs the
conclusion holds up to the first deleted or overwritten identity or emptied store.

`FirstIsNeverLost` (`FirstIsKept`) rests on `OpenIsSending`: who has an open connection is about to
send the response it was opened for, and only a listening displayer has connections. So the steps
that could disturb the head of the queue are those of its two ends (`HeadStep`) and a break of that
connection (`HeadBreaks`).

**Only model-checked:** `Termination`, `FirstIsPaired` and `SentArrives`: liveness under
fairness is out of the prover's reach, as is ENABLED, on which weak fairness rests. The part of each
that is safety is proved: `WorkShrinks` for the initiators in `Termination`, `FirstIsKept` for
`FirstIsPaired`, `IntactIsDelivered` for `SentArrives`. **Only proved:** `ImplementsPeerRecords`, in `OneSaver`.

## Not modelled

- The benchmarks and the tests: they make no decision of the program.
- The mathematics of the primitives and the encodings (QR, base64, JSON, the bytes of messages):
  libraries, or conversions whose result the models state.
- Ids of more than 255 bytes, which no program here has, and equal ids of two devices, for which
  both sides of a pairing would hash in different orders.
- Power failures, time stamps, other makes of BLE devices, other programs on the network.
- `Proximity` with several processes of one device at a time, which would share a port announcement
  and an id.

## Plan

Done: all five components above with their abstractions, the safety proofs, the first meeting, and
the composition of pairing with the encounters. What is left:

1. What the abstract specifications promise, proved of them once (a learned token has a trusted
   owner; records never go back), so that each implementation inherits it.
2. A first meeting of one initiator with several responders, which needs the stage of each encounter
   and a timeout's late RESPONSE, up to where `bug_rejected` begins.
3. A bound for responders: that each message is consumed by one encounter at most.
