---------------------------- MODULE WifiTransport ----------------------------
(***************************************************************************)
(* WifiTransport on several devices.  In each process run a main thread    *)
(* that calls discover, send, receive and stop, zeroconf's thread, the     *)
(* accept thread, and one thread for each connection accepted, which reads *)
(* one frame and waits for it without a timeout.                           *)
(***************************************************************************)
EXTENDS Integers, Sequences, FiniteSets

CONSTANTS
  Devices,
  InRange,    \* pairs <<d, p>> such that p's mDNS records can reach d
  NoMessage,
  Backlog,    \* how many connections wait for accept at most
  MaxSends,   \* bound: how many connections are made
  MaxRuns     \* bound: how often each device's process is launched

ASSUME WifiDevices == IsFiniteSet(Devices)
ASSUME WifiBounds ==
  Backlog \in Nat /\ MaxSends \in Nat /\ MaxRuns \in [Devices -> Nat]

Message == [id : 1..MaxSends, from : Devices, to : Devices]

ASSUME WifiNoMessage == NoMessage \notin Message

\* _read_frame reads id_len, the id, body_len and the body.
Parts == 4

\* The size of _peers when discover does not iterate over it.
NoSize == -1

VARIABLES
  pc,        \* whether a process runs, is in or after stop(), or is no more
  run,       \* how often each device was launched; names the port it listens at
  peers,     \* _peers: peers[d][p] is the run of p whose port d knows, or 0
  size,      \* how many peers there were when discover began to iterate
  found,     \* what discover returned last
  accepting, \* the processes whose accept thread is in its loop
  count,     \* how many connections were made; numbers the messages
  sending,   \* the message whose send() a process is in
  conns,     \* the connections to processes that still run
  inbox      \* _inbox

vars == <<pc, run, peers, size, found, accepting, count, sending, conns, inbox>>

Alive(d) == pc[d] # "down"

\* The main thread of d is free to call a method.
Free(d) == pc[d] = "up" /\ sending[d] = NoMessage /\ size[d] = NoSize

Known(d) == {p \in Devices : peers[d][p] # 0}

\* A connection that carries m: whether sendall has returned, what the network
\* did to it, whether accept has returned it, and how many parts were read.
Conn(m, sent, link, taken, read) ==
  [msg |-> m, sent |-> sent, link |-> link, taken |-> taken, read |-> read]

ConnsTo(p) == {c \in conns : c.msg.to = p}

(***************************************************************************)
(* A process's life                                                        *)
(***************************************************************************)
Start(d) ==
  /\ pc[d] = "down" /\ run[d] < MaxRuns[d]
  /\ pc' = [pc EXCEPT ![d] = "up"]
  /\ run' = [run EXCEPT ![d] = @ + 1]
  /\ peers' = [peers EXCEPT ![d] = [p \in Devices |-> 0]]
  /\ found' = [found EXCEPT ![d] = {}]
  /\ accepting' = accepting \cup {d}
  /\ inbox' = [inbox EXCEPT ![d] = <<>>]
  /\ UNCHANGED <<size, count, sending, conns>>

\* stop(): a thread blocked in accept() does not notice that the socket is
\* closed; one that is between two calls does.
Stop(d) ==
  /\ Free(d)
  /\ pc' = [pc EXCEPT ![d] = "stopping"]
  /\ accepting' \in {accepting, accepting \ {d}}
  /\ UNCHANGED <<run, peers, size, found, count, sending, conns, inbox>>

\* The connection c after the end of d: the peer finds it closed.
Orphaned(c, d) ==
  Conn(c.msg, c.sent,
       IF c.msg.from = d /\ ~c.sent /\ c.link = "ok" THEN "reset" ELSE c.link,
       c.taken, c.read)

\* The process ends after stop(), or is killed anywhere, with its sockets and
\* threads: what it has not read is gone.
End(d) ==
  /\ Alive(d)
  /\ pc' = [pc EXCEPT ![d] = "down"]
  /\ size' = [size EXCEPT ![d] = NoSize]
  /\ sending' = [sending EXCEPT ![d] = NoMessage]
  /\ accepting' = accepting \ {d}
  /\ conns' = {Orphaned(c, d) : c \in conns \ ConnsTo(d)}
  /\ UNCHANGED <<run, peers, found, count, inbox>>

(***************************************************************************)
(* mDNS                                                                    *)
(***************************************************************************)
\* add_service and update_service: the address of the run that was announced
\* last, even after a kill.
AddService(d, p) ==
  /\ pc[d] = "up" /\ d # p /\ <<d, p>> \in InRange
  /\ run[p] # 0
  /\ peers' = [peers EXCEPT ![d][p] = run[p]]
  /\ UNCHANGED <<pc, run, size, found, accepting, count, sending, conns, inbox>>

\* Mistake: remove_service deletes the peer.
RemoveServiceForgets(d, p) ==
  /\ pc[d] = "up" /\ pc[p] = "stopping"
  /\ peers' = [peers EXCEPT ![d][p] = 0]
  /\ UNCHANGED <<pc, run, size, found, accepting, count, sending, conns, inbox>>

\* pass
RemoveService(d, p) ==
  /\ pc[d] = "up" /\ pc[p] = "stopping"
  /\ UNCHANGED vars

\* discover() has waited, and begins to iterate over _peers.
Discover(d) ==
  /\ Free(d)
  /\ size' = [size EXCEPT ![d] = Cardinality(Known(d))]
  /\ UNCHANGED <<pc, run, peers, found, accepting, count, sending, conns, inbox>>

\* The iteration ends with the list, or with RuntimeError if zeroconf's thread
\* has added a key.
DiscoverEnds(d) ==
  /\ size[d] # NoSize
  /\ size' = [size EXCEPT ![d] = NoSize]
  /\ \/ /\ Cardinality(Known(d)) = size[d]
        /\ found' = [found EXCEPT ![d] = Known(d)]
     \/ /\ Cardinality(Known(d)) # size[d]
        /\ UNCHANGED found
  /\ UNCHANGED <<pc, run, peers, accepting, count, sending, conns, inbox>>

(***************************************************************************)
(* Sending                                                                 *)
(***************************************************************************)
\* The kernel completes connections while the socket is open (before stop(), or
\* with a thread blocked in accept()) and the backlog has room; otherwise
\* create_connection raises and nothing is left.
Listening(p, port) ==
  /\ run[p] = port /\ (pc[p] = "up" \/ p \in accepting)
  /\ Cardinality({c \in ConnsTo(p) : ~c.taken}) < Backlog

Connect(d, p) ==
  /\ Free(d) /\ peers[d][p] # 0
  /\ Listening(p, peers[d][p])
  /\ count < MaxSends
  /\ count' = count + 1
  /\ LET m == [id |-> count + 1, from |-> d, to |-> p] IN
     /\ sending' = [sending EXCEPT ![d] = m]
     /\ conns' = conns \cup {Conn(m, FALSE, "ok", FALSE, 0)}
  /\ UNCHANGED <<pc, run, peers, size, found, accepting, inbox>>

\* Mistake: send() returns before the frame is with the kernel.
SendAllUnsent(d) ==
  /\ sending[d] # NoMessage
  /\ sending' = [sending EXCEPT ![d] = NoMessage]
  /\ UNCHANGED <<pc, run, peers, size, found, accepting, count, conns, inbox>>

\* sendall leaves the frame with the kernel, or finds the connection broken.
SendAll(d) ==
  /\ sending[d] # NoMessage
  /\ sending' = [sending EXCEPT ![d] = NoMessage]
  /\ LET mine == {c \in conns : c.msg = sending[d]} IN
     conns' = (conns \ mine) \cup {Conn(c.msg, TRUE, c.link, c.taken, c.read) : c \in mine}
  /\ UNCHANGED <<pc, run, peers, size, found, accepting, count, inbox>>

\* The network loses a connection, and the receiver notices or not.
Break(c) ==
  /\ c.link = "ok"
  /\ \E how \in {"reset", "silent"} :
       conns' = (conns \ {c}) \cup {Conn(c.msg, c.sent, how, c.taken, c.read)}
  /\ UNCHANGED <<pc, run, peers, size, found, accepting, count, sending, inbox>>

(***************************************************************************)
(* Receiving                                                               *)
(***************************************************************************)
Taken(c) ==
  /\ ~c.taken /\ c.msg.to \in accepting
  /\ conns' = (conns \ {c}) \cup {Conn(c.msg, c.sent, c.link, TRUE, c.read)}
  /\ accepting' = IF pc[c.msg.to] = "up" THEN accepting ELSE accepting \ {c.msg.to}
  /\ UNCHANGED <<pc, run, peers, size, found, count, sending, inbox>>

\* Mistake: the accept loop reads the frame itself.
AcceptInline(c) == Taken(c) /\ \A o \in ConnsTo(c.msg.to) : ~o.taken

\* accept() returns and a thread is started; the loop ends if stop() was called.
Accept(c) == Taken(c)

\* accept() raises OSError, for want of file descriptors for example: the loop
\* ends while the socket goes on listening.
AcceptFails(p) ==
  /\ p \in accepting
  /\ accepting' = accepting \ {p}
  /\ UNCHANGED <<pc, run, peers, size, found, count, sending, conns, inbox>>

\* _recv_exact has the next part of the frame; after the last, the message goes
\* into the inbox.
ReadPart(c) ==
  /\ c.taken /\ c.sent /\ c.link = "ok"
  /\ \/ /\ c.read + 1 < Parts
        /\ conns' = (conns \ {c}) \cup {Conn(c.msg, c.sent, c.link, c.taken, c.read + 1)}
        /\ UNCHANGED inbox
     \/ /\ c.read + 1 = Parts
        /\ conns' = conns \ {c}
        /\ inbox' = [inbox EXCEPT ![c.msg.to] = Append(@, c.msg)]
  /\ UNCHANGED <<pc, run, peers, size, found, accepting, count, sending>>

\* Mistake: the handler's recv has a timeout.
DropConnectionEarly(c) ==
  /\ c.taken
  /\ conns' = conns \ {c}
  /\ UNCHANGED <<pc, run, peers, size, found, accepting, count, sending, inbox>>

\* Mistake: an empty recv() ends the frame instead of raising ConnectionError.
DropConnectionPut(c) ==
  /\ c.taken /\ c.link = "reset"
  /\ conns' = conns \ {c}
  /\ inbox' = [inbox EXCEPT ![c.msg.to] = Append(@, [c.msg EXCEPT !.id = 0])]
  /\ UNCHANGED <<pc, run, peers, size, found, accepting, count, sending>>

\* recv returns b"" or fails: the connection is closed and nothing is put.
DropConnection(c) ==
  /\ c.taken /\ c.link = "reset"
  /\ conns' = conns \ {c}
  /\ UNCHANGED <<pc, run, peers, size, found, accepting, count, sending, inbox>>

Receive(d) ==
  /\ Free(d) /\ inbox[d] # <<>>
  /\ inbox' = [inbox EXCEPT ![d] = Tail(@)]
  /\ UNCHANGED <<pc, run, peers, size, found, accepting, count, sending, conns>>

(***************************************************************************)
(* The system                                                              *)
(***************************************************************************)
Init ==
  /\ pc = [d \in Devices |-> "down"]
  /\ run = [d \in Devices |-> 0]
  /\ peers = [d \in Devices |-> [p \in Devices |-> 0]]
  /\ size = [d \in Devices |-> NoSize]
  /\ found = [d \in Devices |-> {}]
  /\ accepting = {}
  /\ count = 0
  /\ sending = [d \in Devices |-> NoMessage]
  /\ conns = {}
  /\ inbox = [d \in Devices |-> <<>>]

Next ==
  \/ \E d \in Devices : Start(d) \/ Stop(d) \/ End(d)
  \/ \E d, p \in Devices : AddService(d, p) \/ RemoveService(d, p) \/ Connect(d, p)
  \/ \E d \in Devices : Discover(d) \/ DiscoverEnds(d) \/ SendAll(d) \/ Receive(d) \/ AcceptFails(d)
  \/ \E c \in conns : Break(c) \/ Accept(c) \/ ReadPart(c) \/ DropConnection(c)

Spec == Init /\ [][Next]_vars

\* Each thread of a transport runs on; no call of its methods is owed.
Fairness ==
  /\ \A p \in Devices : WF_vars(\E c \in ConnsTo(p) : Accept(c))
  /\ \A i \in 1..MaxSends :
       WF_vars(\E c \in conns : c.msg.id = i /\ (ReadPart(c) \/ DropConnection(c)))

FairSpec == Spec /\ Fairness
=============================================================================
