------------------------- MODULE WifiTransportProps -------------------------
(***************************************************************************)
(* What the WiFi transport guarantees, whatever breaks.                    *)
(***************************************************************************)
EXTENDS WifiTransport

Connection == [msg : Message, sent : BOOLEAN, link : {"ok", "reset", "silent"},
               taken : BOOLEAN, read : 0 .. Parts - 1]

\* The type invariant.
WifiTypeOK ==
  /\ pc \in [Devices -> {"down", "up", "stopping"}]
  /\ run \in [Devices -> Nat]
  /\ peers \in [Devices -> [Devices -> Nat]]
  /\ size \in [Devices -> Nat \cup {NoSize}]
  /\ found \in [Devices -> SUBSET Devices]
  /\ accepting \subseteq Devices
  /\ count \in 0..MaxSends
  /\ sending \in [Devices -> Message \cup {NoMessage}]
  /\ conns \subseteq Connection
  /\ inbox \in [Devices -> Seq(Message)]

\* The channel to device p: on its way is what has a connection to p.
Ch(p) == INSTANCE Channel WITH
           up <- Alive(p), inbox <- inbox[p], net <- {c.msg : c \in ConnsTo(p)}

\* Every device's transport is a Channel: a connection that breaks in the middle
\* of a frame puts nothing into the inbox, and a message is there once at most.
\* (_handle_connection, _read_frame, _recv_exact)
ImplementsChannel ==
  /\ \A p \in Devices : Ch(p)!Init
  /\ [][\A p \in Devices : [Ch(p)!Next]_(Ch(p)!vars)]_vars

\* Only a connection known to be broken is given up: the message of any other
\* waits, however slow the sender, for as long as the receiver runs.
\* (_handle_connection)
IntactIsDelivered ==
  [][\A c \in conns :
       (c.link = "ok" /\ pc[c.msg.to] = "up" /\ c.msg \notin {o.msg : o \in conns'}) =>
         \/ inbox'[c.msg.to] = Append(inbox[c.msg.to], c.msg)
         \/ pc'[c.msg.to] = "down"]_vars

\* Whatever mDNS reports between the two calls, send() does not raise
\* ValueError for a peer that discover() returned.  (remove_service)
DiscoveredIsKnown == \A d \in Devices : pc[d] = "up" => found[d] \subseteq Known(d)

\* Message i is with the kernels, and has a thread that reads it or is to start it.
Waiting(i) ==
  \E c \in conns :
    /\ c.msg.id = i /\ c.sent /\ c.link = "ok" /\ pc[c.msg.to] = "up"
    /\ c.taken \/ c.msg.to \in accepting

\* A silent connection blocks a thread of the receiver for ever, but no other
\* message: what was sent over an intact connection is received, unless it
\* breaks, the receiver stops, or accept() fails before it got to it.
\* (_accept_loop, _handle_connection)
SentArrives == \A i \in 1..MaxSends : Waiting(i) ~> ~Waiting(i)

(***************************************************************************)
(* The inductive invariant                                                 *)
(***************************************************************************)
\* Connections lead to running processes, and each carries one message.
ConnSound(c) ==
  /\ Alive(c.msg.to) /\ c.msg.from # c.msg.to
  /\ c.msg.id <= count
  /\ c.read > 0 => c.taken /\ c.sent
  /\ ~c.sent /\ c.link = "ok" => sending[c.msg.from] = c.msg

ConnsSound ==
  /\ \A c \in conns : ConnSound(c)
  /\ \A c, o \in conns : c.msg.id = o.msg.id => c = o

ProcessSound(d) ==
  /\ peers[d][d] = 0
  /\ d \in accepting => Alive(d)
  /\ Alive(d) => run[d] # 0
  /\ ~Alive(d) => sending[d] = NoMessage /\ size[d] = NoSize
  /\ sending[d] # NoMessage => sending[d].from = d /\ pc[d] = "up" /\ sending[d].id <= count

\* TLC checks it on the instance of the run; WifiTransportProofs proves it.
WifiInv ==
  /\ WifiTypeOK
  /\ ConnsSound
  /\ \A d \in Devices : ProcessSound(d)
=============================================================================
