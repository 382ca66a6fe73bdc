-------------------------- MODULE BleTransportProps --------------------------
(***************************************************************************)
(* What the BLE transport guarantees while nobody cuts a message short or  *)
(* writes into another's, and what it still guarantees afterwards.         *)
(***************************************************************************)
EXTENDS BleTransport

Write == [msg : Message, run : Nat, pos : Nat]
Buffer == [total : Nat, length : Nat, of : Message \cup {Garbage, NoMessage}]

\* The type invariant.
BleTypeOK ==
  /\ up \subseteq Devices
  /\ run \in [Devices -> Nat]
  /\ peers \in [Devices -> SUBSET Devices]
  /\ count \in 0..MaxSends
  /\ sending \in [Devices -> Message \cup {NoMessage}]
  /\ writes \subseteq Write
  /\ buffer \in [Devices -> Buffer]
  /\ inbox \in [Devices -> Seq(Message \cup {Garbage})]
  /\ cut \subseteq Devices

\* The channel to device p: on its way is what is being written to it.
Ch(p) == INSTANCE Channel WITH
           up <- p \in up, inbox <- inbox[p],
           net <- {w.msg : w \in {v \in writes : v.msg.to = p}}

\* A device's buffer, shared by all centrals, is as good as one for each as
\* long as no write to it ends in the middle of a message and no two messages
\* interleave: every step is one of Channel.  Launched again, the device is a
\* channel again.  (_on_write, _send)
ChannelUntilCut ==
  [][\A p \in Devices : p \notin cut' => [Ch(p)!Next]_(Ch(p)!vars)]_vars

\* ... and when the last chunk is acknowledged, the peer has the message.
\* (response=True in _send, the lengths compared in _on_write)
AckedIsDelivered ==
  [][\A w \in writes : WriteChunk(w) /\ w.msg \notin {v.msg : v \in writes'} =>
       w.msg.to \in cut' \/ inbox'[w.msg.to] = Append(inbox[w.msg.to], w.msg)]_vars

\* The frame put together at p, full now, was none: _inbox gets what it parses as.
Garbled(p) ==
  /\ inbox'[p] = Append(inbox[p], Garbage)
  /\ p \in up /\ p \in up'
  /\ {w.msg : w \in {v \in writes' : v.msg.to = p}} \subseteq
       {w.msg : w \in {v \in writes : v.msg.to = p}}

\* Also after a message was cut short, while a coroutine that send() has given
\* up on writes into the next message, and after a frame was begun in the
\* middle of one: a message in _inbox is whole, was on its way to this device
\* and comes once; all else that gets there was put together from several.
\* (_on_write, send's result(timeout=20), _send)
WholeOrGarbage ==
  [][\A p \in Devices : [Ch(p)!Next]_(Ch(p)!vars) \/ Garbled(p)]_vars

(***************************************************************************)
(* The inductive invariant                                                 *)
(***************************************************************************)
\* Coroutines belong to running processes and write different messages; one
\* that is not connected has written nothing.
WriteSound(w) ==
  /\ w.msg.from \in up /\ w.msg.from # w.msg.to
  /\ w.msg.id <= count
  /\ w.run <= run[w.msg.to]
  /\ w.pos < w.msg.size
  /\ w.run = NoRun => w.pos = 0

WritesSound ==
  /\ \A w \in writes : WriteSound(w)
  /\ \A v, w \in writes : v.msg.id = w.msg.id => v = w
  /\ \A d \in Devices : d \notin peers[d]
  /\ \A d \in up : run[d] # NoRun

\* A process in send() has a coroutine that will end the call.
SendingSound ==
  \A d \in Devices : sending[d] # NoMessage =>
    sending[d].from = d /\ \E w \in writes : w.msg = sending[d]

\* The buffer holds what the one write under way has written of its message.
Assembles(p) ==
  \/ buffer[p] = NoFrame /\ Midway(p) = {}
  \/ \E w \in Midway(p) :
       /\ Midway(p) = {w}
       /\ buffer[p] = [total |-> w.msg.size - Header, length |-> w.pos - Header,
                       of |-> w.msg]

\* A frame that began with a message's first chunk has that message's length.
FrameSound(p) ==
  buffer[p].of \in Message => buffer[p].total = buffer[p].of.size - Header

\* TLC checks it on the instance of the run; BleTransportProofs proves it.
BleInv ==
  /\ BleTypeOK
  /\ WritesSound
  /\ SendingSound
  /\ \A p \in Devices : FrameSound(p)
  /\ \A p \in up \ cut : Assembles(p)
=============================================================================
