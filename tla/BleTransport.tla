---------------------------- MODULE BleTransport ----------------------------
(***************************************************************************)
(* BleTransport on several devices: every process is a central that writes *)
(* messages chunk by chunk, and a peripheral that puts all the chunks      *)
(* written to it into one buffer.  A send() that gives up leaves its       *)
(* coroutine writing.  Connections break, processes end and start again.   *)
(***************************************************************************)
EXTENDS Integers, Sequences, FiniteSets

CONSTANTS
  Devices,
  InRange,     \* pairs <<d, p>> such that p's advertisements can reach d
  Sizes,       \* the lengths of the payloads _build_frame makes, in bytes
  CHUNK_SIZE,
  Misreads,    \* what four bytes out of the middle of a message may spell
  Garbage,     \* a message that nobody sent
  NoMessage,
  MaxSends,    \* bound: how many messages are sent
  MaxRuns      \* bound: how often each device's process is launched

\* A payload starts with the length of the rest.
Header == 4

ASSUME BleSizes == Sizes \subseteq {n \in Nat : n > Header}
ASSUME BleChunk == CHUNK_SIZE \in Nat /\ CHUNK_SIZE > Header
ASSUME BleMisreads == Misreads \subseteq Nat
ASSUME BleBounds == MaxSends \in Nat /\ MaxRuns \in [Devices -> Nat]

Message == [id : 1..MaxSends, from : Devices, to : Devices, size : Sizes]

ASSUME BleGarbage == Garbage \notin Message /\ NoMessage \notin Message \cup {Garbage}
NoFrame == [total |-> 0, length |-> 0, of |-> NoMessage]   \* _recv_total_len is None

VARIABLES
  up,       \* the devices whose process runs
  run,      \* how often each device was launched
  peers,    \* _peers: whom each process has discovered
  count,    \* how many messages were sent; numbers them
  sending,  \* the message whose send() a process is in
  writes,   \* the _send coroutines, each with the run it is connected to
  buffer,   \* _recv_total_len, and what _recv_buffer holds of which message
  inbox,    \* _inbox
  cut       \* history: the processes written to by two at once, or half

vars == <<up, run, peers, count, sending, writes, buffer, inbox, cut>>

Idle(d) == d \in up /\ sending[d] = NoMessage

\* Not connected yet.
NoRun == 0

Connected(w) == w.msg.to \in up /\ w.run = run[w.msg.to]

\* The writes that have begun a frame at p and not ended it.
Midway(p) == {w \in writes : w.msg.to = p /\ Connected(w) /\ w.pos > 0}

(***************************************************************************)
(* The peripheral                                                          *)
(***************************************************************************)

\* Mistake: the header stays in the buffer and counts as part of the frame.
ExtendedWithHeader(p, m, pos, n) ==
  {[total |-> m.size - Header, length |-> buffer[p].length + n,
    of |-> IF buffer[p] = NoFrame \/ buffer[p].of = m THEN m ELSE Garbage]}

\* The buffer after the next n bytes of m, those from pos on.  The first chunk
\* is read as a length and the beginning of a frame, whatever it is.
Extended(p, m, pos, n) ==
  IF buffer[p] = NoFrame
  THEN {[total |-> t, length |-> n - Header, of |-> IF pos = 0 THEN m ELSE Garbage] :
          t \in IF pos = 0 THEN {m.size - Header} ELSE Misreads}
  ELSE {[total |-> buffer[p].total, length |-> buffer[p].length + n,
         of |-> IF buffer[p].of = m /\ buffer[p].length = pos - Header THEN m ELSE Garbage]}

\* Mistake: the frame ends only with the next one's first chunk.
FullLate(b) == b.length > b.total

Full(b) == b.length >= b.total

\* The inbox q after the buffer became b: a full frame that was put together
\* from several messages parses as something or raises an exception.
Parsed(q, b) ==
  IF ~Full(b) THEN {q}
  ELSE IF b.of = Garbage THEN {q, Append(q, Garbage)}
  ELSE {Append(q, b.of)}

\* Mistake: a full frame is delivered and the buffer is kept.
OnWriteKept(p, m, pos, n) ==
  \E b \in Extended(p, m, pos, n) :
    /\ buffer' = [buffer EXCEPT ![p] = b]
    /\ \E q \in Parsed(inbox[p], b) : inbox' = [inbox EXCEPT ![p] = q]

\* struct.unpack fails on a first chunk shorter than a length.
OnWrite(p, m, pos, n) ==
  \/ /\ buffer[p] = NoFrame /\ n < Header
     /\ UNCHANGED <<buffer, inbox>>
  \/ /\ buffer[p] # NoFrame \/ n >= Header
     /\ \E b \in Extended(p, m, pos, n) :
          /\ buffer' = [buffer EXCEPT ![p] = IF Full(b) THEN NoFrame ELSE b]
          /\ \E q \in Parsed(inbox[p], b) : inbox' = [inbox EXCEPT ![p] = q]

(***************************************************************************)
(* A process's life                                                        *)
(***************************************************************************)
Start(d) ==
  /\ d \notin up /\ run[d] < MaxRuns[d]
  /\ up' = up \cup {d}
  /\ run' = [run EXCEPT ![d] = @ + 1]
  /\ peers' = [peers EXCEPT ![d] = {}]
  /\ buffer' = [buffer EXCEPT ![d] = NoFrame]
  /\ inbox' = [inbox EXCEPT ![d] = <<>>]
  /\ cut' = cut \ {d}
  /\ UNCHANGED <<count, sending, writes>>

\* These coroutines are no more.
Drop(W) ==
  /\ writes' = writes \ W
  /\ cut' = cut \cup {p \in Devices : Midway(p) \cap W # {}}

\* stop(), or kill -9: either way the coroutines that send() has given up on
\* end wherever they are.
End(d) ==
  /\ d \in up
  /\ up' = up \ {d}
  /\ sending' = [sending EXCEPT ![d] = NoMessage]
  /\ Drop({w \in writes : w.msg.from = d})
  /\ UNCHANGED <<run, peers, count, buffer, inbox>>

(***************************************************************************)
(* The central                                                             *)
(***************************************************************************)
Discover(d) ==
  /\ Idle(d)
  /\ \E found \in SUBSET {p \in up \ {d} : <<d, p>> \in InRange} :
       peers' = [peers EXCEPT ![d] = @ \cup found]
  /\ UNCHANGED <<up, run, count, sending, writes, buffer, inbox, cut>>

Send(d, p, size) ==
  /\ Idle(d) /\ p \in peers[d]
  /\ count < MaxSends
  /\ count' = count + 1
  /\ LET m == [id |-> count + 1, from |-> d, to |-> p, size |-> size] IN
     /\ sending' = [sending EXCEPT ![d] = m]
     /\ writes' = writes \cup {[msg |-> m, run |-> NoRun, pos |-> 0]}
  /\ UNCHANGED <<up, run, peers, buffer, inbox, cut>>

\* BleakClient connects; the address of a restarted process is the same.
Connect(w) ==
  /\ w.run = NoRun /\ w.msg.to \in up
  /\ writes' = (writes \ {w}) \cup {[msg |-> w.msg, run |-> run[w.msg.to], pos |-> 0]}
  /\ UNCHANGED <<up, run, peers, count, sending, buffer, inbox, cut>>

\* send() returns, or raises what the coroutine raised, unless it gave up.
Return(m) ==
  sending' = [sending EXCEPT ![m.from] = IF @ = m THEN NoMessage ELSE @]

\* payload[i:i + CHUNK_SIZE]
ChunkLength(w) ==
  LET left == w.msg.size - w.pos IN IF left < CHUNK_SIZE THEN left ELSE CHUNK_SIZE

\* One write_gatt_char, with the peripheral's _on_write: response=True awaits it.
WriteChunk(w) ==
  LET m == w.msg
      n == ChunkLength(w)
  IN  /\ Connected(w)
      /\ OnWrite(m.to, m, w.pos, n)
      /\ cut' = IF Midway(m.to) \subseteq {w} THEN cut ELSE cut \cup {m.to}
      /\ \/ /\ w.pos + n < m.size
            /\ writes' = (writes \ {w}) \cup {[msg |-> m, run |-> w.run, pos |-> w.pos + n]}
            /\ UNCHANGED sending
         \/ /\ w.pos + n = m.size
            /\ writes' = writes \ {w}
            /\ Return(m)
      /\ UNCHANGED <<up, run, peers, count>>

\* No connection, or it breaks, perhaps before the last chunk's acknowledgement:
\* nothing is tried again.
WriteFails(w) ==
  /\ Drop({w})
  /\ Return(w.msg)
  /\ UNCHANGED <<up, run, peers, count, buffer, inbox>>

\* Mistake: the message is sent again while the first coroutine goes on.
GiveUpAndResend(d) ==
  /\ sending[d] # NoMessage
  /\ writes' = writes \cup {[msg |-> sending[d], run |-> NoRun, pos |-> 0]}
  /\ UNCHANGED <<up, run, peers, count, sending, buffer, inbox, cut>>

\* result(timeout=20): the coroutine goes on.
GiveUp(d) ==
  /\ sending[d] # NoMessage
  /\ sending' = [sending EXCEPT ![d] = NoMessage]
  /\ UNCHANGED <<up, run, peers, count, writes, buffer, inbox, cut>>

Receive(d) ==
  /\ Idle(d) /\ inbox[d] # <<>>
  /\ inbox' = [inbox EXCEPT ![d] = Tail(@)]
  /\ UNCHANGED <<up, run, peers, count, sending, writes, buffer, cut>>

(***************************************************************************)
(* The system                                                              *)
(***************************************************************************)
Init ==
  /\ up = {}
  /\ run = [d \in Devices |-> 0]
  /\ peers = [d \in Devices |-> {}]
  /\ count = 0
  /\ sending = [d \in Devices |-> NoMessage]
  /\ writes = {}
  /\ buffer = [d \in Devices |-> NoFrame]
  /\ inbox = [d \in Devices |-> <<>>]
  /\ cut = {}

Next ==
  \/ \E d \in Devices : Start(d) \/ End(d) \/ Discover(d) \/ GiveUp(d) \/ Receive(d)
  \/ \E d, p \in Devices, size \in Sizes : Send(d, p, size)
  \/ \E w \in writes : Connect(w) \/ WriteChunk(w) \/ WriteFails(w)

Spec == Init /\ [][Next]_vars
=============================================================================
