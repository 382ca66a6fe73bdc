------------------------- MODULE BleTransportProofs -------------------------
(***************************************************************************)
(* Proofs that BleInv is invariant, and that until a message is cut short  *)
(* or two interleave, a device's inbox is a Channel and acknowledged       *)
(* messages are delivered; and that afterwards it is one but for what no   *)
(* message is.                                                             *)
(***************************************************************************)
EXTENDS BleTransportProps, TLAPS

(***************************************************************************)
(* Types                                                                   *)
(***************************************************************************)
LEMMA InitBle == Init => BleInv
<1> SUFFICES ASSUME Init PROVE BleInv
  OBVIOUS
<1>1. BleTypeOK
  <2>1. NoFrame \in Buffer
    BY DEF NoFrame, Buffer
  <2>2. inbox \in [Devices -> Seq(Message \cup {Garbage})]
    BY DEF Init
  <2> QED BY <2>1, <2>2, BleBounds DEF Init, BleTypeOK
<1>2. WritesSound /\ SendingSound /\ \A p \in up \ cut : Assembles(p)
  BY DEF Init, WritesSound, SendingSound
<1>3. \A p \in Devices : FrameSound(p)
  BY BleGarbage DEF Init, FrameSound, NoFrame
<1> QED BY <1>1, <1>2, <1>3 DEF BleInv

\* What a chunk leaves in the buffer and in the inbox has the right type.
LEMMA OnWriteType ==
  ASSUME BleTypeOK, NEW p \in Devices, NEW m \in Message, NEW pos \in Nat, NEW n \in Nat,
         OnWrite(p, m, pos, n)
  PROVE  /\ buffer' \in [Devices -> Buffer]
         /\ inbox' \in [Devices -> Seq(Message \cup {Garbage})]
<1>1. CASE UNCHANGED <<buffer, inbox>>
  BY <1>1 DEF BleTypeOK
<1>2. CASE ~UNCHANGED <<buffer, inbox>>
  <2>1. /\ buffer[p] # NoFrame \/ n >= Header
        /\ \E b \in Extended(p, m, pos, n) :
             /\ buffer' = [buffer EXCEPT ![p] = IF Full(b) THEN NoFrame ELSE b]
             /\ \E q \in Parsed(inbox[p], b) : inbox' = [inbox EXCEPT ![p] = q]
    BY <1>2 DEF OnWrite
  <2>2. PICK b \in Extended(p, m, pos, n) :
             /\ buffer' = [buffer EXCEPT ![p] = IF Full(b) THEN NoFrame ELSE b]
             /\ \E q \in Parsed(inbox[p], b) : inbox' = [inbox EXCEPT ![p] = q]
    BY <2>1
  <2>3. PICK q \in Parsed(inbox[p], b) : inbox' = [inbox EXCEPT ![p] = q]
    BY <2>2
  <2>4. b \in Buffer /\ b.of \in Message \cup {Garbage}
    <3>1. m.size - Header \in Nat
      <4>1. m.size \in Sizes
        BY DEF Message
      <4>2. m.size \in Nat /\ m.size > 4
        BY <4>1, BleSizes DEF Header
      <4> QED BY <4>2 DEF Header
    <3>2. CASE buffer[p] = NoFrame
      <4>1. n - Header \in Nat
        BY <2>1, <3>2 DEF Header
      <4>2. \A t \in Nat : \A x \in Message \cup {Garbage} :
              [total |-> t, length |-> n - Header, of |-> x] \in Buffer
        BY <4>1 DEF Buffer
      <4>3. PICK t \in IF pos = 0 THEN {m.size - Header} ELSE Misreads :
              b = [total |-> t, length |-> n - Header, of |-> IF pos = 0 THEN m ELSE Garbage]
        BY <3>2 DEF Extended
      <4>4. t \in Nat
        BY <3>1, BleMisreads
      <4> QED BY <4>2, <4>3, <4>4
    <3>3. CASE buffer[p] # NoFrame
      <4>1. b = [total |-> buffer[p].total, length |-> buffer[p].length + n,
                 of |-> IF buffer[p].of = m /\ buffer[p].length = pos - Header
                        THEN m ELSE Garbage]
        BY <3>3 DEF Extended
      <4>2. buffer[p] \in Buffer
        BY DEF BleTypeOK
      <4> QED BY <4>1, <4>2 DEF Buffer
    <3> QED BY <3>2, <3>3
  <2>5. q \in Seq(Message \cup {Garbage})
    <3>1. inbox[p] \in Seq(Message \cup {Garbage})
      BY DEF BleTypeOK
    <3> QED BY <2>3, <2>4, <3>1 DEF Parsed
  <2>6. NoFrame \in Buffer
    BY DEF NoFrame, Buffer
  <2> QED BY <2>2, <2>3, <2>4, <2>5, <2>6 DEF BleTypeOK
<1> QED BY <1>1, <1>2

LEMMA ChunkLengthType ==
  ASSUME BleTypeOK, NEW w \in writes, WriteSound(w)
  PROVE  /\ ChunkLength(w) \in Nat /\ ChunkLength(w) > 0
         /\ w.pos + ChunkLength(w) <= w.msg.size
         /\ w.pos = 0 => ChunkLength(w) > Header
         /\ w.msg \in Message /\ w.msg.size \in Nat /\ w.pos \in Nat /\ w.run \in Nat
         /\ w.msg.size > Header
<1>1. /\ w.msg \in Message /\ w.pos \in Nat /\ w.run \in Nat
      /\ w.msg.size \in Nat /\ w.msg.size > Header /\ w.pos < w.msg.size
  BY BleSizes DEF BleTypeOK, Write, Message, WriteSound
<1> QED BY <1>1, BleChunk DEF ChunkLength, Header

LEMMA NextBleType == BleInv /\ [Next]_vars => BleTypeOK'
<1> SUFFICES ASSUME BleInv, [Next]_vars PROVE BleTypeOK'
  OBVIOUS
<1>0. BleTypeOK /\ \A w \in writes : WriteSound(w)
  BY DEF BleInv, WritesSound
<1>1. ASSUME NEW d \in Devices, Start(d) PROVE BleTypeOK'
  <2>1. NoFrame \in Buffer
    BY DEF NoFrame, Buffer
  <2> QED BY <1>0, <1>1, <2>1 DEF BleTypeOK, Start
<1>2. ASSUME NEW d \in Devices, End(d) PROVE BleTypeOK'
  BY <1>0, <1>2 DEF BleTypeOK, End, Drop
<1>3. ASSUME NEW d \in Devices, Discover(d) PROVE BleTypeOK'
  <2>1. PICK found \in SUBSET {p \in up \ {d} : <<d, p>> \in InRange} :
          peers' = [peers EXCEPT ![d] = peers[d] \cup found]
    BY <1>3 DEF Discover
  <2>2. peers' \in [Devices -> SUBSET Devices]
    BY <1>0, <2>1 DEF BleTypeOK
  <2> QED BY <1>0, <1>3, <2>2 DEF BleTypeOK, Discover
<1>4. ASSUME NEW d \in Devices, NEW p \in Devices, NEW size \in Sizes, Send(d, p, size)
      PROVE BleTypeOK'
  <2> DEFINE m == [id |-> count + 1, from |-> d, to |-> p, size |-> size]
             w == [msg |-> m, run |-> NoRun, pos |-> 0]
  <2>1. count + 1 \in 1..MaxSends
    BY <1>0, <1>4, BleBounds DEF BleTypeOK, Send
  <2>2. m \in Message
    BY <2>1 DEF Message
  <2>3. w \in Write
    BY <2>2 DEF Write, NoRun
  <2>4. count' = count + 1 /\ sending' = [sending EXCEPT ![d] = m] /\ writes' = writes \cup {w}
    BY <1>4 DEF Send
  <2> HIDE DEF m, w
  <2> QED BY <1>0, <1>4, <2>1, <2>2, <2>3, <2>4 DEF BleTypeOK, Send
<1>5. ASSUME NEW w \in writes, Connect(w) PROVE BleTypeOK'
  <2>1. w.msg \in Message /\ run[w.msg.to] \in Nat
    BY <1>0 DEF BleTypeOK, Write, Message
  <2>2. [msg |-> w.msg, run |-> run[w.msg.to], pos |-> 0] \in Write
    BY <2>1 DEF Write
  <2> QED BY <1>0, <1>5, <2>2 DEF BleTypeOK, Connect
<1>6. ASSUME NEW w \in writes, WriteChunk(w) PROVE BleTypeOK'
  <2> DEFINE n == ChunkLength(w)
             v == [msg |-> w.msg, run |-> w.run, pos |-> w.pos + n]
  <2>1. /\ w.msg \in Message /\ w.pos \in Nat /\ w.run \in Nat /\ n \in Nat
        /\ w.msg.to \in Devices
    BY <1>0, ChunkLengthType DEF Message
  <2>2. v \in Write
    BY <2>1 DEF Write
  <2> HIDE DEF n, v
  <2>3. /\ OnWrite(w.msg.to, w.msg, w.pos, n)
        /\ cut' = cut \/ cut' = cut \cup {w.msg.to}
        /\ UNCHANGED <<up, run, peers, count>>
    BY <1>6 DEF WriteChunk, n
  <2>4. \/ writes' = (writes \ {w}) \cup {v} /\ UNCHANGED sending
        \/ writes' = writes \ {w} /\ Return(w.msg)
    BY <1>6 DEF WriteChunk, n, v
  <2>5. /\ buffer' \in [Devices -> Buffer]
        /\ inbox' \in [Devices -> Seq(Message \cup {Garbage})]
    BY <1>0, <2>1, <2>3, OnWriteType
  <2>6. sending' \in [Devices -> Message \cup {NoMessage}]
    BY <1>0, <2>4 DEF Return, BleTypeOK
  <2>7. writes' \subseteq Write
    BY <1>0, <2>2, <2>4 DEF BleTypeOK
  <2>8. cut' \subseteq Devices
    BY <1>0, <2>1, <2>3 DEF BleTypeOK
  <2> QED BY <1>0, <2>3, <2>5, <2>6, <2>7, <2>8 DEF BleTypeOK
<1>7. ASSUME NEW w \in writes, WriteFails(w) PROVE BleTypeOK'
  BY <1>0, <1>7 DEF BleTypeOK, WriteFails, Drop, Return
<1>8. ASSUME NEW d \in Devices, GiveUp(d) PROVE BleTypeOK'
  BY <1>0, <1>8 DEF BleTypeOK, GiveUp
<1>9. ASSUME NEW d \in Devices, Receive(d) PROVE BleTypeOK'
  <2>1. Tail(inbox[d]) \in Seq(Message \cup {Garbage})
    BY <1>0, <1>9 DEF BleTypeOK, Receive
  <2> QED BY <1>0, <1>9, <2>1 DEF BleTypeOK, Receive
<1>10. CASE UNCHANGED vars
  BY <1>0, <1>10 DEF BleTypeOK, vars
<1> QED BY <1>1, <1>2, <1>3, <1>4, <1>5, <1>6, <1>7, <1>8, <1>9, <1>10 DEF Next

(***************************************************************************)
(* Coroutines                                                              *)
(***************************************************************************)
\* Coroutines of processes that still run, numbered as before, stay sound.
LEMMA KeepsWrites ==
  ASSUME WritesSound, writes' \subseteq writes,
         \A w \in writes' : w.msg.from \in up' /\ run'[w.msg.to] >= run[w.msg.to],
         BleTypeOK, BleTypeOK', count' >= count, \A d \in Devices : d \notin peers'[d],
         \A d \in up' : run'[d] # NoRun
  PROVE  WritesSound'
<1>1. ASSUME NEW w \in writes' PROVE WriteSound(w)'
  <2>1. w \in writes /\ WriteSound(w) /\ w.msg \in Message /\ w.run \in Nat
    BY DEF WritesSound, BleTypeOK, Write
  <2>2. /\ run[w.msg.to] \in Nat /\ run'[w.msg.to] \in Nat /\ run'[w.msg.to] >= run[w.msg.to]
        /\ count \in Nat /\ count' \in Nat /\ w.msg.id \in Nat
    BY <2>1, BleBounds DEF BleTypeOK, Message
  <2> QED BY <2>1, <2>2 DEF WriteSound
<1> QED BY <1>1 DEF WritesSound

LEMMA NextWrites == BleInv /\ [Next]_vars => WritesSound'
<1> SUFFICES ASSUME BleInv, [Next]_vars PROVE WritesSound'
  OBVIOUS
<1>0. BleTypeOK /\ BleTypeOK' /\ WritesSound /\ count \in Nat
  BY NextBleType DEF BleInv, BleTypeOK
<1>a. /\ \A w \in writes : WriteSound(w) /\ w.msg \in Message /\ run[w.msg.to] \in Nat
      /\ \A d \in Devices : d \notin peers[d]
      /\ \A d \in up : run[d] # NoRun
  BY <1>0 DEF WritesSound, BleTypeOK, Write, Message
<1>1. ASSUME NEW d \in Devices, Start(d) PROVE WritesSound'
  <2>1. \A w \in writes' : w.msg.from \in up' /\ run'[w.msg.to] >= run[w.msg.to]
    <3> SUFFICES ASSUME NEW w \in writes
                 PROVE w.msg.from \in up' /\ run'[w.msg.to] >= run[w.msg.to]
      BY <1>1 DEF Start
    <3>1. w.msg.from \in up /\ w.msg.to \in Devices /\ run[w.msg.to] \in Nat
      BY <1>a DEF WriteSound, Message
    <3> QED BY <1>0, <1>1, <3>1 DEF Start, BleTypeOK
  <2>2. \A e \in Devices : e \notin peers'[e]
    BY <1>0, <1>a, <1>1 DEF Start, BleTypeOK
  <2>3. \A e \in up' : run'[e] # NoRun
    BY <1>0, <1>a, <1>1 DEF Start, BleTypeOK, NoRun
  <2> QED BY <1>0, <1>1, <2>1, <2>2, <2>3, KeepsWrites DEF Start
<1>2. ASSUME NEW d \in Devices, End(d) PROVE WritesSound'
  <2>1. \A w \in writes' : w.msg.from \in up' /\ run'[w.msg.to] >= run[w.msg.to]
    BY <1>a, <1>2 DEF End, Drop, WriteSound
  <2> QED BY <1>0, <1>a, <1>2, <2>1, KeepsWrites DEF End, Drop
<1>3. ASSUME NEW d \in Devices, Discover(d) PROVE WritesSound'
  <2>1. PICK found \in SUBSET {p \in up \ {d} : <<d, p>> \in InRange} :
          peers' = [peers EXCEPT ![d] = peers[d] \cup found]
    BY <1>3 DEF Discover
  <2>2. \A e \in Devices : e \notin peers'[e]
    BY <1>0, <1>a, <2>1 DEF BleTypeOK
  <2>3. \A w \in writes' : w.msg.from \in up' /\ run'[w.msg.to] >= run[w.msg.to]
    BY <1>a, <1>3 DEF Discover, WriteSound
  <2> QED BY <1>0, <1>a, <1>3, <2>2, <2>3, KeepsWrites DEF Discover
<1>4. ASSUME NEW d \in Devices, NEW p \in Devices, NEW size \in Sizes, Send(d, p, size)
      PROVE WritesSound'
  <2>0. PICK w : w = [msg |-> [id |-> count + 1, from |-> d, to |-> p, size |-> size],
                      run |-> NoRun, pos |-> 0]
    OBVIOUS
  <2>1. /\ writes' = writes \cup {w} /\ count' = count + 1 /\ d \in up /\ p \in peers[d]
        /\ UNCHANGED <<up, run, peers>>
    BY <1>4, <2>0 DEF Send, Idle
  <2>2. WriteSound(w)'
    <3>1. 0 < size /\ d # p /\ run[p] \in Nat /\ 0 <= run[p]
      BY <1>0, <1>a, <2>1, BleSizes DEF Header, BleTypeOK
    <3>2. /\ w.msg.from = d /\ w.msg.to = p /\ w.msg.id = count + 1 /\ w.msg.size = size
          /\ w.run = 0 /\ w.pos = 0
      BY <2>0 DEF NoRun
    <3> QED BY <1>0, <2>1, <3>1, <3>2 DEF WriteSound
  <2>3. \A v \in writes : WriteSound(v)' /\ v.msg.id <= count /\ v.msg.id \in Nat
    BY <1>0, <1>a, <2>1 DEF WriteSound, Message
  <2>4. w.msg.id = count + 1
    BY <2>0
  <2>5. \A v \in writes : v.msg.id # w.msg.id
    BY <1>0, <2>3, <2>4
  <2>6. \A v, u \in writes' : v.msg.id = u.msg.id => v = u
    BY <1>0, <2>1, <2>5 DEF WritesSound
  <2> QED BY <1>a, <2>1, <2>2, <2>3, <2>6 DEF WritesSound
<1>5. ASSUME NEW w \in writes, Connect(w) PROVE WritesSound'
  <2>0. PICK v : v = [msg |-> w.msg, run |-> run[w.msg.to], pos |-> 0]
    OBVIOUS
  <2>1. v.msg = w.msg /\ v.run = run[w.msg.to] /\ v.pos = 0
    BY <2>0
  <2>2. /\ writes' = (writes \ {w}) \cup {v} /\ UNCHANGED <<up, run, peers, count>>
    BY <1>5, <2>0 DEF Connect
  <2>3. WriteSound(v)'
    <3>1. w.pos \in Nat /\ w.msg.size \in Nat /\ w.msg.size > Header
      BY <1>0, <1>a, ChunkLengthType
    <3> QED BY <1>a, <2>1, <2>2, <3>1 DEF WriteSound, Header
  <2>4. \A u \in writes : WriteSound(u)'
    BY <1>a, <2>2 DEF WriteSound
  <2>5. \A x, u \in writes' : x.msg.id = u.msg.id => x = u
    BY <1>0, <2>1, <2>2 DEF WritesSound
  <2> QED BY <1>a, <2>2, <2>3, <2>4, <2>5 DEF WritesSound
<1>6. ASSUME NEW w \in writes, WriteChunk(w) PROVE WritesSound'
  <2>0. PICK v : v = [msg |-> w.msg, run |-> w.run, pos |-> w.pos + ChunkLength(w)]
    OBVIOUS
  <2>1. v.msg = w.msg /\ v.run = w.run /\ v.pos = w.pos + ChunkLength(w)
    BY <2>0
  <2>2. /\ UNCHANGED <<up, run, peers, count>>
        /\ Connected(w)
        /\ \/ writes' = (writes \ {w}) \cup {v} /\ v.pos < w.msg.size
           \/ writes' = writes \ {w}
    BY <1>6, <2>0 DEF WriteChunk
  <2>3. \A u \in writes : WriteSound(u)'
    BY <1>a, <2>2 DEF WriteSound
  <2>4. CASE writes' = writes \ {w}
    <3>1. \A u \in writes' : u.msg.from \in up' /\ run'[u.msg.to] >= run[u.msg.to]
      BY <1>a, <2>2, <2>4 DEF WriteSound
    <3> QED BY <1>0, <1>a, <2>2, <2>4, <3>1, KeepsWrites
  <2>5. CASE writes' = (writes \ {w}) \cup {v} /\ v.pos < w.msg.size
    <3>1. v.run # NoRun
      <4>1. CASE w.run = NoRun
        <5>1. w.msg.to \in up /\ run[w.msg.to] = 0
          BY <2>2, <4>1 DEF Connected, NoRun
        <5> QED BY <5>1, <1>a DEF NoRun
      <4> QED BY <2>1, <4>1
    <3>2. WriteSound(v)'
      BY <1>a, <2>1, <2>2, <2>5, <3>1 DEF WriteSound
    <3>3. \A x, u \in writes' : x.msg.id = u.msg.id => x = u
      BY <1>0, <2>1, <2>5 DEF WritesSound
    <3> QED BY <1>a, <2>2, <2>3, <2>5, <3>2, <3>3 DEF WritesSound
  <2> QED BY <2>2, <2>4, <2>5
<1>7. ASSUME NEW w \in writes, WriteFails(w) PROVE WritesSound'
  <2>1. \A u \in writes' : u.msg.from \in up' /\ run'[u.msg.to] >= run[u.msg.to]
    BY <1>a, <1>7 DEF WriteFails, Drop, WriteSound
  <2> QED BY <1>0, <1>a, <1>7, <2>1, KeepsWrites DEF WriteFails, Drop
<1>8. ASSUME NEW d \in Devices, GiveUp(d) \/ Receive(d) PROVE WritesSound'
  BY <1>0, <1>8 DEF GiveUp, Receive, WritesSound, WriteSound
<1>9. CASE UNCHANGED vars
  BY <1>0, <1>9 DEF vars, WritesSound, WriteSound
<1> QED BY <1>1, <1>2, <1>3, <1>4, <1>5, <1>6, <1>7, <1>8, <1>9 DEF Next

\* A process that stays in send() keeps the coroutine it waits for.
LEMMA NextSending == BleInv /\ [Next]_vars => SendingSound'
<1> SUFFICES ASSUME BleInv, [Next]_vars PROVE SendingSound'
  OBVIOUS
<1>0. BleTypeOK /\ SendingSound /\ WritesSound
  BY DEF BleInv
<1>a. \A w \in writes : w.msg \in Message /\ w.msg # NoMessage
  BY <1>0, BleGarbage DEF BleTypeOK, Write
<1>1. ASSUME NEW d \in Devices, Start(d) \/ Discover(d) \/ Receive(d) PROVE SendingSound'
  BY <1>0, <1>1 DEF SendingSound, Start, Discover, Receive
<1>2. ASSUME NEW d \in Devices, End(d) PROVE SendingSound'
  <2> SUFFICES ASSUME NEW e \in Devices, sending'[e] # NoMessage
               PROVE sending'[e].from = e /\ \E w \in writes' : w.msg = sending'[e]
    BY DEF SendingSound
  <2>1. e # d /\ sending'[e] = sending[e]
    BY <1>0, <1>2 DEF End, BleTypeOK
  <2>2. PICK w \in writes : w.msg = sending[e] /\ sending[e].from = e
    BY <1>0, <2>1 DEF SendingSound
  <2>3. w \in writes'
    BY <1>2, <2>1, <2>2 DEF End, Drop
  <2> QED BY <2>1, <2>2, <2>3
<1>3. ASSUME NEW d \in Devices, NEW p \in Devices, NEW size \in Sizes, Send(d, p, size)
      PROVE SendingSound'
  <2> SUFFICES ASSUME NEW e \in Devices, sending'[e] # NoMessage
               PROVE sending'[e].from = e /\ \E w \in writes' : w.msg = sending'[e]
    BY DEF SendingSound
  <2>0. PICK m : m = [id |-> count + 1, from |-> d, to |-> p, size |-> size]
    OBVIOUS
  <2>1. /\ sending' = [sending EXCEPT ![d] = m]
        /\ writes' = writes \cup {[msg |-> m, run |-> NoRun, pos |-> 0]}
    BY <1>3, <2>0 DEF Send
  <2>2. CASE e = d
    <3>1. sending'[e] = m /\ m.from = d
      BY <1>0, <2>0, <2>1, <2>2 DEF BleTypeOK
    <3>2. PICK w : w = [msg |-> m, run |-> NoRun, pos |-> 0]
      OBVIOUS
    <3>3. w \in writes' /\ w.msg = m
      BY <2>1, <3>2
    <3> QED BY <2>2, <3>1, <3>3
  <2>3. CASE e # d
    <3>1. sending'[e] = sending[e]
      BY <1>0, <2>1, <2>3 DEF BleTypeOK
    <3> QED BY <1>0, <2>1, <3>1 DEF SendingSound
  <2> QED BY <2>2, <2>3
<1>4. ASSUME NEW w \in writes, Connect(w) PROVE SendingSound'
  <2> SUFFICES ASSUME NEW e \in Devices, sending'[e] # NoMessage
               PROVE sending'[e].from = e /\ \E u \in writes' : u.msg = sending'[e]
    BY DEF SendingSound
  <2>1. sending' = sending
    BY <1>4 DEF Connect
  <2>2. PICK u \in writes : u.msg = sending[e] /\ sending[e].from = e
    BY <1>0, <2>1 DEF SendingSound
  <2>3. \E x \in writes' : x.msg = u.msg
    <3>1. PICK v : v = [msg |-> w.msg, run |-> run[w.msg.to], pos |-> 0]
      OBVIOUS
    <3>2. writes' = (writes \ {w}) \cup {v} /\ v.msg = w.msg
      BY <1>4, <3>1 DEF Connect
    <3> QED BY <3>2
  <2> QED BY <2>1, <2>2, <2>3
<1>5. ASSUME NEW w \in writes, WriteChunk(w) \/ WriteFails(w), writes' = writes \ {w},
             Return(w.msg)
      PROVE SendingSound'
  <2> SUFFICES ASSUME NEW e \in Devices, sending'[e] # NoMessage
               PROVE sending'[e].from = e /\ \E u \in writes' : u.msg = sending'[e]
    BY DEF SendingSound
  <2>0. w.msg.from \in Devices
    BY <1>a DEF Message
  <2>1. sending'[e] = sending[e]
    BY <1>0, <1>5, <2>0 DEF Return, BleTypeOK
  <2>2. PICK u \in writes : u.msg = sending[e] /\ sending[e].from = e
    BY <1>0, <2>1 DEF SendingSound
  <2>3. u # w
    BY <1>0, <1>5, <2>0, <2>1, <2>2 DEF Return, BleTypeOK
  <2> QED BY <1>5, <2>1, <2>2, <2>3
<1>6. ASSUME NEW w \in writes, WriteChunk(w) PROVE SendingSound'
  <2>1. CASE writes' = writes \ {w} /\ Return(w.msg)
    BY <1>5, <1>6, <2>1
  <2>2. CASE UNCHANGED sending
    <3> SUFFICES ASSUME NEW e \in Devices, sending'[e] # NoMessage
                 PROVE sending'[e].from = e /\ \E u \in writes' : u.msg = sending'[e]
      BY DEF SendingSound
    <3>1. PICK u \in writes : u.msg = sending[e] /\ sending[e].from = e
      BY <1>0, <2>2 DEF SendingSound
    <3>2. (\E x \in writes' : x.msg = u.msg) \/ (writes' = writes \ {w} /\ Return(w.msg))
      <4>1. PICK v : v = [msg |-> w.msg, run |-> w.run, pos |-> w.pos + ChunkLength(w)]
        OBVIOUS
      <4>2. /\ v.msg = w.msg
            /\ \/ writes' = (writes \ {w}) \cup {v}
               \/ writes' = writes \ {w} /\ Return(w.msg)
        BY <1>6, <4>1 DEF WriteChunk
      <4> QED BY <4>2
    <3>3. CASE writes' = writes \ {w} /\ Return(w.msg)
      BY <1>5, <1>6, <3>3 DEF SendingSound
    <3> QED BY <2>2, <3>1, <3>2, <3>3
  <2> QED BY <1>6, <2>1, <2>2 DEF WriteChunk
<1>7. ASSUME NEW w \in writes, WriteFails(w) PROVE SendingSound'
  BY <1>5, <1>7 DEF WriteFails, Drop
<1>8. ASSUME NEW d \in Devices, GiveUp(d) PROVE SendingSound'
  BY <1>0, <1>8 DEF GiveUp, SendingSound, BleTypeOK
<1>9. CASE UNCHANGED vars
  BY <1>0, <1>9 DEF vars, SendingSound
<1> QED BY <1>1, <1>2, <1>3, <1>4, <1>6, <1>7, <1>8, <1>9 DEF Next

(***************************************************************************)
(* Reassembly                                                              *)
(***************************************************************************)
\* What a chunk does to a buffer that no other write is in.
LEMMA ChunkEffect ==
  ASSUME BleInv, NEW w \in writes, WriteChunk(w), w.msg.to \notin cut'
  PROVE  /\ w.msg.to \in up /\ w.msg.to \notin cut /\ w.msg.to \in Devices
         /\ Connected(w) /\ Midway(w.msg.to) \subseteq {w}
         /\ \/ \E v : /\ v.msg = w.msg /\ v.run = w.run /\ v.pos = w.pos + ChunkLength(w)
                     /\ writes' = (writes \ {w}) \cup {v}
                     /\ buffer' = [buffer EXCEPT ![w.msg.to] =
                          [total |-> v.msg.size - Header, length |-> v.pos - Header,
                           of |-> v.msg]]
                     /\ inbox' = inbox
           \/ /\ writes' = writes \ {w}
              /\ buffer' = [buffer EXCEPT ![w.msg.to] = NoFrame]
              /\ inbox' = [inbox EXCEPT ![w.msg.to] = Append(inbox[w.msg.to], w.msg)]
<1> DEFINE p == w.msg.to
           n == ChunkLength(w)
<1>1. /\ BleTypeOK /\ WriteSound(w) /\ w.msg \in Message /\ p \in Devices
      /\ n \in Nat /\ n > 0 /\ w.pos + n <= w.msg.size /\ (w.pos = 0 => n > Header)
      /\ w.msg.size \in Nat /\ w.pos \in Nat /\ w.msg.size > Header
  BY ChunkLengthType DEF BleInv, WritesSound, Message
<1>2. Connected(w) /\ p \in up /\ p \notin cut /\ Midway(p) \subseteq {w}
  BY DEF WriteChunk, Connected
<1>3. Assembles(p)
  BY <1>2 DEF BleInv
<1>4. w.msg # NoMessage /\ w.msg # Garbage
  BY <1>1, BleGarbage
<1> DEFINE after == [total |-> w.msg.size - Header, length |-> (w.pos + n) - Header, of |-> w.msg]
<1>5. /\ Extended(p, w.msg, w.pos, n) = {after}
      /\ buffer[p] # NoFrame \/ n >= Header
  <2>1. CASE w.pos = 0
    <3>1. w \notin Midway(p)
      BY <2>1 DEF Midway
    <3>2. buffer[p] = NoFrame
      BY <1>2, <1>3, <3>1 DEF Assembles
    <3>3. (w.pos + n) - Header = n - Header
      BY <1>1, <2>1 DEF Header
    <3> QED BY <1>1, <2>1, <3>2, <3>3 DEF Extended, Header
  <2>2. CASE w.pos # 0
    <3>1. w \in Midway(p)
      BY <1>1, <1>2, <2>2 DEF Midway
    <3>2. buffer[p] = [total |-> w.msg.size - Header, length |-> w.pos - Header, of |-> w.msg]
      BY <1>2, <1>3, <3>1 DEF Assembles
    <3>3. buffer[p] # NoFrame
      BY <1>4, <3>2 DEF NoFrame
    <3>4. (w.pos - Header) + n = (w.pos + n) - Header
      BY <1>1 DEF Header
    <3> QED BY <3>2, <3>3, <3>4 DEF Extended
  <2> QED BY <2>1, <2>2
<1>6. /\ buffer' = [buffer EXCEPT ![p] = IF Full(after) THEN NoFrame ELSE after]
      /\ \E q \in Parsed(inbox[p], after) : inbox' = [inbox EXCEPT ![p] = q]
  <2>1. OnWrite(p, w.msg, w.pos, n)
    BY DEF WriteChunk
  <2>2. \E b \in Extended(p, w.msg, w.pos, n) :
          /\ buffer' = [buffer EXCEPT ![p] = IF Full(b) THEN NoFrame ELSE b]
          /\ \E q \in Parsed(inbox[p], b) : inbox' = [inbox EXCEPT ![p] = q]
    <3>1. ~(buffer[p] = NoFrame /\ n < Header)
      BY <1>1, <1>5 DEF Header
    <3> QED BY <2>1, <3>1 DEF OnWrite
  <2> QED BY <1>5, <2>2
<1>7. Full(after) <=> w.pos + n = w.msg.size
  BY <1>1 DEF Full, Header
<1>8. CASE w.pos + n < w.msg.size
  <2>1. ~Full(after)
    BY <1>1, <1>7, <1>8
  <2>2. inbox' = inbox
    BY <1>1, <1>6, <2>1 DEF Parsed, BleTypeOK
  <2>3. PICK v : v = [msg |-> w.msg, run |-> w.run, pos |-> w.pos + n]
    OBVIOUS
  <2>4. v.msg = w.msg /\ v.run = w.run /\ v.pos = w.pos + n
    BY <2>3
  <2>5. writes' = (writes \ {w}) \cup {v}
    BY <1>1, <1>8, <2>3 DEF WriteChunk
  <2>6. buffer' = [buffer EXCEPT ![p] =
          [total |-> v.msg.size - Header, length |-> v.pos - Header, of |-> v.msg]]
    <3>1. [total |-> v.msg.size - Header, length |-> v.pos - Header, of |-> v.msg] = after
      <4>1. v.pos - Header = (w.pos + n) - Header
        BY <2>4
      <4> QED BY <2>4, <4>1, Zenon
    <3>2. buffer' = [buffer EXCEPT ![p] = after]
      BY <1>6, <2>1
    <3> HIDE DEF after
    <3> QED BY <3>1, <3>2
  <2> QED BY <1>1, <1>2, <2>2, <2>4, <2>5, <2>6
<1>9. CASE w.pos + n = w.msg.size
  <2>1. Full(after)
    BY <1>7, <1>9
  <2>2. inbox' = [inbox EXCEPT ![p] = Append(inbox[p], w.msg)]
    BY <1>4, <1>6, <2>1 DEF Parsed
  <2>3. writes' = writes \ {w}
    BY <1>1, <1>9 DEF WriteChunk
  <2> QED BY <1>1, <1>2, <1>6, <2>1, <2>2, <2>3
<1>10. w.pos + n < w.msg.size \/ w.pos + n = w.msg.size
  BY <1>1
<1> HIDE DEF n
<1> QED BY <1>8, <1>9, <1>10, Zenon

\* A device to which nothing is written keeps its buffer sound.
LEMMA KeepsBuffer ==
  ASSUME NEW p, Assembles(p), buffer'[p] = buffer[p], Midway(p)' = Midway(p)
  PROVE  Assembles(p)'
BY DEF Assembles

LEMMA NextAssembles == BleInv /\ [Next]_vars => \A p \in up' \ cut' : Assembles(p)'
<1> SUFFICES ASSUME BleInv, [Next]_vars, NEW p \in up', p \notin cut' PROVE Assembles(p)'
  OBVIOUS
<1>0. BleTypeOK /\ p \in Devices
  BY NextBleType DEF BleInv, BleTypeOK
<1>a. \A w \in writes : WriteSound(w) /\ w.msg.to \in Devices /\ w.run \in Nat
  BY DEF BleInv, WritesSound, BleTypeOK, Write, Message
<1>b. p \in up /\ p \notin cut => Assembles(p)
  BY DEF BleInv
<1>1. ASSUME NEW d \in Devices, Start(d) PROVE Assembles(p)'
  <2>1. CASE p = d
    <3>1. buffer'[p] = NoFrame /\ run'[p] = run[p] + 1 /\ run[p] \in Nat
      BY <1>0, <1>1, <2>1 DEF Start, BleTypeOK
    <3>2. Midway(p)' = {}
      BY <1>1, <1>a, <3>1 DEF Start, Midway, Connected, WriteSound
    <3> QED BY <3>1, <3>2 DEF Assembles
  <2>2. CASE p # d
    <3>1. /\ p \in up /\ p \notin cut /\ buffer'[p] = buffer[p] /\ run'[p] = run[p]
          /\ writes' = writes
      BY <1>0, <1>1, <2>2 DEF Start, BleTypeOK
    <3>2. Midway(p)' = Midway(p)
      BY <3>1 DEF Midway, Connected
    <3> QED BY <1>b, <3>1, <3>2, KeepsBuffer
  <2> QED BY <2>1, <2>2
<1>2. ASSUME NEW W, Drop(W), UNCHANGED <<run, buffer>>, up' \subseteq up
      PROVE Assembles(p)'
  <2>1. p \notin cut /\ p \in up /\ Midway(p) \cap W = {}
    BY <1>0, <1>2 DEF Drop
  <2>2. Midway(p)' = Midway(p)
    BY <1>2, <2>1 DEF Drop, Midway, Connected
  <2> QED BY <1>2, <1>b, <2>1, <2>2, KeepsBuffer
<1>3. ASSUME NEW d \in Devices, NEW q \in Devices, NEW size \in Sizes, Send(d, q, size)
      PROVE Assembles(p)'
  <2>0. PICK w : w = [msg |-> [id |-> count + 1, from |-> d, to |-> q, size |-> size],
                      run |-> NoRun, pos |-> 0]
    OBVIOUS
  <2>1. writes' = writes \cup {w} /\ w.pos = 0
    BY <1>3, <2>0 DEF Send
  <2>2. UNCHANGED <<up, run, buffer, cut>>
    BY <1>3 DEF Send
  <2>3. Midway(p)' = Midway(p)
    BY <2>1, <2>2 DEF Midway, Connected
  <2> QED BY <1>b, <2>2, <2>3, KeepsBuffer
<1>4. ASSUME NEW w \in writes, Connect(w) PROVE Assembles(p)'
  <2>1. w.pos = 0
    BY <1>a, <1>4 DEF Connect, WriteSound
  <2>0. PICK v : v = [msg |-> w.msg, run |-> run[w.msg.to], pos |-> 0]
    OBVIOUS
  <2>2. writes' = (writes \ {w}) \cup {v} /\ v.pos = 0
    BY <1>4, <2>0 DEF Connect
  <2>3. UNCHANGED <<up, run, buffer, cut>>
    BY <1>4 DEF Connect
  <2>4. Midway(p)' = Midway(p)
    BY <2>1, <2>2, <2>3 DEF Midway, Connected
  <2> QED BY <1>b, <2>3, <2>4, KeepsBuffer
<1>5. ASSUME NEW w \in writes, WriteChunk(w) PROVE Assembles(p)'
  <2>1. PICK v : v = [msg |-> w.msg, run |-> w.run, pos |-> w.pos + ChunkLength(w)]
    OBVIOUS
  <2>2. /\ v.msg = w.msg /\ v.run = w.run /\ v.pos = w.pos + ChunkLength(w)
        /\ ChunkLength(w) > 0 /\ ChunkLength(w) \in Nat /\ w.pos \in Nat
    BY <1>0, <1>a, <2>1, ChunkLengthType
  <2>3. /\ UNCHANGED <<up, run>>
        /\ writes' = writes \ {w} \/ writes' = (writes \ {w}) \cup {v}
    BY <1>5, <2>1 DEF WriteChunk
  <2>4. CASE p = w.msg.to
    <3>0. Connected(w) /\ Midway(p) \subseteq {w}
      BY <1>5, <2>4, ChunkEffect
    <3>1. ASSUME NEW x, x.msg = w.msg, x.run = w.run, x.pos = w.pos + ChunkLength(w),
                 writes' = (writes \ {w}) \cup {x},
                 buffer' = [buffer EXCEPT ![p] =
                   [total |-> x.msg.size - Header, length |-> x.pos - Header, of |-> x.msg]]
          PROVE  Assembles(p)'
      <4>1. Midway(p)' = {x}
        BY <2>2, <2>3, <2>4, <3>0, <3>1 DEF Midway, Connected
      <4>2. buffer'[p] = [total |-> x.msg.size - Header, length |-> x.pos - Header, of |-> x.msg]
        BY <1>0, <3>1 DEF BleTypeOK
      <4>3. x \in Midway(p)'
        BY <4>1
      <4> QED BY <4>1, <4>2, <4>3, Zenon DEF Assembles
    <3>2. ASSUME writes' = writes \ {w}, buffer' = [buffer EXCEPT ![p] = NoFrame]
          PROVE  Assembles(p)'
      <4>1. Midway(p)' = {}
        BY <2>3, <3>0, <3>2 DEF Midway, Connected
      <4>2. buffer'[p] = NoFrame
        BY <1>0, <3>2 DEF BleTypeOK
      <4> QED BY <4>1, <4>2 DEF Assembles
    <3> QED BY <1>5, <2>4, <3>1, <3>2, ChunkEffect
  <2>5. CASE p # w.msg.to
    <3>1. p \notin cut
      BY <1>5 DEF WriteChunk
    <3>2. buffer'[p] = buffer[p]
      BY <1>0, <1>5, <2>5 DEF WriteChunk, OnWrite, BleTypeOK
    <3>3. Midway(p)' = Midway(p)
      BY <2>2, <2>3, <2>5 DEF Midway, Connected
    <3> QED BY <1>b, <2>3, <3>1, <3>2, <3>3, KeepsBuffer
  <2> QED BY <2>4, <2>5
<1>6. ASSUME UNCHANGED <<up, run, writes, buffer, cut>> PROVE Assembles(p)'
  BY <1>b, <1>6, KeepsBuffer DEF Midway, Connected
<1>7. ASSUME NEW d \in Devices, End(d) PROVE Assembles(p)'
  BY <1>2, <1>7 DEF End
<1>8. ASSUME NEW w \in writes, WriteFails(w) PROVE Assembles(p)'
  BY <1>2, <1>8 DEF WriteFails
<1>9. ASSUME NEW d \in Devices, Discover(d) \/ GiveUp(d) \/ Receive(d) PROVE Assembles(p)'
  BY <1>6, <1>9 DEF Discover, GiveUp, Receive
<1>10. CASE UNCHANGED vars
  BY <1>6, <1>10 DEF vars
<1> QED BY <1>1, <1>3, <1>4, <1>5, <1>7, <1>8, <1>9, <1>10 DEF Next

(***************************************************************************)
(* Frames cut into                                                         *)
(***************************************************************************)
\* What a chunk makes of any buffer: a frame that is still one message's, and
\* full only with that message's last chunk, or none.
LEMMA ChunkOfFrame ==
  ASSUME BleInv, NEW w \in writes, NEW b \in Extended(w.msg.to, w.msg, w.pos, ChunkLength(w)),
         b.of \in Message
  PROVE  /\ b.of = w.msg /\ b.total = w.msg.size - Header
         /\ b.length = (w.pos + ChunkLength(w)) - Header
<1> DEFINE p == w.msg.to
           n == ChunkLength(w)
<1>1. /\ n \in Nat /\ w.pos \in Nat /\ w.msg.size \in Nat
      /\ BleTypeOK /\ p \in Devices /\ w.msg \in Message /\ FrameSound(p)
  BY ChunkLengthType DEF BleInv, WritesSound, Message
<1> HIDE DEF n
<1>2. CASE buffer[p] = NoFrame
  <2>1. PICK t \in IF w.pos = 0 THEN {w.msg.size - Header} ELSE Misreads :
          b = [total |-> t, length |-> n - Header, of |-> IF w.pos = 0 THEN w.msg ELSE Garbage]
    BY <1>2 DEF Extended, n
  <2>2. w.pos = 0
    BY <2>1, BleGarbage
  <2>3. n - Header = (w.pos + n) - Header
    BY <1>1, <2>2 DEF Header
  <2> QED BY <2>1, <2>2, <2>3 DEF n
<1>3. CASE buffer[p] # NoFrame
  <2>1. b = [total |-> buffer[p].total, length |-> buffer[p].length + n,
             of |-> IF buffer[p].of = w.msg /\ buffer[p].length = w.pos - Header
                    THEN w.msg ELSE Garbage]
    BY <1>3 DEF Extended, n
  <2>2. buffer[p].of = w.msg /\ buffer[p].length = w.pos - Header
    BY <2>1, BleGarbage
  <2>3. buffer[p].total = w.msg.size - Header
    BY <1>1, <2>2 DEF FrameSound
  <2>4. (w.pos - Header) + n = (w.pos + n) - Header
    BY <1>1 DEF Header
  <2> QED BY <2>1, <2>2, <2>3, <2>4 DEF n
<1> QED BY <1>2, <1>3

LEMMA NextFrame == BleInv /\ [Next]_vars => \A p \in Devices : FrameSound(p)'
<1> SUFFICES ASSUME BleInv, [Next]_vars, NEW p \in Devices PROVE FrameSound(p)'
  OBVIOUS
<1>0. BleTypeOK /\ FrameSound(p) /\ \A w \in writes : w.msg.to \in Devices
  BY DEF BleInv, BleTypeOK, Write, Message
<1>1. CASE buffer'[p] = buffer[p]
  BY <1>0, <1>1 DEF FrameSound
<1>2. CASE buffer'[p] = NoFrame
  BY <1>2, BleGarbage DEF FrameSound, NoFrame
<1>3. ASSUME NEW d \in Devices, Start(d) PROVE buffer'[p] = buffer[p] \/ buffer'[p] = NoFrame
  BY <1>0, <1>3 DEF Start, BleTypeOK
<1>4. ASSUME NEW w \in writes, WriteChunk(w) PROVE FrameSound(p)'
  <2>1. OnWrite(w.msg.to, w.msg, w.pos, ChunkLength(w))
    BY <1>4 DEF WriteChunk
  <2>2. CASE UNCHANGED buffer \/ w.msg.to # p
    <3>1. buffer'[p] = buffer[p]
      BY <1>0, <2>1, <2>2 DEF OnWrite, BleTypeOK
    <3> QED BY <1>1, <3>1
  <2>3. CASE ~UNCHANGED buffer /\ w.msg.to = p
    <3>1. PICK b \in Extended(p, w.msg, w.pos, ChunkLength(w)) :
            buffer' = [buffer EXCEPT ![p] = IF Full(b) THEN NoFrame ELSE b]
      BY <2>1, <2>3 DEF OnWrite
    <3>2. CASE buffer'[p] = b
      BY <2>3, <3>1, <3>2, ChunkOfFrame DEF FrameSound
    <3> QED BY <1>0, <1>2, <3>1, <3>2 DEF BleTypeOK
  <2> QED BY <2>2, <2>3
<1>5. ASSUME UNCHANGED buffer PROVE FrameSound(p)'
  BY <1>1, <1>5
<1>6. ASSUME NEW d \in Devices, End(d) \/ Discover(d) \/ GiveUp(d) \/ Receive(d)
      PROVE FrameSound(p)'
  BY <1>5, <1>6 DEF End, Discover, GiveUp, Receive
<1>7. ASSUME NEW d \in Devices, NEW q \in Devices, NEW size \in Sizes, Send(d, q, size)
      PROVE FrameSound(p)'
  BY <1>5, <1>7 DEF Send
<1>8. ASSUME NEW w \in writes, Connect(w) \/ WriteFails(w) PROVE FrameSound(p)'
  BY <1>5, <1>8 DEF Connect, WriteFails
<1>9. CASE UNCHANGED vars
  BY <1>5, <1>9 DEF vars
<1> QED BY <1>1, <1>2, <1>3, <1>4, <1>6, <1>7, <1>8, <1>9 DEF Next

(***************************************************************************)
(* Theorems                                                                *)
(***************************************************************************)
\* Whatever is started, broken off and begun again, the buffer of a device
\* that was not written to by two at once, nor half, holds one message's
\* beginning, and a process in send() has a coroutine that will end it.
THEOREM BleInvariance == Spec => []BleInv
<1>1. BleInv /\ [Next]_vars => BleInv'
  BY NextBleType, NextWrites, NextSending, NextFrame, NextAssembles DEF BleInv
<1> QED BY InitBle, <1>1, PTL DEF Spec

LEMMA StepDelivers ==
  BleInv /\ [Next]_vars =>
    [\A w \in writes : WriteChunk(w) /\ w.msg \notin {v.msg : v \in writes'} =>
       w.msg.to \in cut' \/ inbox'[w.msg.to] = Append(inbox[w.msg.to], w.msg)]_vars
<1> SUFFICES ASSUME BleInv, NEW w \in writes, WriteChunk(w),
                    w.msg \notin {v.msg : v \in writes'}, w.msg.to \notin cut'
             PROVE  inbox'[w.msg.to] = Append(inbox[w.msg.to], w.msg)
  OBVIOUS
<1>1. ~ \E v : v.msg = w.msg /\ writes' = (writes \ {w}) \cup {v}
  OBVIOUS
<1>2. /\ w.msg.to \in Devices
      /\ inbox' = [inbox EXCEPT ![w.msg.to] = Append(inbox[w.msg.to], w.msg)]
  BY <1>1, ChunkEffect
<1> QED BY <1>2 DEF BleInv, BleTypeOK

\* An acknowledged message is in the peer's inbox, for any sizes, numbers of
\* devices and orders of events, unless the peer's buffer was cut into.
THEOREM Delivery == Spec => AckedIsDelivered
<1> QED BY BleInvariance, StepDelivers, PTL DEF Spec, AckedIsDelivered

\* The messages on their way to p.
OnWay(p) == {w.msg : w \in {v \in writes : v.msg.to = p}}

\* A step that neither delivers to p nor takes from it, and leaves p running or
\* not as it was.
LEMMA QuietStep ==
  ASSUME NEW p \in Devices, p \in up <=> p \in up', inbox'[p] = inbox[p],
         OnWay(p)' \subseteq OnWay(p)
  PROVE  Ch(p)!Next
<1>1. (p \in up') = (p \in up)
  OBVIOUS
<1> QED BY <1>1 DEF OnWay, Ch!Next, Ch!Lose

\* A chunk for p that is not p's message's last one delivers no message.
LEMMA UndeliveredChunk ==
  ASSUME NEW w \in writes, WriteChunk(w), inbox'[w.msg.to] = inbox[w.msg.to],
         w.msg.to \in Devices
  PROVE  Ch(w.msg.to)!Next
<1>1. PICK v : v = [msg |-> w.msg, run |-> w.run, pos |-> w.pos + ChunkLength(w)]
  OBVIOUS
<1>2. /\ v.msg = w.msg /\ up' = up
      /\ writes' = writes \ {w} \/ writes' = (writes \ {w}) \cup {v}
  BY <1>1 DEF WriteChunk
<1>3. OnWay(w.msg.to)' \subseteq OnWay(w.msg.to)
  BY <1>2 DEF OnWay
<1> QED BY <1>2, <1>3, QuietStep

\* The last chunk takes the message off its way.
LEMMA DeliveringChunk ==
  ASSUME BleInv, NEW w \in writes, WriteChunk(w), writes' = writes \ {w},
         inbox'[w.msg.to] = Append(inbox[w.msg.to], w.msg)
  PROVE  Ch(w.msg.to)!Next
<1> DEFINE p == w.msg.to
<1>1. w.msg \in Message /\ p \in up /\ up' = up
  BY DEF BleInv, BleTypeOK, Write, WriteChunk, Connected
<1>2. w.msg \in OnWay(p)
  BY DEF OnWay
<1>3. OnWay(p)' = OnWay(p) \ {w.msg}
  <2>1. \A v \in writes : v.msg = w.msg => v = w
    BY DEF BleInv, WritesSound
  <2> QED BY <2>1 DEF OnWay
<1>4. Ch(p)!Deliver(w.msg)
  BY <1>1, <1>2, <1>3 DEF OnWay, Ch!Deliver
<1> QED BY <1>1, <1>4 DEF Ch!Next

\* All steps but the chunks written to p.
LEMMA StepElsewhere ==
  ASSUME BleInv, [Next]_vars, NEW p \in Devices,
         \A w \in writes : WriteChunk(w) => w.msg.to # p
  PROVE  [Ch(p)!Next]_(Ch(p)!vars)
<1>0. /\ BleTypeOK /\ inbox[p] \in Seq(Message \cup {Garbage})
      /\ \A w \in writes : w.msg \in Message /\ WriteSound(w)
  BY DEF BleInv, BleTypeOK, WritesSound, Write
<1>1. ASSUME NEW d \in Devices, Start(d) PROVE Ch(p)!Next
  <2>1. OnWay(p)' = OnWay(p)
    BY <1>1 DEF Start, OnWay
  <2>2. CASE d = p
    <3>1. p \notin up /\ p \in up' /\ inbox'[p] = <<>>
      BY <1>0, <1>1, <2>2 DEF Start, BleTypeOK
    <3>2. Ch(p)!Start
      BY <2>1, <3>1 DEF OnWay, Ch!Start
    <3> QED BY <3>2 DEF Ch!Next
  <2>3. CASE d # p
    <3>1. (p \in up <=> p \in up') /\ inbox'[p] = inbox[p]
      BY <1>0, <1>1, <2>3 DEF Start, BleTypeOK
    <3> QED BY <2>1, <3>1, QuietStep
  <2> QED BY <2>2, <2>3
<1>2. ASSUME NEW d \in Devices, End(d) PROVE Ch(p)!Next
  <2>1. OnWay(p)' \subseteq OnWay(p) /\ inbox' = inbox
    BY <1>2 DEF End, Drop, OnWay
  <2>2. CASE d = p
    <3>1. OnWay(p)' = OnWay(p)
      BY <1>0, <1>2, <2>2 DEF End, Drop, OnWay, WriteSound
    <3>2. p \in up /\ p \notin up'
      BY <1>2, <2>2 DEF End
    <3>3. Ch(p)!Stop
      BY <2>1, <3>1, <3>2 DEF OnWay, Ch!Stop
    <3> QED BY <3>3 DEF Ch!Next
  <2>3. CASE d # p
    <3>1. p \in up <=> p \in up'
      BY <1>2, <2>3 DEF End
    <3> QED BY <2>1, <3>1, QuietStep
  <2> QED BY <2>2, <2>3
<1>3. ASSUME NEW d \in Devices, Discover(d) \/ GiveUp(d) PROVE Ch(p)!Next
  BY <1>3, QuietStep DEF Discover, GiveUp, OnWay
<1>4. ASSUME NEW d \in Devices, Receive(d) PROVE Ch(p)!Next
  <2>1. UNCHANGED up /\ OnWay(p)' = OnWay(p)
    BY <1>4 DEF Receive, OnWay
  <2>2. CASE d = p
    <3>1. p \in up /\ inbox[p] # <<>> /\ inbox'[p] = Tail(inbox[p])
      BY <1>0, <1>4, <2>2 DEF Receive, Idle, BleTypeOK
    <3>2. Ch(p)!Receive
      BY <2>1, <3>1 DEF OnWay, Ch!Receive
    <3> QED BY <3>2 DEF Ch!Next
  <2>3. CASE d # p
    <3>1. inbox'[p] = inbox[p]
      BY <1>0, <1>4, <2>3 DEF Receive, BleTypeOK
    <3> QED BY <2>1, <3>1, QuietStep
  <2> QED BY <2>2, <2>3
<1>5. ASSUME NEW d \in Devices, NEW q \in Devices, NEW size \in Sizes, Send(d, q, size)
      PROVE Ch(p)!Next
  <2>1. PICK m : m = [id |-> count + 1, from |-> d, to |-> q, size |-> size]
    OBVIOUS
  <2>2. PICK w : w = [msg |-> m, run |-> NoRun, pos |-> 0]
    OBVIOUS
  <2>3. writes' = writes \cup {w} /\ w.msg = m /\ m.to = q /\ UNCHANGED <<up, inbox>>
    BY <1>5, <2>1, <2>2 DEF Send
  <2>4. m \in Message
    <3>1. count + 1 \in 1..MaxSends
      BY <1>0, <1>5, BleBounds DEF Send, BleTypeOK
    <3> QED BY <2>1, <3>1 DEF Message
  <2>5. CASE q = p
    <3>1. OnWay(p)' = OnWay(p) \cup {m}
      BY <2>3, <2>5 DEF OnWay
    <3>2. Ch(p)!Send(m)
      BY <2>3, <3>1 DEF OnWay, Ch!Send
    <3> QED BY <2>4, <3>2 DEF Ch!Next
  <2>6. CASE q # p
    <3>1. OnWay(p)' = OnWay(p)
      BY <2>3, <2>6 DEF OnWay
    <3> QED BY <2>3, <3>1, QuietStep
  <2> QED BY <2>5, <2>6
<1>6. ASSUME NEW w \in writes, Connect(w) PROVE Ch(p)!Next
  <2>1. PICK v : v = [msg |-> w.msg, run |-> run[w.msg.to], pos |-> 0]
    OBVIOUS
  <2>2. /\ v.msg = w.msg /\ writes' = (writes \ {w}) \cup {v}
        /\ UNCHANGED <<up, inbox>>
    BY <1>6, <2>1 DEF Connect
  <2>3. OnWay(p)' \subseteq OnWay(p)
    BY <2>2 DEF OnWay
  <2> QED BY <2>2, <2>3, QuietStep
<1>7. ASSUME NEW w \in writes, WriteChunk(w) PROVE Ch(p)!Next
  <2>0. up' = up
    BY <1>7 DEF WriteChunk
  <2>1. w.msg.to # p
    BY <1>7
  <2>2. OnWay(p)' = OnWay(p)
    <3>1. PICK v : v = [msg |-> w.msg, run |-> w.run, pos |-> w.pos + ChunkLength(w)]
      OBVIOUS
    <3>2. v.msg = w.msg
      BY <3>1
    <3>3. writes' = writes \ {w} \/ writes' = (writes \ {w}) \cup {v}
      BY <1>7, <3>1 DEF WriteChunk
    <3> QED BY <2>1, <3>2, <3>3 DEF OnWay
  <2>3. inbox'[p] = inbox[p]
    BY <1>0, <1>7, <2>1 DEF WriteChunk, OnWrite, BleTypeOK
  <2> QED BY <2>0, <2>2, <2>3, QuietStep
<1>8. ASSUME NEW w \in writes, WriteFails(w) PROVE Ch(p)!Next
  <2>1. OnWay(p)' \subseteq OnWay(p)
    BY <1>8 DEF WriteFails, Drop, OnWay
  <2> QED BY <1>8, <2>1, QuietStep DEF WriteFails
<1>9. CASE UNCHANGED vars
  BY <1>9 DEF vars, Ch!vars
<1> QED BY <1>1, <1>2, <1>3, <1>4, <1>5, <1>6, <1>7, <1>8, <1>9 DEF Next

LEMMA StepChannel ==
  ASSUME BleInv, [Next]_vars, NEW p \in Devices, p \notin cut'
  PROVE  [Ch(p)!Next]_(Ch(p)!vars)
<1>1. ASSUME NEW w \in writes, WriteChunk(w), w.msg.to = p PROVE Ch(p)!Next
  <2>1. \/ inbox' = inbox
        \/ /\ writes' = writes \ {w}
           /\ inbox' = [inbox EXCEPT ![p] = Append(inbox[p], w.msg)]
    BY <1>1, ChunkEffect
  <2>2. CASE inbox' = inbox
    BY <1>1, <2>2, UndeliveredChunk
  <2>3. CASE /\ writes' = writes \ {w}
             /\ inbox' = [inbox EXCEPT ![p] = Append(inbox[p], w.msg)]
    <3>1. inbox'[p] = Append(inbox[p], w.msg)
      BY <2>3 DEF BleInv, BleTypeOK
    <3> QED BY <1>1, <2>3, <3>1, DeliveringChunk
  <2> QED BY <2>1, <2>2, <2>3
<1> QED BY <1>1, StepElsewhere

LEMMA StepWhole ==
  ASSUME BleInv, [Next]_vars, NEW p \in Devices
  PROVE  [Ch(p)!Next]_(Ch(p)!vars) \/ Garbled(p)
<1>1. ASSUME NEW w \in writes, WriteChunk(w), w.msg.to = p
      PROVE  Ch(p)!Next \/ Garbled(p)
  <2> DEFINE n == ChunkLength(w)
  <2>0. /\ BleTypeOK /\ w.msg \in Message /\ n \in Nat /\ w.pos \in Nat
        /\ w.msg.size \in Nat /\ w.pos + n <= w.msg.size
    BY <1>1, ChunkLengthType DEF BleInv, WritesSound
  <2>1. OnWrite(p, w.msg, w.pos, n)
    BY <1>1 DEF WriteChunk
  <2>2. CASE inbox'[p] = inbox[p]
    BY <1>1, <2>2, UndeliveredChunk
  <2>3. CASE inbox'[p] # inbox[p]
    <3>1. PICK b \in Extended(p, w.msg, w.pos, n) :
            \E q \in Parsed(inbox[p], b) : inbox' = [inbox EXCEPT ![p] = q]
      BY <2>1, <2>3 DEF OnWrite
    <3>2. inbox'[p] \in Parsed(inbox[p], b)
      BY <2>0, <3>1 DEF BleTypeOK
    <3>3. Full(b)
      BY <2>3, <3>2 DEF Parsed
    <3>4. CASE b.of = Garbage
      <4>1. inbox'[p] = Append(inbox[p], Garbage)
        BY <2>3, <3>2, <3>3, <3>4 DEF Parsed
      <4>2. p \in up /\ up' = up
        BY <1>1 DEF WriteChunk, Connected
      <4>3. OnWay(p)' \subseteq OnWay(p)
        <5>1. PICK v : v = [msg |-> w.msg, run |-> w.run, pos |-> w.pos + n]
          OBVIOUS
        <5>2. v.msg = w.msg
          BY <5>1
        <5>3. writes' = writes \ {w} \/ writes' = (writes \ {w}) \cup {v}
          BY <1>1, <5>1 DEF WriteChunk
        <5> QED BY <1>1, <5>2, <5>3 DEF OnWay
      <4> QED BY <4>1, <4>2, <4>3 DEF Garbled, OnWay
    <3>5. CASE b.of # Garbage
      <4>1. b.of \in Message
        <5>1. CASE buffer[p] = NoFrame
          BY <2>0, <3>5, <5>1 DEF Extended
        <5>2. CASE buffer[p] # NoFrame
          BY <2>0, <3>5, <5>2 DEF Extended
        <5> QED BY <5>1, <5>2
      <4>2. /\ b.of = w.msg /\ b.total = w.msg.size - Header
            /\ b.length = (w.pos + n) - Header
        BY <1>1, <4>1, ChunkOfFrame
      <4>3. w.pos + n = w.msg.size
        BY <2>0, <3>3, <4>2 DEF Full, Header
      <4>4. writes' = writes \ {w}
        BY <1>1, <2>0, <4>3 DEF WriteChunk
      <4>5. inbox'[p] = Append(inbox[p], w.msg)
        BY <3>2, <3>3, <3>5, <4>2 DEF Parsed
      <4> QED BY <1>1, <4>4, <4>5, DeliveringChunk
    <3> QED BY <3>4, <3>5
  <2> QED BY <2>2, <2>3
<1> QED BY <1>1, StepElsewhere

\* Whatever is cut short and written over, a device's _inbox gets every message
\* whole, for itself and at most once, and otherwise what is none.
THEOREM WholeMessages == Spec => WholeOrGarbage
<1>1. BleInv /\ [Next]_vars =>
        [\A p \in Devices : [Ch(p)!Next]_(Ch(p)!vars) \/ Garbled(p)]_vars
  BY StepWhole
<1> QED BY BleInvariance, <1>1, PTL DEF Spec, WholeOrGarbage

\* Until a message to it is cut short or interleaves with another, every device
\* has a channel.
THEOREM Channels == Spec => ChannelUntilCut
<1>1. BleInv /\ [Next]_vars =>
        [\A p \in Devices : p \notin cut' => [Ch(p)!Next]_(Ch(p)!vars)]_vars
  BY StepChannel
<1> QED BY BleInvariance, <1>1, PTL DEF Spec, ChannelUntilCut
=============================================================================
