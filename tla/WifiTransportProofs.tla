------------------------ MODULE WifiTransportProofs ------------------------
(***************************************************************************)
(* Proofs that WifiInv is invariant, that every device's transport is a    *)
(* Channel, that nothing but a broken connection is given up, and that     *)
(* discovered peers stay known.                                            *)
(***************************************************************************)
EXTENDS WifiTransportProps, FiniteSetTheorems, TLAPS

(***************************************************************************)
(* Connections                                                             *)
(***************************************************************************)
\* The components of a connection, and what they are made of.
LEMMA ConnFields ==
  ASSUME NEW m, NEW sent, NEW link, NEW taken, NEW read
  PROVE  /\ Conn(m, sent, link, taken, read).msg = m
         /\ Conn(m, sent, link, taken, read).sent = sent
         /\ Conn(m, sent, link, taken, read).link = link
         /\ Conn(m, sent, link, taken, read).taken = taken
         /\ Conn(m, sent, link, taken, read).read = read
  BY DEF Conn

LEMMA ConnType ==
  ASSUME NEW m \in Message, NEW sent \in BOOLEAN, NEW link \in {"ok", "reset", "silent"},
         NEW taken \in BOOLEAN, NEW read \in 0 .. Parts - 1
  PROVE  Conn(m, sent, link, taken, read) \in Connection
  BY DEF Conn, Connection

LEMMA ConnectionType ==
  ASSUME WifiTypeOK, NEW c \in conns
  PROVE  /\ c.msg \in Message /\ c.msg.to \in Devices /\ c.msg.from \in Devices
         /\ c.msg.id \in 1..MaxSends
         /\ c.sent \in BOOLEAN /\ c.link \in {"ok", "reset", "silent"}
         /\ c.taken \in BOOLEAN /\ c.read \in 0 .. Parts - 1
  BY DEF WifiTypeOK, Connection, Message

(***************************************************************************)
(* Types                                                                   *)
(***************************************************************************)
LEMMA InitWifi == Init => WifiInv /\ DiscoveredIsKnown
<1> SUFFICES ASSUME Init PROVE WifiInv /\ DiscoveredIsKnown
  OBVIOUS
<1>1. WifiTypeOK
  <2>1. inbox \in [Devices -> Seq(Message)]
    BY DEF Init
  <2> QED BY <2>1, WifiBounds DEF Init, WifiTypeOK, NoSize
<1>2. ConnsSound /\ DiscoveredIsKnown
  BY DEF Init, ConnsSound, DiscoveredIsKnown
<1>3. \A d \in Devices : ProcessSound(d)
  BY DEF Init, ProcessSound, Alive
<1> QED BY <1>1, <1>2, <1>3 DEF WifiInv

\* The steps that put a new version of one connection in its place.
LEMMA ReplaceType ==
  ASSUME WifiTypeOK, NEW c \in conns, NEW v \in Connection,
         conns' = (conns \ {c}) \cup {v}
  PROVE  conns' \subseteq Connection
  BY DEF WifiTypeOK

LEMMA EndType ==
  ASSUME WifiTypeOK, NEW d \in Devices, End(d)
  PROVE  WifiTypeOK'
<1>1. ASSUME NEW c \in conns PROVE Orphaned(c, d) \in Connection
  <2>1. PICK link \in {"ok", "reset", "silent"} :
          link = IF c.msg.from = d /\ ~c.sent /\ c.link = "ok" THEN "reset" ELSE c.link
    BY ConnectionType
  <2> QED BY <2>1, ConnectionType, ConnType DEF Orphaned
<1>2. conns' \subseteq Connection
  BY <1>1 DEF End
<1> QED BY <1>2 DEF WifiTypeOK, End, NoSize

LEMMA SendAllType ==
  ASSUME WifiTypeOK, NEW d \in Devices, SendAll(d)
  PROVE  WifiTypeOK'
<1>1. ASSUME NEW c \in conns PROVE Conn(c.msg, TRUE, c.link, c.taken, c.read) \in Connection
  BY ConnectionType, ConnType
<1>2. conns' \subseteq Connection
  BY <1>1 DEF SendAll, WifiTypeOK
<1> QED BY <1>2 DEF WifiTypeOK, SendAll

LEMMA ConnectType ==
  ASSUME WifiTypeOK, NEW d \in Devices, NEW p \in Devices, Connect(d, p)
  PROVE  WifiTypeOK'
<1> DEFINE m == [id |-> count + 1, from |-> d, to |-> p]
<1>1. count + 1 \in 1..MaxSends
  BY WifiBounds DEF WifiTypeOK, Connect
<1>2. m \in Message
  BY <1>1 DEF Message
<1>3. sending' = [sending EXCEPT ![d] = m] /\ conns' = conns \cup {Conn(m, FALSE, "ok", FALSE, 0)}
  BY DEF Connect
<1> HIDE DEF m
<1>4. Conn(m, FALSE, "ok", FALSE, 0) \in Connection
  <2>1. 0 \in 0 .. Parts - 1
    BY DEF Parts
  <2>2. FALSE \in BOOLEAN /\ "ok" \in {"ok", "reset", "silent"}
    OBVIOUS
  <2> QED BY <1>2, <2>1, <2>2, ConnType
<1>5. conns' \subseteq Connection
  BY <1>3, <1>4 DEF WifiTypeOK
<1>6. sending' \in [Devices -> Message \cup {NoMessage}]
  BY <1>2, <1>3 DEF WifiTypeOK
<1>7. count' \in 0..MaxSends
  BY <1>1 DEF Connect
<1> QED BY <1>5, <1>6, <1>7 DEF WifiTypeOK, Connect

LEMMA NextWifiType == WifiInv /\ [Next]_vars => WifiTypeOK'
<1> SUFFICES ASSUME WifiInv, [Next]_vars PROVE WifiTypeOK'
  OBVIOUS
<1>0. WifiTypeOK
  BY DEF WifiInv
<1>1. ASSUME NEW d \in Devices, Start(d) PROVE WifiTypeOK'
  BY <1>0, <1>1 DEF WifiTypeOK, Start
<1>2. ASSUME NEW d \in Devices, Stop(d) PROVE WifiTypeOK'
  BY <1>0, <1>2 DEF WifiTypeOK, Stop
<1>3. ASSUME NEW d \in Devices, End(d) PROVE WifiTypeOK'
  BY <1>0, <1>3, EndType
<1>4. ASSUME NEW d \in Devices, NEW p \in Devices, AddService(d, p) PROVE WifiTypeOK'
  BY <1>0, <1>4 DEF WifiTypeOK, AddService
<1>5. ASSUME NEW d \in Devices, NEW p \in Devices, Connect(d, p) PROVE WifiTypeOK'
  BY <1>0, <1>5, ConnectType
<1>6. ASSUME NEW d \in Devices, Discover(d) PROVE WifiTypeOK'
  <2>1. Cardinality(Known(d)) \in Nat
    <3>1. IsFiniteSet(Known(d))
      BY WifiDevices, FS_Subset DEF Known
    <3> QED BY <3>1, FS_CardinalityType
  <2> QED BY <1>0, <1>6, <2>1 DEF WifiTypeOK, Discover
<1>7. ASSUME NEW d \in Devices, DiscoverEnds(d) PROVE WifiTypeOK'
  <2>1. Known(d) \in SUBSET Devices
    BY DEF Known
  <2> QED BY <1>0, <1>7, <2>1 DEF WifiTypeOK, DiscoverEnds
<1>8. ASSUME NEW d \in Devices, SendAll(d) PROVE WifiTypeOK'
  BY <1>0, <1>8, SendAllType
<1>16. ASSUME NEW d \in Devices, AcceptFails(d) PROVE WifiTypeOK'
  BY <1>0, <1>16 DEF WifiTypeOK, AcceptFails
<1>9. ASSUME NEW d \in Devices, Receive(d) PROVE WifiTypeOK'
  BY <1>0, <1>9 DEF WifiTypeOK, Receive
<1>10. ASSUME NEW c \in conns, Break(c) PROVE WifiTypeOK'
  <2>1. PICK how \in {"reset", "silent"} :
          conns' = (conns \ {c}) \cup {Conn(c.msg, c.sent, how, c.taken, c.read)}
    BY <1>10 DEF Break
  <2>2. Conn(c.msg, c.sent, how, c.taken, c.read) \in Connection
    BY <1>0, ConnectionType, ConnType
  <2>3. conns' \subseteq Connection
    BY <1>0, <2>1, <2>2, ReplaceType
  <2> QED BY <1>0, <1>10, <2>3 DEF WifiTypeOK, Break
<1>11. ASSUME NEW c \in conns, Accept(c) PROVE WifiTypeOK'
  <2>1. Conn(c.msg, c.sent, c.link, TRUE, c.read) \in Connection
    BY <1>0, ConnectionType, ConnType
  <2>2. conns' \subseteq Connection
    BY <1>0, <1>11, <2>1, ReplaceType DEF Accept, Taken
  <2> QED BY <1>0, <1>11, <2>2 DEF WifiTypeOK, Accept, Taken
<1>12. ASSUME NEW c \in conns, ReadPart(c) PROVE WifiTypeOK'
  <2>1. CASE c.read + 1 < Parts
    <3>1. c.read + 1 \in 0 .. Parts - 1
      BY <1>0, <2>1, ConnectionType DEF Parts
    <3>2. Conn(c.msg, c.sent, c.link, c.taken, c.read + 1) \in Connection
      BY <1>0, <3>1, ConnectionType, ConnType
    <3>0. c.read + 1 # Parts
      BY <1>0, <2>1, ConnectionType DEF Parts
    <3>3. conns' = (conns \ {c}) \cup {Conn(c.msg, c.sent, c.link, c.taken, c.read + 1)}
      BY <1>12, <3>0 DEF ReadPart
    <3>4. conns' \subseteq Connection
      BY <1>0, <3>2, <3>3, ReplaceType
    <3>5. UNCHANGED inbox
      BY <1>12, <3>0 DEF ReadPart
    <3> QED BY <1>0, <1>12, <3>4, <3>5 DEF WifiTypeOK, ReadPart
  <2>2. CASE ~(c.read + 1 < Parts)
    <3>1. /\ conns' = conns \ {c}
          /\ inbox' = [inbox EXCEPT ![c.msg.to] = Append(inbox[c.msg.to], c.msg)]
      BY <1>12, <2>2 DEF ReadPart
    <3>2. inbox' \in [Devices -> Seq(Message)]
      BY <1>0, <3>1, ConnectionType DEF WifiTypeOK
    <3> QED BY <1>0, <1>12, <3>1, <3>2 DEF WifiTypeOK, ReadPart
  <2> QED BY <2>1, <2>2
<1>13. ASSUME NEW c \in conns, DropConnection(c) PROVE WifiTypeOK'
  BY <1>0, <1>13 DEF WifiTypeOK, DropConnection
<1>14. ASSUME UNCHANGED vars PROVE WifiTypeOK'
  BY <1>0, <1>14 DEF WifiTypeOK, vars
<1>15. ASSUME NEW d \in Devices, NEW p \in Devices, RemoveService(d, p) PROVE WifiTypeOK'
  BY <1>14, <1>15 DEF RemoveService
<1> QED BY <1>1, <1>2, <1>3, <1>4, <1>5, <1>6, <1>7, <1>8, <1>9, <1>10, <1>11, <1>12, <1>13,
           <1>14, <1>15, <1>16 DEF Next

(***************************************************************************)
(* Connections stay sound                                                  *)
(***************************************************************************)
\* A connection that a step leaves alone is as sound as before.
LEMMA KeepsConn ==
  ASSUME WifiTypeOK, NEW c \in conns, ConnSound(c),
         count' = count, pc' = pc, sending' = sending
  PROVE  ConnSound(c)'
  BY DEF ConnSound, Alive

LEMMA ReplaceSound ==
  ASSUME WifiTypeOK, ConnsSound, NEW c \in conns, NEW v,
         v.msg = c.msg, ConnSound(v)',
         conns' = (conns \ {c}) \cup {v},
         count' = count, pc' = pc, sending' = sending
  PROVE  ConnsSound'
<1>1. \A o \in conns : ConnSound(o)'
  BY KeepsConn DEF ConnsSound
<1>2. \A o, q \in conns' : o.msg.id = q.msg.id => o = q
  BY DEF ConnsSound
<1> QED BY <1>1, <1>2 DEF ConnsSound

LEMMA RemoveSound ==
  ASSUME WifiTypeOK, ConnsSound, conns' \subseteq conns,
         count' = count, pc' = pc, sending' = sending
  PROVE  ConnsSound'
<1>1. \A o \in conns : ConnSound(o)'
  BY KeepsConn DEF ConnsSound
<1> QED BY <1>1 DEF ConnsSound

\* The message of a call in progress, and its sender.
LEMMA SendingFields ==
  ASSUME WifiInv, NEW d \in Devices, sending[d] # NoMessage
  PROVE  /\ sending[d] \in Message /\ sending[d].from = d
         /\ pc[d] = "up" /\ sending[d].id <= count
  BY DEF WifiInv, WifiTypeOK, ProcessSound

LEMMA EndSound ==
  ASSUME WifiInv, NEW d \in Devices, End(d)
  PROVE  ConnsSound'
<1>0. WifiTypeOK /\ ConnsSound
  BY DEF WifiInv
<1>1. ASSUME NEW c \in conns, c.msg.to # d PROVE ConnSound(Orphaned(c, d))'
  <2>1. PICK v : v = Orphaned(c, d)
    OBVIOUS
  <2>2. /\ v.msg = c.msg /\ v.sent = c.sent /\ v.taken = c.taken /\ v.read = c.read
        /\ v.link = IF c.msg.from = d /\ ~c.sent /\ c.link = "ok" THEN "reset" ELSE c.link
    BY <2>1, ConnFields DEF Orphaned
  <2>3. /\ pc' = [pc EXCEPT ![d] = "down"] /\ sending' = [sending EXCEPT ![d] = NoMessage]
        /\ count' = count
    BY DEF End
  <2>4. Alive(c.msg.to)' /\ c.msg.from # c.msg.to /\ c.msg.id <= count'
    BY <1>0, <1>1, <2>3, ConnectionType DEF ConnsSound, ConnSound, Alive, WifiTypeOK
  <2>5. v.read > 0 => v.taken /\ v.sent
    BY <1>0, <2>2 DEF ConnsSound, ConnSound
  <2>6. ASSUME ~v.sent, v.link = "ok" PROVE sending'[c.msg.from] = c.msg
    <3>1. c.msg.from # d /\ ~c.sent /\ c.link = "ok"
      BY <2>2, <2>6
    <3>2. sending[c.msg.from] = c.msg
      BY <1>0, <3>1 DEF ConnsSound, ConnSound
    <3> QED BY <1>0, <2>3, <3>1, <3>2, ConnectionType DEF WifiTypeOK
  <2>7. ConnSound(v)'
    BY <2>2, <2>4, <2>5, <2>6 DEF ConnSound
  <2> QED BY <2>1, <2>7
<1>2. \A c \in conns : Orphaned(c, d).msg = c.msg
  BY ConnFields DEF Orphaned
<1>3. conns' = {Orphaned(c, d) : c \in conns \ ConnsTo(d)}
  BY DEF End
<1>4. ASSUME NEW v \in conns' PROVE ConnSound(v)'
  BY <1>1, <1>3 DEF ConnsTo
<1>5. ASSUME NEW v \in conns', NEW w \in conns', v.msg.id = w.msg.id PROVE v = w
  <2>1. PICK c \in conns : v = Orphaned(c, d)
    BY <1>3
  <2>2. PICK o \in conns : w = Orphaned(o, d)
    BY <1>3
  <2> QED BY <1>0, <1>2, <1>5, <2>1, <2>2 DEF ConnsSound
<1> QED BY <1>4, <1>5 DEF ConnsSound

LEMMA SendAllSound ==
  ASSUME WifiInv, NEW d \in Devices, SendAll(d)
  PROVE  ConnsSound'
<1>0. WifiTypeOK /\ ConnsSound
  BY DEF WifiInv
<1> DEFINE mine == {c \in conns : c.msg = sending[d]}
           Sent(c) == Conn(c.msg, TRUE, c.link, c.taken, c.read)
<1>1. /\ conns' = (conns \ mine) \cup {Sent(c) : c \in mine}
      /\ sending' = [sending EXCEPT ![d] = NoMessage]
      /\ count' = count /\ pc' = pc
  BY DEF SendAll
<1>2. ASSUME NEW c \in conns, c.msg # sending[d] PROVE ConnSound(c)'
  <2>1. ASSUME ~c.sent, c.link = "ok" PROVE sending'[c.msg.from] = c.msg
    <3>1. sending[c.msg.from] = c.msg /\ c.msg.from \in Devices
      BY <1>0, <2>1, ConnectionType DEF ConnsSound, ConnSound
    <3>2. c.msg.from # d
      BY <1>2, <3>1
    <3> QED BY <1>0, <1>1, <3>1, <3>2 DEF WifiTypeOK
  <2> QED BY <1>0, <1>1, <2>1 DEF ConnsSound, ConnSound, Alive
<1>3. ASSUME NEW c \in mine PROVE ConnSound(Sent(c))'
  <2>1. PICK v : v = Sent(c)
    OBVIOUS
  <2>2. v.msg = c.msg /\ v.sent = TRUE /\ v.link = c.link /\ v.taken = c.taken /\ v.read = c.read
    BY <2>1 DEF Conn
  <2>3. ConnSound(c)
    BY <1>0 DEF ConnsSound
  <2>4. ConnSound(v)'
    BY <1>1, <2>2, <2>3 DEF ConnSound, Alive
  <2> QED BY <2>1, <2>4
<1>4. \A c \in conns : Sent(c).msg = c.msg
  BY DEF Conn
<1> HIDE DEF Sent
<1>5. ASSUME NEW v \in conns' PROVE ConnSound(v)'
  BY <1>1, <1>2, <1>3
<1>6. ASSUME NEW v \in conns', NEW w \in conns', v.msg.id = w.msg.id PROVE v = w
  <2>1. PICK c \in conns : v = IF c \in mine THEN Sent(c) ELSE c
    BY <1>1
  <2>2. PICK o \in conns : w = IF o \in mine THEN Sent(o) ELSE o
    BY <1>1
  <2>3. v.msg = c.msg /\ w.msg = o.msg
    BY <1>4, <2>1, <2>2
  <2>4. c = o
    BY <1>0, <1>6, <2>3 DEF ConnsSound
  <2> QED BY <2>1, <2>2, <2>4
<1> QED BY <1>5, <1>6 DEF ConnsSound

LEMMA ConnectSound ==
  ASSUME WifiInv, NEW d \in Devices, NEW p \in Devices, Connect(d, p)
  PROVE  ConnsSound'
<1>0. WifiTypeOK /\ ConnsSound
  BY DEF WifiInv
<1>1. PICK m : m = [id |-> count + 1, from |-> d, to |-> p]
  OBVIOUS
<1>2. PICK v : v = Conn(m, FALSE, "ok", FALSE, 0)
  OBVIOUS
<1>3. /\ sending' = [sending EXCEPT ![d] = m] /\ conns' = conns \cup {v}
      /\ count' = count + 1 /\ pc' = pc
      /\ peers[d][p] # 0 /\ (pc[p] = "up" \/ p \in accepting) /\ sending[d] = NoMessage
  BY <1>1, <1>2 DEF Connect, Listening, Free
<1>4. m.id = count + 1 /\ m.from = d /\ m.to = p /\ count \in Nat
  BY <1>0, <1>1 DEF WifiTypeOK
<1>5. d # p /\ Alive(p)
  BY <1>3 DEF WifiInv, ProcessSound, Alive
<1>6. v.msg = m /\ v.sent = FALSE /\ v.link = "ok" /\ v.taken = FALSE /\ v.read = 0
  BY <1>2 DEF Conn
<1>7. ConnSound(v)'
  <2>1. sending'[d] = m
    BY <1>0, <1>3 DEF WifiTypeOK
  <2> QED BY <1>3, <1>4, <1>5, <1>6, <2>1 DEF ConnSound, Alive
<1>8. ASSUME NEW c \in conns PROVE ConnSound(c)' /\ c.msg.id # m.id
  <2>1. c.msg.id <= count /\ c.msg.id \in Nat
    BY <1>0, ConnectionType DEF ConnsSound, ConnSound
  <2>2. ASSUME ~c.sent, c.link = "ok" PROVE sending'[c.msg.from] = c.msg
    <3>1. sending[c.msg.from] = c.msg /\ c.msg \in Message /\ c.msg.from \in Devices
      BY <1>0, <2>2, ConnectionType DEF ConnsSound, ConnSound
    <3>2. c.msg.from # d
      BY <1>3, <3>1, WifiNoMessage
    <3> QED BY <1>0, <1>3, <3>1, <3>2 DEF WifiTypeOK
  <2>3. c.msg.id <= count' /\ c.msg.id # m.id
    BY <1>3, <1>4, <2>1
  <2> QED BY <1>0, <1>3, <2>2, <2>3 DEF ConnsSound, ConnSound, Alive
<1>9. \A c, o \in conns' : c.msg.id = o.msg.id => c = o
  BY <1>0, <1>3, <1>6, <1>8 DEF ConnsSound
<1>10. \A c \in conns' : ConnSound(c)'
  BY <1>3, <1>7, <1>8
<1> QED BY <1>9, <1>10 DEF ConnsSound

LEMMA NextConnsSound == WifiInv /\ [Next]_vars => ConnsSound'
<1> SUFFICES ASSUME WifiInv, [Next]_vars PROVE ConnsSound'
  OBVIOUS
<1>0. WifiTypeOK /\ ConnsSound
  BY DEF WifiInv
<1>1. ASSUME NEW d \in Devices, Start(d) PROVE ConnsSound'
  <2>1. ASSUME NEW c \in conns PROVE ConnSound(c)'
    BY <1>0, <1>1, ConnectionType DEF ConnsSound, ConnSound, Start, Alive, WifiTypeOK
  <2> QED BY <1>0, <1>1, <2>1 DEF ConnsSound, Start
<1>2. ASSUME NEW d \in Devices, Stop(d) PROVE ConnsSound'
  <2>1. ASSUME NEW c \in conns PROVE ConnSound(c)'
    BY <1>0, <1>2, ConnectionType DEF ConnsSound, ConnSound, Stop, Alive, WifiTypeOK
  <2> QED BY <1>0, <1>2, <2>1 DEF ConnsSound, Stop
<1>3. ASSUME NEW d \in Devices, End(d) PROVE ConnsSound'
  BY <1>3, EndSound
<1>4. ASSUME NEW d \in Devices, NEW p \in Devices, Connect(d, p) PROVE ConnsSound'
  BY <1>4, ConnectSound
<1>5. ASSUME NEW d \in Devices, SendAll(d) PROVE ConnsSound'
  BY <1>5, SendAllSound
<1>6. ASSUME NEW c \in conns, Break(c) PROVE ConnsSound'
  <2>1. PICK how \in {"reset", "silent"} :
          conns' = (conns \ {c}) \cup {Conn(c.msg, c.sent, how, c.taken, c.read)}
    BY <1>6 DEF Break
  <2>2. PICK v : v = Conn(c.msg, c.sent, how, c.taken, c.read)
    OBVIOUS
  <2>3. v.msg = c.msg /\ v.sent = c.sent /\ v.link = how /\ v.taken = c.taken /\ v.read = c.read
    BY <2>2, ConnFields
  <2>4. count' = count /\ pc' = pc /\ sending' = sending
    BY <1>6 DEF Break
  <2>5. ConnSound(v)'
    BY <1>0, <2>3, <2>4 DEF ConnsSound, ConnSound, Alive
  <2> QED BY <1>0, <2>1, <2>2, <2>3, <2>4, <2>5, ReplaceSound
<1>7. ASSUME NEW c \in conns, Accept(c) PROVE ConnsSound'
  <2>1. PICK v : v = Conn(c.msg, c.sent, c.link, TRUE, c.read)
    OBVIOUS
  <2>2. v.msg = c.msg /\ v.sent = c.sent /\ v.link = c.link /\ v.taken = TRUE /\ v.read = c.read
    BY <2>1 DEF Conn
  <2>3. /\ count' = count /\ pc' = pc /\ sending' = sending
        /\ conns' = (conns \ {c}) \cup {v}
    BY <1>7, <2>1 DEF Accept, Taken
  <2>4. ConnSound(v)'
    BY <1>0, <2>2, <2>3 DEF ConnsSound, ConnSound, Alive
  <2> QED BY <1>0, <2>2, <2>3, <2>4, ReplaceSound
<1>8. ASSUME NEW c \in conns, ReadPart(c) PROVE ConnsSound'
  <2>1. count' = count /\ pc' = pc /\ sending' = sending /\ c.taken /\ c.sent
    BY <1>8 DEF ReadPart
  <2>2. CASE conns' = conns \ {c}
    BY <1>0, <2>1, <2>2, RemoveSound
  <2>3. CASE conns' = (conns \ {c}) \cup {Conn(c.msg, c.sent, c.link, c.taken, c.read + 1)}
    <3>1. PICK v : v = Conn(c.msg, c.sent, c.link, c.taken, c.read + 1)
      OBVIOUS
    <3>2. v.msg = c.msg /\ v.sent = c.sent /\ v.link = c.link /\ v.taken = c.taken
      BY <3>1, ConnFields
    <3>3. ConnSound(v)'
      BY <1>0, <2>1, <3>2 DEF ConnsSound, ConnSound, Alive
    <3> QED BY <1>0, <2>1, <2>3, <3>1, <3>2, <3>3, ReplaceSound
  <2> QED BY <1>8, <2>2, <2>3 DEF ReadPart
<1>9. ASSUME NEW c \in conns, DropConnection(c) PROVE ConnsSound'
  BY <1>0, <1>9, RemoveSound DEF DropConnection
<1>10. ASSUME UNCHANGED <<conns, count, pc, sending>> PROVE ConnsSound'
  BY <1>0, <1>10, RemoveSound
<1>11. ASSUME NEW d \in Devices, NEW p \in Devices, AddService(d, p) \/ RemoveService(d, p)
       PROVE ConnsSound'
  BY <1>10, <1>11 DEF AddService, RemoveService, vars
<1>12. ASSUME NEW d \in Devices,
              Discover(d) \/ DiscoverEnds(d) \/ Receive(d) \/ AcceptFails(d)
       PROVE ConnsSound'
  BY <1>10, <1>12 DEF Discover, DiscoverEnds, Receive, AcceptFails
<1>13. CASE UNCHANGED vars
  BY <1>10, <1>13 DEF vars
<1> QED BY <1>1, <1>2, <1>3, <1>4, <1>5, <1>6, <1>7, <1>8, <1>9, <1>11, <1>12, <1>13 DEF Next

(***************************************************************************)
(* Processes stay sound                                                    *)
(***************************************************************************)
LEMMA KeepsProcess ==
  ASSUME WifiTypeOK, NEW e \in Devices, ProcessSound(e),
         peers'[e] = peers[e], pc'[e] = pc[e], run'[e] = run[e], sending'[e] = sending[e],
         size'[e] = size[e], e \in accepting' => e \in accepting,
         count' \in Nat, count' >= count
  PROVE  ProcessSound(e)'
<1>1. ASSUME sending[e] # NoMessage PROVE sending[e].id <= count'
  <2>1. sending[e].id \in Nat /\ sending[e].id <= count /\ count \in Nat
    BY <1>1 DEF WifiTypeOK, ProcessSound, Message
  <2> QED BY <2>1
<1> QED BY <1>1 DEF ProcessSound, Alive

LEMMA NextProcessSound == WifiInv /\ [Next]_vars => \A e \in Devices : ProcessSound(e)'
<1> SUFFICES ASSUME WifiInv, [Next]_vars, NEW e \in Devices PROVE ProcessSound(e)'
  OBVIOUS
<1>0. WifiTypeOK /\ ProcessSound(e) /\ count \in Nat
  BY DEF WifiInv, WifiTypeOK
<1>1. ASSUME NEW d \in Devices, Start(d) PROVE ProcessSound(e)'
  <2>1. CASE e = d
    BY <1>0, <1>1, <2>1 DEF ProcessSound, Start, Alive, WifiTypeOK
  <2>2. CASE e # d
    BY <1>0, <1>1, <2>2, KeepsProcess DEF Start, WifiTypeOK
  <2> QED BY <2>1, <2>2
<1>2. ASSUME NEW d \in Devices, Stop(d) PROVE ProcessSound(e)'
  <2>1. CASE e = d
    BY <1>0, <1>2, <2>1 DEF ProcessSound, Stop, Free, Alive, WifiTypeOK
  <2>2. CASE e # d
    BY <1>0, <1>2, <2>2, KeepsProcess DEF Stop, WifiTypeOK
  <2> QED BY <2>1, <2>2
<1>3. ASSUME NEW d \in Devices, End(d) PROVE ProcessSound(e)'
  <2>1. CASE e = d
    BY <1>0, <1>3, <2>1 DEF ProcessSound, End, Alive, WifiTypeOK
  <2>2. CASE e # d
    BY <1>0, <1>3, <2>2, KeepsProcess DEF End, WifiTypeOK
  <2> QED BY <2>1, <2>2
<1>4. ASSUME NEW d \in Devices, NEW p \in Devices, AddService(d, p) PROVE ProcessSound(e)'
  <2>1. CASE e = d
    <3>1. peers'[e][e] = 0
      BY <1>0, <1>4, <2>1 DEF ProcessSound, AddService, WifiTypeOK
    <3> QED BY <1>0, <1>4, <3>1 DEF ProcessSound, AddService, Alive
  <2>2. CASE e # d
    <3>1. peers'[e] = peers[e]
      BY <1>0, <1>4, <2>2 DEF AddService, WifiTypeOK
    <3>2. UNCHANGED <<pc, run, sending, size, accepting, count>>
      BY <1>4 DEF AddService
    <3> QED BY <1>0, <3>1, <3>2, KeepsProcess
  <2> QED BY <2>1, <2>2
<1>5. ASSUME NEW d \in Devices, NEW p \in Devices, Connect(d, p) PROVE ProcessSound(e)'
  <2>0. count' = count + 1
    BY <1>5 DEF Connect
  <2>1. CASE e = d
    <3>1. PICK m : m = [id |-> count + 1, from |-> d, to |-> p]
      OBVIOUS
    <3>2. m.id = count + 1 /\ m.from = d
      BY <3>1
    <3>3. sending'[d] = m
      BY <1>0, <1>5, <3>1 DEF Connect, WifiTypeOK
    <3>4. pc' = pc /\ pc[d] = "up" /\ size' = size /\ run' = run /\ peers' = peers
          /\ accepting' = accepting
      BY <1>5 DEF Connect, Free
    <3> QED BY <1>0, <2>0, <2>1, <3>2, <3>3, <3>4 DEF ProcessSound, Alive
  <2>2. CASE e # d
    <3>1. sending'[e] = sending[e]
      BY <1>0, <1>5, <2>2 DEF Connect, WifiTypeOK
    <3> QED BY <1>0, <1>5, <2>0, <3>1, KeepsProcess DEF Connect
  <2> QED BY <2>1, <2>2
<1>6. ASSUME NEW d \in Devices, Discover(d) PROVE ProcessSound(e)'
  <2>1. CASE e = d
    BY <1>0, <1>6, <2>1 DEF ProcessSound, Discover, Free, Alive
  <2>2. CASE e # d
    BY <1>0, <1>6, <2>2, KeepsProcess DEF Discover, WifiTypeOK
  <2> QED BY <2>1, <2>2
<1>7. ASSUME NEW d \in Devices, DiscoverEnds(d) PROVE ProcessSound(e)'
  <2>1. CASE e = d
    <3>1. size'[e] = NoSize
      BY <1>0, <1>7, <2>1 DEF DiscoverEnds, WifiTypeOK
    <3> QED BY <1>0, <1>7, <3>1 DEF ProcessSound, DiscoverEnds, Alive
  <2>2. CASE e # d
    BY <1>0, <1>7, <2>2, KeepsProcess DEF DiscoverEnds, WifiTypeOK
  <2> QED BY <2>1, <2>2
<1>8. ASSUME NEW d \in Devices, SendAll(d) PROVE ProcessSound(e)'
  <2>1. CASE e = d
    <3>1. sending'[e] = NoMessage
      BY <1>0, <1>8, <2>1 DEF SendAll, WifiTypeOK
    <3> QED BY <1>0, <1>8, <3>1 DEF ProcessSound, SendAll, Alive
  <2>2. CASE e # d
    BY <1>0, <1>8, <2>2, KeepsProcess DEF SendAll, WifiTypeOK
  <2> QED BY <2>1, <2>2
<1>9. ASSUME UNCHANGED <<pc, run, peers, size, count, sending>>, accepting' \subseteq accepting
      PROVE ProcessSound(e)'
  BY <1>0, <1>9, KeepsProcess
<1>10. ASSUME NEW c \in conns, Break(c) \/ Accept(c) \/ ReadPart(c) \/ DropConnection(c)
       PROVE ProcessSound(e)'
  BY <1>9, <1>10 DEF Break, Accept, Taken, ReadPart, DropConnection
<1>11. ASSUME NEW d \in Devices, NEW p \in Devices,
              Receive(d) \/ RemoveService(d, p) \/ AcceptFails(d)
       PROVE ProcessSound(e)'
  BY <1>9, <1>11 DEF Receive, RemoveService, AcceptFails, vars
<1>12. CASE UNCHANGED vars
  BY <1>9, <1>12 DEF vars
<1> QED BY <1>1, <1>2, <1>3, <1>4, <1>5, <1>6, <1>7, <1>8, <1>10, <1>11, <1>12 DEF Next

(***************************************************************************)
(* The invariant                                                           *)
(***************************************************************************)
LEMMA NextWifi == WifiInv /\ [Next]_vars => WifiInv'
  BY NextWifiType, NextConnsSound, NextProcessSound DEF WifiInv

\* Connections lead to running processes and carry messages of their own, and
\* what is not sent is being sent.  (WifiTransport)
THEOREM WifiInvariance == Spec => []WifiInv
<1>1. Init => WifiInv
  BY InitWifi
<1> QED BY <1>1, NextWifi, PTL DEF Spec

LEMMA NextDiscovered ==
  WifiTypeOK /\ DiscoveredIsKnown /\ [Next]_vars => DiscoveredIsKnown'
<1> SUFFICES ASSUME WifiTypeOK, DiscoveredIsKnown, [Next]_vars, NEW e \in Devices,
                    pc'[e] = "up", NEW x \in found'[e]
             PROVE  x \in Known(e)'
  BY DEF DiscoveredIsKnown
<1>1. ASSUME NEW d \in Devices, Start(d) PROVE x \in Known(e)'
  <2>1. e # d
    BY <1>1 DEF Start, WifiTypeOK
  <2>2. pc[e] = "up" /\ found'[e] = found[e] /\ peers'[e] = peers[e]
    BY <1>1, <2>1 DEF Start, WifiTypeOK
  <2> QED BY <2>2 DEF DiscoveredIsKnown, Known
<1>2. ASSUME NEW d \in Devices, Stop(d) \/ End(d) PROVE x \in Known(e)'
  <2>1. pc[e] = "up" /\ found' = found /\ peers' = peers
    BY <1>2 DEF Stop, End, WifiTypeOK
  <2> QED BY <2>1 DEF DiscoveredIsKnown, Known
<1>3. ASSUME NEW d \in Devices, NEW p \in Devices, AddService(d, p) PROVE x \in Known(e)'
  <2>1. x \in Devices /\ peers[e][x] # 0
    BY <1>3 DEF AddService, DiscoveredIsKnown, Known
  <2>3. CASE e = d /\ x = p
    <3>1. peers'[e][x] = run[p] /\ run[p] # 0
      BY <1>3, <2>3 DEF AddService, WifiTypeOK
    <3> QED BY <2>1, <3>1 DEF Known
  <2>4. CASE ~(e = d /\ x = p)
    <3>1. peers'[e][x] = peers[e][x]
      BY <1>3, <2>1, <2>4 DEF AddService, WifiTypeOK
    <3> QED BY <2>1, <3>1 DEF Known
  <2> QED BY <2>3, <2>4
<1>4. ASSUME NEW d \in Devices, DiscoverEnds(d) PROVE x \in Known(e)'
  <2>1. pc[e] = "up" /\ peers' = peers
    BY <1>4 DEF DiscoverEnds
  <2>2. found'[e] = Known(e) \/ found'[e] = found[e]
    BY <1>4 DEF DiscoverEnds, WifiTypeOK
  <2> QED BY <2>1, <2>2 DEF DiscoveredIsKnown, Known
<1>5. ASSUME UNCHANGED <<pc, found, peers>> PROVE x \in Known(e)'
  BY <1>5 DEF DiscoveredIsKnown, Known
<1>6. ASSUME NEW d \in Devices, NEW p \in Devices, RemoveService(d, p) \/ Connect(d, p)
      PROVE x \in Known(e)'
  BY <1>5, <1>6 DEF RemoveService, Connect, vars
<1>7. ASSUME NEW d \in Devices, Discover(d) \/ SendAll(d) \/ Receive(d) \/ AcceptFails(d)
      PROVE x \in Known(e)'
  BY <1>5, <1>7 DEF Discover, SendAll, Receive, AcceptFails
<1>8. ASSUME NEW c \in conns, Break(c) \/ Accept(c) \/ ReadPart(c) \/ DropConnection(c)
      PROVE x \in Known(e)'
  BY <1>5, <1>8 DEF Break, Accept, Taken, ReadPart, DropConnection
<1>9. CASE UNCHANGED vars
  BY <1>5, <1>9 DEF vars
<1> QED BY <1>1, <1>2, <1>3, <1>4, <1>6, <1>7, <1>8, <1>9 DEF Next

\* What discover() returned stays in _peers while the process runs.
\* (_Listener.remove_service, discover)
THEOREM Discovered == Spec => []DiscoveredIsKnown
<1>1. Init => DiscoveredIsKnown
  BY InitWifi
<1>2. WifiInv => WifiTypeOK
  BY DEF WifiInv
<1> QED BY <1>1, <1>2, NextDiscovered, WifiInvariance, PTL DEF Spec

(***************************************************************************)
(* The channel                                                             *)
(***************************************************************************)
\* The messages that have a connection to p.
OnWay(p) == {c.msg : c \in ConnsTo(p)}

LEMMA InitChannel == Init => \A p \in Devices : Ch(p)!Init
<1> SUFFICES ASSUME Init, NEW p \in Devices PROVE Ch(p)!Init
  OBVIOUS
<1>1. inbox[p] = <<>> /\ ConnsTo(p) = {}
  BY DEF Init, ConnsTo
<1>2. Alive(p) = FALSE
  BY DEF Init, Alive
<1> QED BY <1>1, <1>2 DEF Ch!Init

\* A new version of a connection leaves the messages on their way as they are.
LEMMA ReplaceNet ==
  ASSUME NEW c \in conns, NEW v, v.msg = c.msg, conns' = (conns \ {c}) \cup {v}, NEW p
  PROVE  OnWay(p)' = OnWay(p)
  BY DEF OnWay, ConnsTo

LEMMA RemoveNet ==
  ASSUME conns' \subseteq conns, NEW p
  PROVE  OnWay(p)' \subseteq OnWay(p)
  BY DEF OnWay, ConnsTo

\* A step that neither delivers to p nor takes from it, and leaves p running or
\* not as it was.
LEMMA QuietStep ==
  ASSUME NEW p \in Devices, pc'[p] = pc[p] \/ (pc[p] = "up" /\ pc'[p] = "stopping"),
         inbox'[p] = inbox[p], OnWay(p)' \subseteq OnWay(p)
  PROVE  Ch(p)!Next
<1>1. Alive(p)' = Alive(p)
  BY DEF Alive
<1> QED BY <1>1 DEF OnWay, Ch!Next, Ch!Lose

LEMMA EndNet ==
  ASSUME NEW d \in Devices, End(d), NEW p
  PROVE  OnWay(p)' \subseteq OnWay(p)
<1>1. \A c \in conns : Orphaned(c, d).msg = c.msg
  BY ConnFields DEF Orphaned
<1>2. conns' = {Orphaned(c, d) : c \in conns \ ConnsTo(d)}
  BY DEF End
<1>3. ASSUME NEW v \in conns' PROVE \E c \in conns : c.msg = v.msg
  BY <1>1, <1>2
<1> QED BY <1>3 DEF OnWay, ConnsTo

LEMMA SendAllNet ==
  ASSUME NEW d \in Devices, SendAll(d), NEW p
  PROVE  OnWay(p)' \subseteq OnWay(p)
<1> DEFINE mine == {c \in conns : c.msg = sending[d]}
           Sent(c) == Conn(c.msg, TRUE, c.link, c.taken, c.read)
<1>1. conns' = (conns \ mine) \cup {Sent(c) : c \in mine}
  BY DEF SendAll
<1>2. \A c \in conns : Sent(c).msg = c.msg
  BY DEF Conn
<1> HIDE DEF Sent
<1>3. ASSUME NEW v \in conns' PROVE \E c \in conns : c.msg = v.msg
  BY <1>1, <1>2
<1> QED BY <1>3 DEF OnWay, ConnsTo

LEMMA StepChannel ==
  ASSUME WifiInv, [Next]_vars, NEW p \in Devices
  PROVE  [Ch(p)!Next]_(Ch(p)!vars)
<1>0. /\ WifiTypeOK /\ ConnsSound /\ ProcessSound(p)
      /\ pc[p] \in {"down", "up", "stopping"} /\ inbox[p] \in Seq(Message)
  BY DEF WifiInv, WifiTypeOK
<1>1. ASSUME NEW d \in Devices, Start(d) PROVE Ch(p)!Next
  <2>1. OnWay(p)' = OnWay(p)
    BY <1>1 DEF Start, OnWay, ConnsTo
  <2>2. CASE d = p
    <3>1. inbox'[p] = <<>> /\ pc[p] = "down" /\ pc'[p] = "up"
      BY <1>0, <1>1, <2>2 DEF Start, WifiTypeOK
    <3>2. Alive(p) = FALSE /\ Alive(p)' = TRUE
      BY <3>1 DEF Alive
    <3>3. Ch(p)!Start
      BY <2>1, <3>1, <3>2 DEF OnWay, Ch!Start
    <3> QED BY <3>3 DEF Ch!Next
  <2>3. CASE d # p
    <3>1. pc'[p] = pc[p] /\ inbox'[p] = inbox[p]
      BY <1>0, <1>1, <2>3 DEF Start, WifiTypeOK
    <3> QED BY <2>1, <3>1, QuietStep
  <2> QED BY <2>2, <2>3
<1>2. ASSUME NEW d \in Devices, Stop(d) PROVE Ch(p)!Next
  <2>1. inbox' = inbox /\ OnWay(p)' = OnWay(p)
    BY <1>2 DEF Stop, OnWay, ConnsTo
  <2>2. pc'[p] = pc[p] \/ (pc[p] = "up" /\ pc'[p] = "stopping")
    BY <1>0, <1>2 DEF Stop, Free, WifiTypeOK
  <2> QED BY <2>1, <2>2, QuietStep
<1>3. ASSUME NEW d \in Devices, End(d) PROVE Ch(p)!Next
  <2>1. inbox' = inbox /\ OnWay(p)' \subseteq OnWay(p)
    BY <1>3, EndNet DEF End
  <2>2. CASE d = p
    <3>1. pc[p] # "down" /\ pc'[p] = "down"
      BY <1>0, <1>3, <2>2 DEF End, Alive, WifiTypeOK
    <3>2. Alive(p) = TRUE /\ Alive(p)' = FALSE
      BY <3>1 DEF Alive
    <3>3. Ch(p)!Stop
      BY <2>1, <3>2 DEF OnWay, Ch!Stop
    <3> QED BY <3>3 DEF Ch!Next
  <2>3. CASE d # p
    <3>1. pc'[p] = pc[p]
      BY <1>0, <1>3, <2>3 DEF End, WifiTypeOK
    <3> QED BY <2>1, <3>1, QuietStep
  <2> QED BY <2>2, <2>3
<1>4. ASSUME UNCHANGED <<pc, inbox>>, OnWay(p)' \subseteq OnWay(p) PROVE Ch(p)!Next
  BY <1>4, QuietStep
<1>5. ASSUME NEW d \in Devices, NEW q \in Devices, Connect(d, q) PROVE Ch(p)!Next
  <2>1. PICK m : m = [id |-> count + 1, from |-> d, to |-> q]
    OBVIOUS
  <2>2. PICK v : v = Conn(m, FALSE, "ok", FALSE, 0)
    OBVIOUS
  <2>3. conns' = conns \cup {v} /\ UNCHANGED <<pc, inbox>>
    BY <1>5, <2>1, <2>2 DEF Connect
  <2>4. v.msg = m /\ m.to = q
    BY <2>1, <2>2 DEF Conn
  <2>5. m \in Message
    <3>1. count + 1 \in 1..MaxSends
      BY <1>0, <1>5, WifiBounds DEF Connect, WifiTypeOK
    <3> QED BY <2>1, <3>1 DEF Message
  <2>6. CASE q = p
    <3>1. OnWay(p)' = OnWay(p) \cup {m}
      BY <2>3, <2>4, <2>6 DEF OnWay, ConnsTo
    <3>2. Alive(p)' = Alive(p)
      BY <2>3 DEF Alive
    <3>3. Ch(p)!Send(m)
      BY <2>3, <3>1, <3>2 DEF OnWay, Ch!Send
    <3> QED BY <2>5, <3>3 DEF Ch!Next
  <2>7. CASE q # p
    <3>1. OnWay(p)' = OnWay(p)
      BY <2>3, <2>4, <2>7 DEF OnWay, ConnsTo
    <3> QED BY <2>3, <3>1, <1>4
  <2> QED BY <2>6, <2>7
<1>6. ASSUME NEW d \in Devices, SendAll(d) PROVE Ch(p)!Next
  <2>1. UNCHANGED <<pc, inbox>>
    BY <1>6 DEF SendAll
  <2> QED BY <1>4, <1>6, <2>1, SendAllNet
<1>7. ASSUME NEW d \in Devices, Receive(d) PROVE Ch(p)!Next
  <2>1. UNCHANGED <<pc, conns>> /\ OnWay(p)' = OnWay(p)
    BY <1>7 DEF Receive, OnWay, ConnsTo
  <2>2. CASE d = p
    <3>1. pc[p] = "up" /\ inbox[p] # <<>> /\ inbox'[p] = Tail(inbox[p])
      BY <1>0, <1>7, <2>2 DEF Receive, Free, WifiTypeOK
    <3>2. Alive(p) = TRUE /\ Alive(p)' = TRUE
      BY <2>1, <3>1 DEF Alive
    <3>3. Ch(p)!Receive
      BY <2>1, <3>1, <3>2 DEF OnWay, Ch!Receive
    <3> QED BY <3>3 DEF Ch!Next
  <2>3. CASE d # p
    <3>1. inbox'[p] = inbox[p]
      BY <1>0, <1>7, <2>3 DEF Receive, WifiTypeOK
    <3> QED BY <2>1, <3>1, QuietStep
  <2> QED BY <2>2, <2>3
<1>8. ASSUME NEW c \in conns, Break(c) PROVE Ch(p)!Next
  <2>1. PICK how : conns' = (conns \ {c}) \cup {Conn(c.msg, c.sent, how, c.taken, c.read)}
    BY <1>8 DEF Break
  <2>2. OnWay(p)' = OnWay(p)
    BY <2>1, ConnFields, ReplaceNet
  <2> QED BY <1>4, <1>8, <2>2 DEF Break
<1>9. ASSUME NEW c \in conns, Accept(c) PROVE Ch(p)!Next
  <2>1. PICK v : v = Conn(c.msg, c.sent, c.link, TRUE, c.read)
    OBVIOUS
  <2>2. conns' = (conns \ {c}) \cup {v} /\ v.msg = c.msg /\ UNCHANGED <<pc, inbox>>
    BY <1>9, <2>1 DEF Accept, Taken, Conn
  <2>3. OnWay(p)' = OnWay(p)
    BY <2>2, ReplaceNet
  <2> QED BY <1>4, <2>2, <2>3
<1>10. ASSUME NEW c \in conns, ReadPart(c) PROVE Ch(p)!Next
  <2>0. pc' = pc
    BY <1>10 DEF ReadPart
  <2>1. CASE /\ conns' = (conns \ {c}) \cup {Conn(c.msg, c.sent, c.link, c.taken, c.read + 1)}
             /\ UNCHANGED inbox
    <3>1. OnWay(p)' = OnWay(p)
      BY <2>1, ConnFields, ReplaceNet
    <3> QED BY <1>4, <2>0, <2>1, <3>1
  <2>2. CASE /\ conns' = conns \ {c}
             /\ inbox' = [inbox EXCEPT ![c.msg.to] = Append(inbox[c.msg.to], c.msg)]
    <3>1. CASE c.msg.to = p
      <4>1. c.msg \in OnWay(p)
        BY <3>1 DEF OnWay, ConnsTo
      <4>2. OnWay(p)' = OnWay(p) \ {c.msg}
        <5>1. \A o \in conns : o.msg = c.msg => o = c
          BY <1>0 DEF ConnsSound
        <5> QED BY <2>2, <5>1 DEF OnWay, ConnsTo
      <4>3. Alive(p) = TRUE /\ Alive(p)' = TRUE
        BY <1>0, <2>0, <3>1 DEF ConnsSound, ConnSound, Alive
      <4>4. inbox'[p] = Append(inbox[p], c.msg)
        BY <1>0, <2>2, <3>1 DEF WifiTypeOK
      <4>5. Ch(p)!Deliver(c.msg)
        BY <4>1, <4>2, <4>3, <4>4 DEF OnWay, Ch!Deliver
      <4> QED BY <1>0, <4>5, ConnectionType DEF Ch!Next
    <3>2. CASE c.msg.to # p
      <4>1. inbox'[p] = inbox[p]
        BY <1>0, <2>2, <3>2 DEF WifiTypeOK
      <4>2. OnWay(p)' \subseteq OnWay(p)
        BY <2>2, RemoveNet
      <4> QED BY <2>0, <4>1, <4>2, QuietStep
    <3> QED BY <3>1, <3>2
  <2> QED BY <1>10, <2>1, <2>2 DEF ReadPart
<1>11. ASSUME NEW c \in conns, DropConnection(c) PROVE Ch(p)!Next
  <2>1. conns' \subseteq conns /\ UNCHANGED <<pc, inbox>>
    BY <1>11 DEF DropConnection
  <2> QED BY <1>4, <2>1, RemoveNet
<1>12. ASSUME UNCHANGED <<pc, inbox, conns>> PROVE Ch(p)!Next
  BY <1>4, <1>12, RemoveNet
<1>13. ASSUME NEW d \in Devices, NEW q \in Devices, AddService(d, q) \/ RemoveService(d, q)
       PROVE Ch(p)!Next
  BY <1>12, <1>13 DEF AddService, RemoveService, vars
<1>14. ASSUME NEW d \in Devices, Discover(d) \/ DiscoverEnds(d) \/ AcceptFails(d)
       PROVE Ch(p)!Next
  BY <1>12, <1>14 DEF Discover, DiscoverEnds, AcceptFails
<1>15. CASE UNCHANGED vars
  BY <1>12, <1>15 DEF vars
<1> QED BY <1>1, <1>2, <1>3, <1>5, <1>6, <1>7, <1>8, <1>9, <1>10, <1>11, <1>13, <1>14, <1>15
    DEF Next

\* Every device's WifiTransport is a Channel for as long as the system lives,
\* for any numbers of devices, launches and connections.
THEOREM Channels == Spec => ImplementsChannel
<1>1. WifiInv /\ [Next]_vars => [\A p \in Devices : [Ch(p)!Next]_(Ch(p)!vars)]_vars
  BY StepChannel
<1> QED BY InitChannel, WifiInvariance, <1>1, PTL DEF Spec, ImplementsChannel

(***************************************************************************)
(* Intact connections                                                      *)
(***************************************************************************)
LEMMA StepIntact ==
  ASSUME WifiInv, [Next]_vars, NEW c \in conns, c.link = "ok", pc[c.msg.to] = "up",
         c.msg \notin {o.msg : o \in conns'}, pc'[c.msg.to] # "down"
  PROVE  inbox'[c.msg.to] = Append(inbox[c.msg.to], c.msg)
<1>0. /\ WifiTypeOK /\ ConnsSound /\ c.msg.to \in Devices
      /\ \A o \in conns' : o.msg # c.msg
  BY ConnectionType DEF WifiInv
<1>1. c \notin conns'
  BY <1>0
<1>2. ASSUME NEW e \in conns, NEW v, v.msg = e.msg, conns' = (conns \ {e}) \cup {v}
      PROVE FALSE
  <2>1. c = e
    BY <1>1, <1>2
  <2> QED BY <1>0, <1>2, <2>1
<1>3. ASSUME NEW d \in Devices, End(d) PROVE FALSE
  <2>1. c.msg.to # d
    BY <1>0, <1>3 DEF End, WifiTypeOK
  <2>2. Orphaned(c, d) \in conns'
    BY <1>3, <2>1 DEF End, ConnsTo
  <2>3. Orphaned(c, d).msg = c.msg
    BY ConnFields DEF Orphaned
  <2> QED BY <1>0, <2>2, <2>3
<1>4. ASSUME NEW d \in Devices, SendAll(d) PROVE FALSE
  <2>1. PICK v : v = Conn(c.msg, TRUE, c.link, c.taken, c.read)
    OBVIOUS
  <2>2. v.msg = c.msg
    BY <2>1 DEF Conn
  <2>3. c \in conns' \/ v \in conns'
    BY <1>4, <2>1 DEF SendAll
  <2> QED BY <1>0, <2>2, <2>3
<1>5. ASSUME NEW d \in Devices, NEW q \in Devices, Connect(d, q) PROVE FALSE
  BY <1>1, <1>5 DEF Connect
<1>6. ASSUME NEW e \in conns, Break(e) PROVE FALSE
  BY <1>2, <1>6, ConnFields DEF Break
<1>7. ASSUME NEW e \in conns, Accept(e) PROVE FALSE
  <2>1. PICK v : v = Conn(e.msg, e.sent, e.link, TRUE, e.read)
    OBVIOUS
  <2>2. v.msg = e.msg /\ conns' = (conns \ {e}) \cup {v}
    BY <1>7, <2>1 DEF Accept, Taken, Conn
  <2> QED BY <1>2, <2>2
<1>8. ASSUME NEW e \in conns, ReadPart(e)
      PROVE inbox'[c.msg.to] = Append(inbox[c.msg.to], c.msg)
  <2>1. CASE conns' = (conns \ {e}) \cup {Conn(e.msg, e.sent, e.link, e.taken, e.read + 1)}
    BY <1>2, <2>1, ConnFields
  <2>2. CASE /\ conns' = conns \ {e}
             /\ inbox' = [inbox EXCEPT ![e.msg.to] = Append(inbox[e.msg.to], e.msg)]
    <3>1. c = e
      BY <1>1, <2>2
    <3> QED BY <1>0, <2>2, <3>1 DEF WifiTypeOK
  <2> QED BY <1>8, <2>1, <2>2 DEF ReadPart
<1>9. ASSUME NEW e \in conns, DropConnection(e) PROVE FALSE
  <2>1. c = e
    BY <1>1, <1>9 DEF DropConnection
  <2> QED BY <1>9, <2>1 DEF DropConnection
<1>10. conns' # conns
  BY <1>1
<1>11. ASSUME NEW d \in Devices, NEW q \in Devices,
              \/ Start(d) \/ Stop(d) \/ AddService(d, q) \/ RemoveService(d, q)
              \/ Discover(d) \/ DiscoverEnds(d) \/ Receive(d) \/ AcceptFails(d)
       PROVE FALSE
  BY <1>10, <1>11 DEF Start, Stop, AddService, RemoveService, Discover, DiscoverEnds, Receive,
                      AcceptFails, vars
<1>12. CASE UNCHANGED vars
  BY <1>10, <1>12 DEF vars
<1> QED BY <1>3, <1>4, <1>5, <1>6, <1>7, <1>8, <1>9, <1>11, <1>12 DEF Next

\* The message of a connection that did not break is delivered, or its receiver
\* ends: no step takes the connection away otherwise.
THEOREM Intact == Spec => IntactIsDelivered
<1>1. WifiInv /\ [Next]_vars =>
        [\A c \in conns :
           (c.link = "ok" /\ pc[c.msg.to] = "up" /\ c.msg \notin {o.msg : o \in conns'}) =>
             \/ inbox'[c.msg.to] = Append(inbox[c.msg.to], c.msg)
             \/ pc'[c.msg.to] = "down"]_vars
  BY StepIntact
<1> QED BY WifiInvariance, <1>1, PTL DEF Spec, IntactIsDelivered
=============================================================================
