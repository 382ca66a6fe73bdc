---------------------------- MODULE PairingProofs ----------------------------
(***************************************************************************)
(* Proofs that safety numbers agree and that records name the identities   *)
(* their peers still have, for any numbers of devices, launches and        *)
(* identities.                                                             *)
(***************************************************************************)
EXTENDS PairingProps, TLAPS

(***************************************************************************)
(* Messages and queues                                                     *)
(***************************************************************************)
LEMMA ResponseTyped ==
  ASSUME NEW mine \in KeyPair, NEW theirs \in KeyPair
  PROVE  Response(mine, theirs) \in ResponseType /\ Response(mine, theirs).x25519_pub = mine
BY DEF Response, ResponseKey, ResponseType, SecretType, CiphertextType, combine_secrets,
     derive_shared_secret, encapsulate, decapsulate, Ciphertext, encrypt

LEMMA RecordTyped ==
  ASSUME NEW mine \in KeyPair, NEW theirs \in KeyPair
  PROVE  Record(mine, theirs) \in PeerRecord
BY DEF Record, PeerRecord, compute_fingerprint

\* The decrypted response was made for the key pair that decrypts it, and is
\* its sender's.
LEMMA CompletesGenuine ==
  ASSUME NEW me, NEW mine, NEW theirs, Completes(me, Response(mine, theirs))
  PROVE  theirs = me /\ Response(mine, theirs).ciphertext.plaintext = mine
BY DEF Completes, Response, ResponseKey, Decrypts, combine_secrets, encapsulate, decapsulate,
     encrypt

LEMMA MarkedTyped ==
  ASSUME NEW q \in Seq(Connection), NEW d, NEW s \in {"sent", "dead"}
  PROVE  /\ Marked(q, d, s) \in Seq(Connection)
         /\ Len(Marked(q, d, s)) = Len(q)
         /\ \A k \in 1..Len(q) : Marked(q, d, s)[k].message = q[k].message
<1> DEFINE n == Len(q)
<1>1. n \in Nat
  OBVIOUS
<1>2. \A k \in 1..n : q[k] \in Connection
  OBVIOUS
<1>3. \A k \in 1..n :
        (IF q[k].from = d /\ q[k].state = "open"
         THEN [from |-> d, state |-> s, message |-> q[k].message] ELSE q[k]) \in Connection
  BY <1>2 DEF Connection
<1> QED BY <1>1, <1>2, <1>3 DEF Marked, Connection

LEMMA MarkedOpen ==
  ASSUME NEW q \in Seq(Connection), NEW d, NEW s \in {"sent", "dead"}, NEW k \in 1..Len(q)
  PROVE  /\ q[k].from = d /\ q[k].state = "open" =>
              Marked(q, d, s)[k] = [from |-> d, state |-> s, message |-> q[k].message]
         /\ ~(q[k].from = d /\ q[k].state = "open") => Marked(q, d, s)[k] = q[k]
BY DEF Marked

LEMMA MarkedKeepsOpen ==
  ASSUME NEW q \in Seq(Connection), NEW d, NEW s \in {"sent", "dead"}, NEW k \in 1..Len(q),
         Marked(q, d, s)[k].state = "open"
  PROVE  Marked(q, d, s)[k] = q[k] /\ q[k].from # d
<1>1. ~(q[k].from = d /\ q[k].state = "open")
  <2>1. Marked(q, d, s)[k] = [from |-> d, state |-> s, message |-> q[k].message] =>
          Marked(q, d, s)[k].state = s
    OBVIOUS
  <2> QED BY <2>1, MarkedOpen
<1>2. Marked(q, d, s)[k] = q[k]
  BY <1>1, MarkedOpen
<1> QED BY <1>1, <1>2

\* The connections of a step on which nothing new is queued.
Kept(a, q) ==
  /\ q \in Seq(Connection)
  /\ Len(q) <= Len(conns[a])
  /\ \A k \in 1..Len(q) : q[k].message = conns[a][k].message

LEMMA HangUpKeeps ==
  ASSUME PairingTypeOK, NEW d \in Devices, HangUp(d)
  PROVE  /\ \A a \in Displayers : Kept(a, conns'[a])
         /\ \A a \in Displayers \ {d} : Len(conns'[a]) = Len(conns[a])
         /\ conns' \in [Displayers -> Seq(Connection)]
<1>1. \A a \in Displayers \ {d} : Kept(a, conns'[a]) /\ Len(conns'[a]) = Len(conns[a])
  BY MarkedTyped DEF HangUp, PairingTypeOK, Kept
<1>2. \A a \in Displayers : a = d => Kept(a, conns'[a])
  BY DEF HangUp, PairingTypeOK, Kept
<1>3. DOMAIN conns' = Displayers /\ conns' = [a \in Displayers |-> conns'[a]]
  BY DEF HangUp
<1>4. \A a \in Displayers : Kept(a, conns'[a])
  BY <1>1, <1>2
<1> QED BY <1>1, <1>3, <1>4 DEF Kept

LEMMA SendKeeps ==
  ASSUME PairingTypeOK, NEW b \in Devices,
         conns' = [a \in Displayers |-> Marked(conns[a], b, "sent")]
  PROVE  /\ \A a \in Displayers : Kept(a, conns'[a])
         /\ \A a \in Displayers : Len(conns'[a]) = Len(conns[a])
         /\ conns' \in [Displayers -> Seq(Connection)]
<1>1. \A a \in Displayers : Kept(a, conns'[a]) /\ Len(conns'[a]) = Len(conns[a])
  BY MarkedTyped DEF PairingTypeOK, Kept
<1>2. conns' = [a \in Displayers |-> conns'[a]]
  OBVIOUS
<1> QED BY <1>1, <1>2 DEF Kept

LEMMA BreakKeeps ==
  ASSUME PairingTypeOK, NEW b \in Displayers, NEW n \in 1..Backlog, Break(b, n)
  PROVE  /\ \A a \in Displayers : Kept(a, conns'[a])
         /\ \A a \in Displayers : Len(conns'[a]) = Len(conns[a])
         /\ conns' \in [Displayers -> Seq(Connection)]
         /\ \A a \in Displayers : \A k \in 1..Len(conns[a]) :
              \/ conns'[a][k] = conns[a][k]
              \/ conns'[a][k].state \in {"dead", "silent"} /\ conns'[a][k].from = conns[a][k].from
<1> DEFINE c(state) == [conns[b][n] EXCEPT !.state = state]
<1>1. /\ n \in 1..Len(conns[b]) /\ conns[b] \in Seq(Connection)
      /\ \E state \in {"dead", "silent"} : conns' = [conns EXCEPT ![b][n] = c(state)]
  BY DEF Break, PairingTypeOK
<1>2. PICK state \in {"dead", "silent"} : conns' = [conns EXCEPT ![b] = [@ EXCEPT ![n] = c(state)]]
  BY <1>1
<1>3. conns[b][n] \in Connection
  BY <1>1
<1>4. /\ c(state) \in Connection /\ c(state).message = conns[b][n].message
      /\ c(state).from = conns[b][n].from /\ c(state).state = state
  BY <1>3 DEF Connection
<1> HIDE DEF c
<1> DEFINE q == [conns[b] EXCEPT ![n] = c(state)]
<1>5. /\ q \in Seq(Connection) /\ Len(q) = Len(conns[b])
      /\ \A k \in 1..Len(conns[b]) : q[k] = IF k = n THEN c(state) ELSE conns[b][k]
  BY <1>1, <1>4
<1>6. /\ conns'[b] = q /\ \A a \in Displayers \ {b} : conns'[a] = conns[a]
      /\ DOMAIN conns' = Displayers /\ conns' = [a \in Displayers |-> conns'[a]]
  BY <1>2 DEF PairingTypeOK
<1> HIDE DEF q
<1>7. /\ \A a \in Displayers : Kept(a, conns'[a]) /\ Len(conns'[a]) = Len(conns[a])
      /\ \A a \in Displayers : \A k \in 1..Len(conns[a]) :
              \/ conns'[a][k] = conns[a][k]
              \/ conns'[a][k].state \in {"dead", "silent"} /\ conns'[a][k].from = conns[a][k].from
  <2> SUFFICES ASSUME NEW a \in Displayers
               PROVE  /\ Kept(a, conns'[a]) /\ Len(conns'[a]) = Len(conns[a])
                      /\ \A k \in 1..Len(conns[a]) :
                           \/ conns'[a][k] = conns[a][k]
                           \/ conns'[a][k].state \in {"dead", "silent"} /\ conns'[a][k].from = conns[a][k].from
    OBVIOUS
  <2>1. CASE a = b
    BY <1>4, <1>5, <1>6, <2>1 DEF Kept
  <2>2. CASE a # b
    BY <1>6, <2>2 DEF Kept, PairingTypeOK
  <2> QED BY <2>1, <2>2
<1> QED BY <1>6, <1>7 DEF Kept

(***************************************************************************)
(* Types                                                                   *)
(***************************************************************************)
LEMMA InitPairingType == Init => PairingTypeOK
BY PairingBounds DEF Init, PairingTypeOK, FileState, Absent, Idle, PeerRecord, NoRecords

\* What a process past load_or_create_identity calls itself.
LEMMA MeIsOnFile ==
  ASSUME PairingInv, NEW d \in Devices,
         pc[d] \in {"loaded", "write_qr", "listen", "accept", "recv", "connect", "send", "save"}
  PROVE  /\ d \notin replaced => mem[d] = identity[d]
         /\ mem[d] \in 1..MaxIdentities /\ Me(d) \in KeyPair
<1>1. Running(d) /\ pc[d] \notin {"load", "create", "write_identity"}
  BY DEF Running, Idle
<1>2. mem[d] # Absent /\ (d \notin replaced => mem[d] = identity[d])
  BY <1>1 DEF PairingInv, MemoryIsFile
<1>3. mem[d] \in 0..MaxIdentities /\ MaxIdentities \in Nat
  BY PairingBounds DEF PairingInv, PairingTypeOK
<1>4. mem[d] \in 1..MaxIdentities
  BY <1>2, <1>3 DEF Absent
<1> QED BY <1>2, <1>4 DEF Me, KeyPair

\* What a displayer receives.
LEMMA HeadGenuine ==
  ASSUME PairingInv, NEW a \in Devices, pc[a] = "recv"
  PROVE  /\ a \in Displayers /\ Head(conns[a]) = conns[a][1] /\ 1 \in 1..Len(conns[a])
         /\ \E mine, theirs \in KeyPair :
              /\ Head(conns[a]).message = Response(mine, theirs)
              /\ [by |-> mine, fingerprint |-> compute_fingerprint(mine, theirs)] \in computed
<1>1. a \in Displayers /\ conns[a] # <<>>
  BY DEF PairingInv, RoleOf, ConnectionsGenuine
<1>2. conns[a] \in Seq(Connection)
  BY <1>1 DEF PairingInv, PairingTypeOK
<1>3. Head(conns[a]) = conns[a][1] /\ 1 \in 1..Len(conns[a])
  BY <1>1, <1>2
<1> QED BY <1>1, <1>3 DEF PairingInv, ConnectionsGenuine

\* What the proximity program does concerns the identity and the store only.
LEMMA OtherFrame ==
  ASSUME NEW d, OtherStep(d)
  PROVE  /\ UNCHANGED <<qr, launches, pc, mem, peer, conns, computed>>
         /\ UNCHANGED <<trust, store>> \/ OtherEmpties(d)
BY DEF OtherStep, OtherLoads, OtherCreates, OtherWrites, OtherEmpties, OtherEnds, files, stores

LEMMA BreakFrame ==
  ASSUME NEW a, NEW k, Break(a, k)
  PROVE  UNCHANGED <<identity, qr, trust, store, replaced, gens, launches, pc, mem, peer, computed,
                     other, otherMem>>
BY DEF Break, files, stores, others

\* A store that is replaced has its new records or none.
LEMMA StoreReplaced ==
  ASSUME PairingTypeOK, NEW d \in Devices,
         NEW records \in [Devices -> PeerRecord \cup {NoRecord}], Puts(d, records) \/ Tears(d)
  PROVE  /\ trust' \in [Devices -> [Devices -> PeerRecord \cup {NoRecord}]]
         /\ store' \in [Devices -> {Absent, Present, Torn}]
         /\ \A e, p \in Devices : trust'[e][p] # NoRecord =>
              trust'[e][p] = trust[e][p] \/ (e = d /\ trust'[e][p] = records[p])
<1>1. NoRecords \in [Devices -> PeerRecord \cup {NoRecord}]
  BY DEF NoRecords
<1>2. ASSUME Puts(d, records) PROVE trust' = [trust EXCEPT ![d] = records] /\ store' = [store EXCEPT ![d] = Present]
  BY <1>2 DEF Puts
<1>3. ASSUME Tears(d) PROVE trust' = [trust EXCEPT ![d] = NoRecords] /\ store' = [store EXCEPT ![d] = Torn]
  BY <1>3 DEF Tears
<1>4. \A p \in Devices : NoRecords[p] = NoRecord
  BY DEF NoRecords
<1> DEFINE Good(now) ==
             /\ trust' \in [Devices -> [Devices -> PeerRecord \cup {NoRecord}]]
             /\ store' \in [Devices -> {Absent, Present, Torn}]
             /\ \A e, p \in Devices : e # d => trust'[e][p] = trust[e][p]
             /\ \A p \in Devices : trust'[d][p] = now[p]
<1>5. Puts(d, records) => Good(records)
  BY <1>2 DEF PairingTypeOK
<1>6. Tears(d) => Good(NoRecords)
  BY <1>1, <1>3 DEF PairingTypeOK
<1> QED BY <1>4, <1>5, <1>6

\* Every record is an old one or the one its device was about to save.
RecordsFrom ==
  \A e, p \in Devices : trust'[e][p] # NoRecord =>
    \/ trust'[e][p] = trust[e][p]
    \/ peer[e] # NoRecord /\ peer[e].key[1] = p /\ trust'[e][p] = peer[e]

StoresTyped == /\ trust \in [Devices -> [Devices -> PeerRecord \cup {NoRecord}]]
               /\ store \in [Devices -> {Absent, Present, Torn}]

LEMMA SaveRecordSaves ==
  ASSUME PairingInv, NEW d \in Devices, SaveRecord(d)
  PROVE  RecordsFrom /\ StoresTyped'
<1> DEFINE records == [trust[d] EXCEPT ![peer[d].key[1]] = peer[d]]
<1>1. PairingTypeOK /\ peer[d] # NoRecord
  BY DEF PairingInv, PeersGenuine, SaveRecord
<1>2. peer[d] \in PeerRecord
  BY <1>1 DEF PairingTypeOK
<1>3. peer[d].key[1] \in Devices /\ trust[d] \in [Devices -> PeerRecord \cup {NoRecord}]
  BY <1>1, <1>2 DEF PeerRecord, KeyPair, PairingTypeOK
<1>4. /\ records \in [Devices -> PeerRecord \cup {NoRecord}]
      /\ \A p \in Devices : records[p] = IF p = peer[d].key[1] THEN peer[d] ELSE trust[d][p]
  BY <1>2, <1>3
<1>5. NoRecords \in [Devices -> PeerRecord \cup {NoRecord}] /\ \A p \in Devices : NoRecords[p] = NoRecord
  BY DEF NoRecords
<1>6. UNCHANGED stores \/ Puts(d, records) \/ Puts(d, NoRecords) \/ Tears(d)
  BY DEF SaveRecord
<1> HIDE DEF records
<1>7. CASE UNCHANGED stores
  BY <1>1, <1>7 DEF stores, RecordsFrom, StoresTyped, PairingTypeOK
<1>8. CASE Puts(d, records) \/ Tears(d)
  <2>1. /\ trust' \in [Devices -> [Devices -> PeerRecord \cup {NoRecord}]]
        /\ store' \in [Devices -> {Absent, Present, Torn}]
        /\ \A e, p \in Devices : trust'[e][p] # NoRecord =>
              trust'[e][p] = trust[e][p] \/ (e = d /\ trust'[e][p] = records[p])
    BY <1>1, <1>4, <1>8, StoreReplaced
  <2> QED BY <1>1, <1>4, <2>1 DEF RecordsFrom, StoresTyped
<1>9. CASE Puts(d, NoRecords)
  <2>1. /\ trust' \in [Devices -> [Devices -> PeerRecord \cup {NoRecord}]]
        /\ store' \in [Devices -> {Absent, Present, Torn}]
        /\ \A e, p \in Devices : trust'[e][p] # NoRecord =>
              trust'[e][p] = trust[e][p] \/ (e = d /\ trust'[e][p] = NoRecords[p])
    BY <1>1, <1>5, <1>9, StoreReplaced
  <2> QED BY <1>5, <2>1 DEF RecordsFrom, StoresTyped
<1> QED BY <1>6, <1>7, <1>8, <1>9

LEMMA OtherEmptiesSaves ==
  ASSUME PairingInv, NEW d \in Devices, OtherStep(d)
  PROVE  RecordsFrom /\ StoresTyped'
<1>1. PairingTypeOK
  BY DEF PairingInv
<1>2. CASE UNCHANGED <<trust, store>>
  BY <1>1, <1>2 DEF RecordsFrom, StoresTyped, PairingTypeOK
<1>3. CASE Puts(d, NoRecords) \/ Tears(d)
  <2>1. NoRecords \in [Devices -> PeerRecord \cup {NoRecord}] /\ \A p \in Devices : NoRecords[p] = NoRecord
    BY DEF NoRecords
  <2>2. /\ trust' \in [Devices -> [Devices -> PeerRecord \cup {NoRecord}]]
        /\ store' \in [Devices -> {Absent, Present, Torn}]
        /\ \A e, p \in Devices : trust'[e][p] # NoRecord =>
              trust'[e][p] = trust[e][p] \/ (e = d /\ trust'[e][p] = NoRecords[p])
    BY <1>1, <1>3, <2>1, StoreReplaced
  <2> QED BY <2>1, <2>2 DEF RecordsFrom, StoresTyped
<1> QED BY <1>2, <1>3, OtherFrame DEF OtherEmpties, stores

\* A step of d leaves what the processes of the others hold.
LEMMA OthersFrame ==
  ASSUME PairingTypeOK, NEW d \in Devices, Launch(d) \/ Kill(d) \/ Wipe(d) \/ Step(d)
  PROVE  \A e \in Devices \ {d} : pc'[e] = pc[e] /\ mem'[e] = mem[e] /\ peer'[e] = peer[e]
BY DEF Step, PairingTypeOK, Goto, End, Launch, Wipe, Kill, LoadIdentity, OpenQR, WriteQR,
     CreateIdentity, WriteIdentity, Listen, Accept, CompletePairing, Scan, scan_image_file,
     scan_webcam, respond_to_qr, SeesNothing, Connect, SendFramed, SaveRecord

LEMMA NextPairingType ==
  ASSUME PairingInv, [Next]_vars
  PROVE  PairingTypeOK'
<1> USE PairingBounds DEF PairingInv, PairingTypeOK, others, stores
<1>1. ASSUME NEW d \in Devices, Launch(d) PROVE PairingTypeOK'
  BY <1>1 DEF Launch, Goto, files, stores
<1>2. ASSUME NEW d \in Devices, Kill(d) PROVE PairingTypeOK'
  BY <1>2, HangUpKeeps DEF Kill, End, Goto, files, stores, Idle
<1>3. ASSUME NEW d \in Devices, Wipe(d) PROVE PairingTypeOK'
  BY <1>3 DEF Wipe, FileState, NoRecords
<1>4. ASSUME NEW d \in Devices, LoadIdentity(d) PROVE PairingTypeOK'
  <2>1. identity[d] \notin {Absent, Torn} => identity[d] \in 0..MaxIdentities
    BY DEF FileState
  <2> QED BY <1>4, <2>1 DEF LoadIdentity, Goto, files, stores, Idle
<1>5. ASSUME NEW d \in Devices, CreateIdentity(d) PROVE PairingTypeOK'
  BY <1>5 DEF CreateIdentity, Emptied, Goto, FileState
<1>6. ASSUME NEW d \in Devices, WriteIdentity(d) PROVE PairingTypeOK'
  <2>1. mem[d] # Absent
    BY <1>6 DEF WriteIdentity, WritingIsTorn
  <2>2. mem[d] \in FileState
    BY <2>1 DEF FileState, Absent
  <2>3. identity' \in [Devices -> FileState]
    BY <1>6, <2>2 DEF WriteIdentity
  <2> QED BY <1>6, <2>3 DEF WriteIdentity, Goto
<1>7. ASSUME NEW d \in Devices, OpenQR(d) \/ WriteQR(d) PROVE PairingTypeOK'
  <2>1. mem[d] \in FileState /\ Torn \in FileState
    BY <1>7, MeIsOnFile DEF OpenQR, WriteQR, FileState
  <2>2. qr' \in [Devices -> FileState]
    BY <1>7, <2>1 DEF OpenQR, WriteQR
  <2> QED BY <1>7, <2>2 DEF OpenQR, WriteQR, Goto
<1>8. ASSUME NEW d \in Devices, Listen(d) \/ Accept(d) PROVE PairingTypeOK'
  BY <1>8 DEF Listen, Accept, Goto, files, stores
<1>9. ASSUME NEW d \in Devices, CompletePairing(d) PROVE PairingTypeOK'
  <2>1. End(d, "save") \/ End(d, "failed")
    BY <1>9 DEF CompletePairing
  <2>2. conns' \in [Displayers -> Seq(Connection)]
    BY <2>1, HangUpKeeps DEF End
  <2>3. pc' \in [Devices -> Idle \cup {"load", "create", "write_identity", "loaded", "write_qr",
       "listen",
                                   "accept", "recv", "connect", "send", "save"}]
    BY <2>1 DEF End, Goto, Idle
  <2>4. peer' \in [Devices -> PeerRecord \cup {NoRecord}]
    <3> DEFINE first == Head(conns[d])
    <3>1. ASSUME first.state = "sent", Completes(Me(d), first.message),
                 peer' = [peer EXCEPT ![d] = Record(Me(d), first.message.ciphertext.plaintext)]
          PROVE  peer' \in [Devices -> PeerRecord \cup {NoRecord}]
      <4>3. PICK mine \in KeyPair, theirs \in KeyPair : first.message = Response(mine, theirs)
        BY <1>9, HeadGenuine DEF CompletePairing
      <4>4. theirs = Me(d) /\ first.message.ciphertext.plaintext = mine
        BY <3>1, <4>3, CompletesGenuine
      <4>5. Record(Me(d), mine) \in PeerRecord
        BY <4>4, RecordTyped
      <4> QED BY <3>1, <4>4, <4>5
    <3> QED BY <1>9, <3>1 DEF CompletePairing
  <2> QED BY <1>9, <2>2, <2>3, <2>4 DEF CompletePairing, files, stores
<1>10. ASSUME NEW d \in Devices, Scan(d) PROVE PairingTypeOK'
  <2>1. Me(d) \in KeyPair
    BY <1>10, MeIsOnFile DEF Scan
  <2>2. (\E a \in Displayers : respond_to_qr(d, a)) \/ SeesNothing(d)
    BY <1>10 DEF Scan, scan_image_file, scan_webcam
  <2>3. ASSUME NEW a \in Displayers, respond_to_qr(d, a) PROVE PairingTypeOK'
    <3> DEFINE record == Record(Me(d), <<a, qr[a]>>)
    <3>4. /\ qr[a] \notin {Absent, Torn}
          /\ peer' = [peer EXCEPT ![d] = record]
          /\ computed' = computed \cup {[by |-> Me(d), fingerprint |-> record.fingerprint]}
          /\ Goto(d, "connect")
      BY <2>3 DEF respond_to_qr
    <3>1. <<a, qr[a]>> \in KeyPair
      BY <3>4 DEF KeyPair, FileState, Devices
    <3>2. record \in PeerRecord
      BY <2>1, <3>1, RecordTyped
    <3> HIDE DEF record
    <3>3. record.fingerprint \in SUBSET KeyPair
      BY <3>2 DEF PeerRecord
    <3> QED BY <1>10, <2>1, <3>2, <3>3, <3>4 DEF Scan, Goto, files, stores
  <2>4. ASSUME SeesNothing(d) PROVE PairingTypeOK'
    BY <1>10, <2>4 DEF Scan, SeesNothing, Goto, files, stores, Idle
  <2> QED BY <2>2, <2>3, <2>4
<1>11. ASSUME NEW d \in Devices, Connect(d) PROVE PairingTypeOK'
  <2>1. ASSUME NEW a \in Displayers, Goto(d, "send"),
               conns' = [conns EXCEPT ![a] = Append(@, [from |-> d, state |-> "open",
                                                     message |-> Response(Me(d), peer[d].key)])]
        PROVE  PairingTypeOK'
    <3>1. d \in Scanners /\ Me(d) \in KeyPair /\ peer[d].key \in KeyPair
      <4>1. d \in Scanners /\ Me(d) \in KeyPair
        BY <1>11, MeIsOnFile DEF Connect, RoleOf
      <4>2. peer[d] \in PeerRecord
        BY <1>11 DEF Connect, PeersGenuine
      <4> QED BY <4>1, <4>2 DEF PeerRecord
    <3> DEFINE c == [from |-> d, state |-> "open", message |-> Response(Me(d), peer[d].key)]
    <3>2. c \in Connection
      BY <3>1, ResponseTyped DEF Connection
    <3> HIDE DEF c
    <3>3. conns' = [conns EXCEPT ![a] = Append(@, c)]
      BY <2>1 DEF c
    <3>4. Append(conns[a], c) \in Seq(Connection)
      BY <3>2
    <3> QED BY <1>11, <2>1, <3>3, <3>4 DEF Connect, Goto, files, stores
  <2>2. ASSUME Goto(d, "failed"), UNCHANGED conns PROVE PairingTypeOK'
    BY <1>11, <2>2 DEF Connect, Goto, files, stores, Idle
  <2> QED BY <1>11, <2>1, <2>2 DEF Connect
<1>12. ASSUME NEW d \in Devices, SendFramed(d) PROVE PairingTypeOK'
  <2>1. conns' \in [Displayers -> Seq(Connection)]
    BY <1>12, SendKeeps, HangUpKeeps DEF SendFramed, End
  <2>2. Goto(d, "save") \/ Goto(d, "failed")
    BY <1>12 DEF SendFramed, End
  <2> QED BY <1>12, <2>1, <2>2 DEF SendFramed, Goto, files, stores, Idle
<1>13. ASSUME NEW d \in Devices, SaveRecord(d) PROVE PairingTypeOK'
  <2>1. StoresTyped' /\ (Goto(d, "paired") \/ Goto(d, "failed"))
    BY <1>13, SaveRecordSaves DEF SaveRecord
  <2> QED BY <1>13, <2>1 DEF SaveRecord, StoresTyped, Goto, Idle
<1>14. ASSUME NEW d \in Devices, OtherStep(d) PROVE PairingTypeOK'
  <2>0. ASSUME LooksForStore(d)
        PROVE  /\ other' \in [Devices -> {"idle", "create", "write", "empty"}]
               /\ otherMem' \in [Devices -> 0..MaxIdentities]
    <3>1. /\ \E l \in {"idle", "empty"} : other' = [other EXCEPT ![d] = l]
          /\ otherMem' = [otherMem EXCEPT ![d] = Absent]
      BY <2>0 DEF LooksForStore, OtherGone
    <3>2. Absent \in 0..MaxIdentities
      BY DEF Absent
    <3> QED BY <3>1, <3>2
  <2>1. ASSUME OtherCreates(d) PROVE PairingTypeOK'
    <3>1. gens[d] + 1 \in 0..MaxIdentities
      BY <2>1 DEF OtherCreates
    <3> QED BY <2>1, <3>1 DEF OtherCreates, Emptied, FileState
  <2>2. ASSUME OtherWrites(d) PROVE PairingTypeOK'
    <3>1. otherMem[d] # Absent
      BY <2>2 DEF OtherWrites, WritingIsTorn
    <3>2. otherMem[d] \in FileState
      BY <3>1 DEF FileState, Absent
    <3> QED BY <2>0, <2>2, <3>2 DEF OtherWrites
  <2>3. ASSUME OtherLoads(d) PROVE PairingTypeOK'
    <3>1. CASE LooksForStore(d)
      BY <2>0, <2>3, <3>1 DEF OtherLoads, files
    <3>2. CASE other' = [other EXCEPT ![d] = "create"] /\ UNCHANGED otherMem
      BY <2>3, <3>2 DEF OtherLoads, files
    <3> QED BY <2>3, <3>1, <3>2 DEF OtherLoads
  <2>4. ASSUME OtherEnds(d) PROVE PairingTypeOK'
    <3>1. Absent \in 0..MaxIdentities
      BY DEF Absent
    <3> QED BY <2>4, <3>1 DEF OtherEnds, OtherGone, files, stores
  <2>5. ASSUME OtherEmpties(d) PROVE PairingTypeOK'
    <3>1. StoresTyped'
      BY <1>14, OtherEmptiesSaves
    <3>2. Absent \in 0..MaxIdentities
      BY DEF Absent
    <3>3. /\ other' = [other EXCEPT ![d] = "idle"] /\ otherMem' = [otherMem EXCEPT ![d] = Absent]
          /\ UNCHANGED <<identity, qr, replaced, gens, launches, pc, mem, peer, conns, computed>>
      BY <2>5 DEF OtherEmpties, OtherGone
    <3> QED BY <3>1, <3>2, <3>3 DEF StoresTyped
  <2> QED BY <1>14, <2>1, <2>2, <2>3, <2>4, <2>5 DEF OtherStep
<1>15. CASE UNCHANGED vars
  BY <1>15 DEF vars
<1>16. ASSUME NEW a \in Displayers, NEW k \in 1..Backlog, Break(a, k) PROVE PairingTypeOK'
  BY <1>16, BreakFrame, BreakKeeps
<1> QED BY <1>1, <1>2, <1>3, <1>4, <1>5, <1>6, <1>7, <1>8, <1>9, <1>10, <1>11, <1>12, <1>13,
           <1>14, <1>15, <1>16 DEF Next, Step

\* What is on record after a step.
LEMMA NextRecords ==
  ASSUME PairingInv, [Next]_vars
  PROVE  RecordsFrom
<1>1. ASSUME UNCHANGED trust PROVE RecordsFrom
  BY <1>1 DEF RecordsFrom
<1>2. ASSUME NEW d \in Devices, Wipe(d) PROVE RecordsFrom
  BY <1>2 DEF Wipe, RecordsFrom, NoRecords, PairingInv, PairingTypeOK
<1> QED BY <1>1, <1>2, SaveRecordSaves, OtherEmptiesSaves, BreakFrame DEF Next, Step, vars, files,
     stores, Launch, Kill, LoadIdentity, OpenQR, WriteQR, CreateIdentity, WriteIdentity, Listen,
     Accept, CompletePairing, Scan, scan_image_file, scan_webcam, respond_to_qr, SeesNothing,
     Connect, SendFramed

(***************************************************************************)
(* The key pairs on file and in messages                                   *)
(***************************************************************************)
\* Known, after this step.
KnownNext(k) == k \in KeyPair /\ (k[1] \notin replaced' => k[2] = identity'[k[1]])

\* Of a device whose file is emptied no key was known, or it is replaced.
LEMMA EmptiedForgets ==
  ASSUME PairingInv, NEW d \in Devices, Emptied(d), NEW k, Known(k)
  PROVE  KnownNext(k)
<1>1. k \in KeyPair /\ k[1] \in Devices /\ k[2] \notin {Absent, Torn}
  BY PairingBounds DEF Known, KeyPair, Absent, Torn
<1> QED BY <1>1 DEF Emptied, Known, KnownNext, PairingInv, PairingTypeOK

\* A key pair that was shown to somebody stays its device's.
LEMMA KnownStays ==
  ASSUME PairingInv, [Next]_vars, NEW k, Known(k)
  PROVE  KnownNext(k)
<1>1. k \in KeyPair /\ k[1] \in Devices /\ k[2] \notin {Absent, Torn}
  BY PairingBounds DEF Known, KeyPair, Absent, Torn
<1>2. ASSUME NEW d \in Devices, Wipe(d) PROVE KnownNext(k)
  BY <1>1, <1>2 DEF Wipe, Known, KnownNext, PairingInv, PairingTypeOK
<1>3. ASSUME NEW d \in Devices, CreateIdentity(d) PROVE KnownNext(k)
  BY <1>1, <1>3, EmptiedForgets DEF CreateIdentity
<1>4. ASSUME NEW d \in Devices, WriteIdentity(d) PROVE KnownNext(k)
  BY <1>1, <1>4 DEF WriteIdentity, Known, KnownNext, PairingInv, PairingTypeOK, WritingIsTorn
<1>5. CASE UNCHANGED <<identity, replaced>>
  BY <1>5 DEF Known, KnownNext
<1>6. ASSUME NEW d \in Devices, OtherCreates(d) PROVE KnownNext(k)
  BY <1>6, EmptiedForgets DEF OtherCreates
<1>7. ASSUME NEW d \in Devices, OtherWrites(d) PROVE KnownNext(k)
  BY <1>1, <1>7 DEF OtherWrites, Known, KnownNext, PairingInv, PairingTypeOK, WritingIsTorn
<1>8. ASSUME NEW d \in Devices, OtherLoads(d) \/ OtherEmpties(d) \/ OtherEnds(d) PROVE KnownNext(k)
  BY <1>5, <1>8 DEF OtherLoads, OtherEmpties, OtherEnds, files
<1>9. ASSUME NEW d \in Devices, OtherStep(d) PROVE KnownNext(k)
  BY <1>6, <1>7, <1>8, <1>9 DEF OtherStep
<1> QED BY <1>2, <1>3, <1>4, <1>5, <1>9, BreakFrame DEF Next, Step, vars, files, Launch, Kill, LoadIdentity,
     OpenQR, WriteQR, Listen, Accept, CompletePairing, Scan, scan_image_file, scan_webcam,
     respond_to_qr, SeesNothing, Connect, SendFramed, SaveRecord

LEMMA NextMemory ==
  ASSUME PairingInv, [Next]_vars
  PROVE  MemoryIsFile' /\ WritingIsTorn' /\ (\A d \in Devices : RoleOf(d))'
<1> DEFINE Good == MemoryIsFile' /\ WritingIsTorn' /\ (\A d \in Devices : RoleOf(d))'
<1> USE PairingBounds DEF PairingInv, PairingTypeOK, MemoryIsFile, WritingIsTorn, RoleOf,
       Running, Idle, others, stores
<1>1. ASSUME NEW d \in Devices, Launch(d) PROVE Good
  BY <1>1 DEF Launch, Goto, files, stores
<1>2. ASSUME NEW d \in Devices, Kill(d) PROVE Good
  BY <1>2 DEF Kill, End, Goto, files, stores
<1>3. ASSUME NEW d \in Devices, Wipe(d) PROVE Good
  BY <1>3 DEF Wipe
<1>4. ASSUME NEW d \in Devices, LoadIdentity(d) PROVE Good
  <2>1. UNCHANGED identity
    BY <1>4 DEF LoadIdentity, files, stores
  <2>2. ASSUME mem' = [mem EXCEPT ![d] = identity[d]], Goto(d, "loaded") PROVE Good
    BY <1>4, <2>1, <2>2 DEF LoadIdentity, Goto, files, stores
  <2>3. ASSUME Goto(d, "failed") \/ Goto(d, "create"), UNCHANGED mem PROVE Good
    BY <1>4, <2>1, <2>3 DEF LoadIdentity, Goto, files, stores
  <2> QED BY <1>4, <2>2, <2>3 DEF LoadIdentity
<1>5. ASSUME NEW d \in Devices, CreateIdentity(d) PROVE Good
  BY <1>5 DEF CreateIdentity, Emptied, Goto, Absent, Torn
<1>6. ASSUME NEW d \in Devices, WriteIdentity(d) PROVE Good
  BY <1>6 DEF WriteIdentity, Goto
<1>7. ASSUME NEW d \in Devices, OpenQR(d) \/ WriteQR(d) PROVE Good
  BY <1>7 DEF OpenQR, WriteQR, Goto
<1>8. ASSUME NEW d \in Devices, Listen(d) \/ Accept(d) PROVE Good
  BY <1>8 DEF Listen, Accept, Goto, files, stores
<1>9. ASSUME NEW d \in Devices, CompletePairing(d) PROVE Good
  BY <1>9 DEF CompletePairing, End, Goto, files, stores
<1>10. ASSUME NEW d \in Devices, Scan(d) PROVE Good
  BY <1>10 DEF Scan, scan_image_file, scan_webcam, respond_to_qr, SeesNothing, Goto, files, stores
<1>11. ASSUME NEW d \in Devices, Connect(d) PROVE Good
  BY <1>11 DEF Connect, Goto, files, stores
<1>12. ASSUME NEW d \in Devices, SendFramed(d) PROVE Good
  <2>1. Goto(d, "save") \/ Goto(d, "failed")
    BY <1>12 DEF SendFramed, End
  <2> QED BY <1>12, <2>1 DEF SendFramed, Goto, files
<1>13. ASSUME NEW d \in Devices, SaveRecord(d) PROVE Good
  <2>1. Goto(d, "paired") \/ Goto(d, "failed")
    BY <1>13 DEF SaveRecord
  <2> QED BY <1>13, <2>1 DEF SaveRecord, Goto
<1>14. ASSUME NEW d \in Devices, OtherCreates(d) PROVE Good
  BY <1>14 DEF OtherCreates, Emptied, Absent, Torn
<1>15. ASSUME NEW d \in Devices, OtherWrites(d) PROVE Good
  BY <1>15 DEF OtherWrites, LooksForStore, OtherGone, Absent, Torn
<1>16. ASSUME NEW d \in Devices, OtherLoads(d) \/ OtherEmpties(d) \/ OtherEnds(d) PROVE Good
  BY <1>16 DEF OtherLoads, LooksForStore, OtherEmpties, OtherEnds, OtherGone, files
<1>17. CASE UNCHANGED vars
  BY <1>17 DEF vars
<1>18. ASSUME NEW a, NEW k, Break(a, k) PROVE Good
  BY <1>18, BreakFrame
<1> QED BY <1>1, <1>2, <1>3, <1>4, <1>5, <1>6, <1>7, <1>8, <1>9, <1>10, <1>11, <1>12, <1>13,
           <1>14, <1>15, <1>16, <1>17, <1>18 DEF Next, Step, OtherStep

\* The present identity of a device whose state was never replaced is its first.
LEMMA NextFirst ==
  ASSUME PairingInv, [Next]_vars
  PROVE  FirstIdentity'
<1>0. /\ FirstIdentity /\ WritingIsTorn
      /\ identity \in [Devices -> Int] /\ gens \in [Devices -> Nat]
      /\ mem \in [Devices -> Nat] /\ otherMem \in [Devices -> Nat]
  BY PairingBounds DEF PairingInv, PairingTypeOK, FileState, Absent, Torn
<1> USE <1>0 DEF FirstIdentity, Absent, Torn
<1>1. ASSUME NEW d \in Devices, UNCHANGED <<identity, replaced, otherMem, gens>>,
             mem' = mem \/ mem' = [mem EXCEPT ![d] = identity[d]]
      PROVE  FirstIdentity'
  BY <1>1
<1>2. ASSUME NEW d \in Devices, LoadIdentity(d) PROVE FirstIdentity'
  BY <1>1, <1>2 DEF LoadIdentity, files, stores, others
<1>3. ASSUME NEW d \in Devices, CreateIdentity(d) PROVE FirstIdentity'
  BY <1>3 DEF CreateIdentity, Emptied, others
<1>4. ASSUME NEW d \in Devices, WriteIdentity(d) PROVE FirstIdentity'
  <2>1. mem[d] # Absent /\ (d \notin replaced => identity[d] = Torn) /\ mem[d] \in Nat
    BY <1>4 DEF WriteIdentity, WritingIsTorn
  <2> QED BY <1>4, <2>1 DEF WriteIdentity, others
<1>5. ASSUME NEW d \in Devices, Wipe(d) PROVE FirstIdentity'
  BY <1>5 DEF Wipe, others
<1>6. ASSUME NEW d \in Devices, OtherCreates(d) PROVE FirstIdentity'
  BY <1>6 DEF OtherCreates, Emptied
<1>7. ASSUME NEW d \in Devices, OtherWrites(d) PROVE FirstIdentity'
  <2>1. otherMem[d] # Absent /\ (d \notin replaced => identity[d] = Torn) /\ otherMem[d] \in Nat
    BY <1>7 DEF OtherWrites, WritingIsTorn
  <2> QED BY <1>7, <2>1 DEF OtherWrites, LooksForStore, OtherGone
<1>8. ASSUME NEW d \in Devices, OtherLoads(d) \/ OtherEmpties(d) \/ OtherEnds(d) PROVE FirstIdentity'
  BY <1>8 DEF OtherLoads, LooksForStore, OtherEmpties, OtherEnds, OtherGone, files
<1>9. ASSUME NEW d \in Devices, Launch(d) \/ Kill(d) \/ OpenQR(d) \/ WriteQR(d) \/ Listen(d)
               \/ Accept(d) \/ CompletePairing(d) \/ Scan(d) \/ Connect(d) \/ SendFramed(d)
               \/ SaveRecord(d)
      PROVE  FirstIdentity'
  <2>1. UNCHANGED <<identity, replaced, otherMem, gens, mem>>
    BY <1>9 DEF Launch, Kill, OpenQR, WriteQR, Listen, Accept, CompletePairing, Scan, Connect,
                SendFramed, SaveRecord, files, stores, others
  <2> QED BY <1>1, <2>1
<1>10. CASE UNCHANGED vars
  BY <1>10 DEF vars
<1>11. ASSUME NEW a, NEW k, Break(a, k) PROVE FirstIdentity'
  BY <1>11, BreakFrame
<1> QED BY <1>2, <1>3, <1>4, <1>5, <1>6, <1>7, <1>8, <1>9, <1>10, <1>11 DEF Next, Step, OtherStep

LEMMA NextKeys ==
  ASSUME PairingInv, PairingTypeOK', [Next]_vars
  PROVE  KeysKnown'
<1>1. \A k : Known(k) => KnownNext(k)
  BY KnownStays
<1> DEFINE QRKnown == \A d \in Devices : qr[d] \notin {Absent, Torn} => Known(<<d, qr[d]>>)
           PeerKnown == \A d \in Devices : peer[d] # NoRecord => Known(peer[d].key)
           TrustKnown == \A d, p \in Devices : trust[d][p] # NoRecord =>
                           trust[d][p].key[1] = p /\ Known(trust[d][p].key)
           SentKnown == \A a \in Displayers : \A k \in 1..Len(conns[a]) :
                          Known(conns[a][k].message.x25519_pub)
           Typed == PairingTypeOK
<1>2. QRKnown /\ PeerKnown /\ TrustKnown /\ SentKnown /\ Typed
  BY DEF PairingInv, KeysKnown
<1> USE DEF PairingTypeOK
<1>3. QRKnown'
  <2>1. CASE UNCHANGED qr
    BY <1>1, <1>2, <2>1 DEF Known, KnownNext
  <2>2. ASSUME NEW d \in Devices, Wipe(d) PROVE QRKnown'
    BY <1>1, <1>2, <2>2 DEF Wipe, Known, KnownNext
  <2>3. ASSUME NEW d \in Devices, OpenQR(d) PROVE QRKnown'
    BY <1>1, <1>2, <2>3 DEF OpenQR, Known, KnownNext
  <2>4. ASSUME NEW d \in Devices, WriteQR(d) PROVE QRKnown'
    <3>1. (d \notin replaced => mem[d] = identity[d]) /\ <<d, mem[d]>> \in KeyPair
      BY <2>4, MeIsOnFile DEF WriteQR, Me
    <3>2. KnownNext(<<d, mem[d]>>)
      BY <2>4, <3>1 DEF WriteQR, KnownNext
    <3> QED BY <1>1, <1>2, <2>4, <3>2 DEF WriteQR, Known, KnownNext
  <2> QED BY <2>1, <2>2, <2>3, <2>4, OtherFrame, BreakFrame DEF Next, Step, vars, files, Launch,
       Kill, LoadIdentity, CreateIdentity, WriteIdentity, Listen, Accept, CompletePairing, Scan,
       scan_image_file, scan_webcam, respond_to_qr, SeesNothing, Connect, SendFramed,
       SaveRecord
<1>4. PeerKnown'
  <2>1. CASE UNCHANGED peer
    BY <1>1, <1>2, <2>1 DEF Known, KnownNext
  <2>2. ASSUME NEW d \in Devices, Launch(d) PROVE PeerKnown'
    BY <1>1, <1>2, <2>2 DEF Launch, Known, KnownNext
  <2>3. ASSUME NEW d \in Devices, NEW k, Known(k), peer' = [peer EXCEPT ![d] = Record(Me(d), k)]
        PROVE  PeerKnown'
    BY <1>1, <1>2, <2>3 DEF Record, Known, KnownNext
  <2>4. ASSUME NEW d \in Devices, CompletePairing(d) PROVE PeerKnown'
    <3> DEFINE first == Head(conns[d])
    <3>1. ASSUME Completes(Me(d), first.message),
                 peer' = [peer EXCEPT ![d] = Record(Me(d), first.message.ciphertext.plaintext)]
          PROVE  PeerKnown'
      <4>1. first.message.ciphertext.plaintext = first.message.x25519_pub
        BY <3>1 DEF Completes
      <4>2. Known(first.message.x25519_pub)
        BY <1>2, <2>4, HeadGenuine DEF CompletePairing
      <4> QED BY <2>3, <3>1, <4>1, <4>2
    <3> QED BY <2>1, <2>4, <3>1 DEF CompletePairing
  <2>5. ASSUME NEW d \in Devices, Scan(d) PROVE PeerKnown'
    <3>1. ASSUME NEW a \in Displayers, qr[a] \notin {Absent, Torn},
                 peer' = [peer EXCEPT ![d] = Record(Me(d), <<a, qr[a]>>)]
          PROVE  PeerKnown'
      BY <1>2, <2>3, <3>1 DEF Devices
    <3> QED BY <2>1, <2>5, <3>1 DEF Scan, scan_image_file, scan_webcam, respond_to_qr, SeesNothing
  <2> QED BY <2>1, <2>2, <2>4, <2>5, OtherFrame, BreakFrame DEF Next, Step, vars, Wipe, Kill, LoadIdentity,
       OpenQR, WriteQR, CreateIdentity, WriteIdentity, Listen, Accept, Connect, SendFramed,
       SaveRecord
<1>5. TrustKnown'
  <2> SUFFICES ASSUME NEW e \in Devices, NEW p \in Devices, trust'[e][p] # NoRecord
               PROVE  trust'[e][p].key[1] = p /\ KnownNext(trust'[e][p].key)
    BY DEF Known, KnownNext
  <2>1. CASE trust'[e][p] = trust[e][p]
    BY <1>1, <1>2, <2>1
  <2>2. CASE peer[e] # NoRecord /\ peer[e].key[1] = p /\ trust'[e][p] = peer[e]
    BY <1>1, <1>2, <2>2
  <2> QED BY <2>1, <2>2, NextRecords DEF RecordsFrom
<1>6. SentKnown'
  <2>1. ASSUME \A a \in Displayers : Kept(a, conns'[a]) PROVE SentKnown'
    <3> SUFFICES ASSUME NEW a \in Displayers, NEW k \in 1..Len(conns'[a])
                 PROVE  KnownNext(conns'[a][k].message.x25519_pub)
      BY DEF Known, KnownNext
    <3>1. k \in 1..Len(conns[a]) /\ conns'[a][k].message = conns[a][k].message
      BY <2>1 DEF Kept
    <3> QED BY <1>1, <1>2, <3>1
  <2>2. CASE UNCHANGED conns
    <3> SUFFICES ASSUME NEW a \in Displayers, NEW k \in 1..Len(conns'[a])
                 PROVE  KnownNext(conns'[a][k].message.x25519_pub)
      BY DEF Known, KnownNext
    <3> QED BY <1>1, <1>2, <2>2
  <2>3. ASSUME NEW d \in Devices, Kill(d) \/ CompletePairing(d) PROVE SentKnown'
    BY <2>1, <2>3, HangUpKeeps, <1>2 DEF Kill, CompletePairing, End
  <2>4. ASSUME NEW d \in Devices, SendFramed(d) PROVE SentKnown'
    BY <2>1, <2>4, SendKeeps, HangUpKeeps, <1>2 DEF SendFramed, End
  <2>5. ASSUME NEW d \in Devices, Connect(d) PROVE SentKnown'
    <3>1. ASSUME NEW a \in Displayers,
                 conns' = [conns EXCEPT ![a] = Append(@, [from |-> d, state |-> "open",
                                                     message |-> Response(Me(d), peer[d].key)])]
          PROVE  SentKnown'
      <4>1. (d \notin replaced => mem[d] = identity[d]) /\ Me(d) \in KeyPair /\ peer[d].key \in KeyPair
        <5>1. peer[d] \in PeerRecord
          BY <2>5 DEF Connect, PairingInv, PeersGenuine
        <5> QED BY <2>5, <5>1, MeIsOnFile DEF Connect, PeerRecord
      <4>2. KnownNext(Me(d))
        BY <2>5, <4>1 DEF KnownNext, Me, Connect, files, stores
      <4> DEFINE c == [from |-> d, state |-> "open", message |-> Response(Me(d), peer[d].key)]
      <4>3. KnownNext(c.message.x25519_pub)
        BY <4>1, <4>2, ResponseTyped
      <4> HIDE DEF c
      <4>4. conns' = [conns EXCEPT ![a] = Append(@, c)]
        BY <3>1 DEF c
      <4> SUFFICES ASSUME NEW e \in Displayers, NEW k \in 1..Len(conns'[e])
                   PROVE  KnownNext(conns'[e][k].message.x25519_pub)
        BY DEF Known, KnownNext
      <4>5. CASE e # a
        BY <1>1, <1>2, <4>4, <4>5
      <4>6. CASE e = a
        <5>1. conns'[a] = Append(conns[a], c) /\ conns[a] \in Seq(Connection)
          BY <1>2, <4>4
        <5>2. \/ k \in 1..Len(conns[a]) /\ conns'[a][k] = conns[a][k]
              \/ conns'[a][k] = c
          BY <4>6, <5>1
        <5> QED BY <1>1, <1>2, <4>3, <4>6, <5>2
      <4> QED BY <4>5, <4>6
    <3> QED BY <2>2, <2>5, <3>1 DEF Connect
  <2>6. ASSUME NEW d \in Devices, OtherStep(d) PROVE SentKnown'
    BY <2>2, <2>6, OtherFrame
  <2>7. ASSUME NEW a \in Displayers, NEW k \in 1..Backlog, Break(a, k) PROVE SentKnown'
    BY <2>1, <2>7, BreakKeeps, <1>2
  <2> QED BY <2>2, <2>3, <2>4, <2>5, <2>6, <2>7 DEF Next, Step, vars, Launch, Wipe, LoadIdentity,
       OpenQR, WriteQR, CreateIdentity, WriteIdentity, Listen, Accept, Scan, scan_image_file,
       scan_webcam, respond_to_qr, SeesNothing, SaveRecord
<1> QED BY <1>3, <1>4, <1>5, <1>6 DEF KeysKnown

(***************************************************************************)
(* Safety numbers                                                          *)
(***************************************************************************)
\* Nothing that was computed is taken back.
LEMMA ComputedGrows ==
  ASSUME [Next]_vars
  PROVE  computed \subseteq computed'
BY OtherFrame, BreakFrame DEF Next, Step, vars, Launch, Wipe, Kill, LoadIdentity, OpenQR, WriteQR,
     CreateIdentity, WriteIdentity, Listen, Accept, CompletePairing, Scan, scan_image_file,
     scan_webcam, respond_to_qr, SeesNothing, Connect, SendFramed, SaveRecord

LEMMA NextPeers ==
  ASSUME PairingInv, [Next]_vars
  PROVE  PeersGenuine'
<1> DEFINE Saves(d) == pc[d] \in {"connect", "send", "save"} => peer[d] # NoRecord
           Matched(d) == peer[d] # NoRecord /\ d \in Displayers =>
             [by |-> peer[d].key, fingerprint |-> peer[d].fingerprint] \in computed
           Sends(d) == pc[d] \in {"connect", "send"} =>
             [by |-> Me(d), fingerprint |-> compute_fingerprint(Me(d), peer[d].key)] \in computed
           Good(d) == Saves(d) /\ Matched(d) /\ Sends(d)
<1>1. \A d \in Devices : Good(d)
  BY DEF PairingInv, PeersGenuine
<1>2. PairingTypeOK /\ computed \subseteq computed'
  BY ComputedGrows DEF PairingInv
<1>3. ASSUME NEW d \in Devices, pc'[d] = pc[d], mem'[d] = mem[d], peer'[d] = peer[d] PROVE Good(d)'
  BY <1>1, <1>2, <1>3 DEF Me, compute_fingerprint
<1>4. ASSUME NEW d \in Devices, pc'[d] \notin {"connect", "send", "save"}, peer'[d] = peer[d]
      PROVE  Good(d)'
  BY <1>1, <1>2, <1>4
<1>5. ASSUME NEW d \in Devices, Launch(d) PROVE Good(d)'
  BY <1>2, <1>5 DEF Launch, Goto, PairingTypeOK
<1>6. ASSUME NEW d \in Devices, CompletePairing(d) PROVE Good(d)'
  <2> DEFINE first == Head(conns[d])
  <2>1. ASSUME Completes(Me(d), first.message), End(d, "save"),
               peer' = [peer EXCEPT ![d] = Record(Me(d), first.message.ciphertext.plaintext)]
        PROVE  Good(d)'
    <3>1. PICK mine \in KeyPair, theirs \in KeyPair :
            /\ first.message = Response(mine, theirs)
            /\ [by |-> mine, fingerprint |-> compute_fingerprint(mine, theirs)] \in computed
      BY <1>6, HeadGenuine DEF CompletePairing
    <3>2. theirs = Me(d) /\ first.message.ciphertext.plaintext = mine
      BY <2>1, <3>1, CompletesGenuine
    <3>3. peer'[d] = Record(Me(d), mine) /\ pc'[d] = "save"
      BY <1>2, <2>1, <3>2 DEF PairingTypeOK, End, Goto
    <3>4. Record(Me(d), mine).key = mine /\ Record(Me(d), mine) # NoRecord
          /\ Record(Me(d), mine).fingerprint = compute_fingerprint(mine, theirs)
      BY <3>2 DEF Record, NoRecord, compute_fingerprint
    <3>5. [by |-> peer'[d].key, fingerprint |-> peer'[d].fingerprint] \in computed'
      BY <1>2, <3>1, <3>3, <3>4
    <3> QED BY <3>3, <3>4, <3>5
  <2>2. ASSUME End(d, "failed"), UNCHANGED peer PROVE Good(d)'
    BY <1>2, <1>4, <2>2 DEF End, Goto, PairingTypeOK
  <2> QED BY <1>6, <2>1, <2>2 DEF CompletePairing
<1>7. ASSUME NEW d \in Devices, Scan(d) PROVE Good(d)'
  <2>1. ASSUME NEW a \in Displayers, Goto(d, "connect"),
               peer' = [peer EXCEPT ![d] = Record(Me(d), <<a, qr[a]>>)],
               computed' = computed \cup {[by |-> Me(d), fingerprint |-> Record(Me(d), <<a, qr[a]>>).fingerprint]}
        PROVE  Good(d)'
    <3>1. d \notin Displayers /\ mem' = mem
      BY <1>7, PairingRoles DEF Scan
    <3> DEFINE k == <<a, qr[a]>>
    <3>2. peer'[d] = Record(Me(d), k) /\ [by |-> Me(d), fingerprint |-> Record(Me(d), k).fingerprint] \in computed'
      BY <1>2, <2>1 DEF PairingTypeOK
    <3> HIDE DEF k
    <3>3. Record(Me(d), k).fingerprint = compute_fingerprint(Me(d), k) /\ Record(Me(d), k).key = k
          /\ Record(Me(d), k) # NoRecord
      BY DEF Record, NoRecord, compute_fingerprint
    <3>4. Me(d)' = Me(d)
      BY <3>1 DEF Me
    <3>5. Sends(d)'
      BY <3>2, <3>3, <3>4 DEF compute_fingerprint
    <3> QED BY <3>1, <3>2, <3>3, <3>5
  <2>2. ASSUME Goto(d, "failed"), UNCHANGED peer PROVE Good(d)'
    BY <1>2, <1>4, <2>2 DEF Goto, PairingTypeOK
  <2> QED BY <1>7, <2>1, <2>2 DEF Scan, scan_image_file, scan_webcam, respond_to_qr, SeesNothing
<1>8. ASSUME NEW d \in Devices, Connect(d) PROVE Good(d)'
  <2>1. UNCHANGED <<mem, peer>> /\ pc[d] = "connect" /\ pc'[d] \in {"send", "failed"}
    BY <1>2, <1>8 DEF Connect, Goto, PairingTypeOK
  <2> QED BY <1>1, <1>2, <2>1 DEF Me, compute_fingerprint
<1>9. ASSUME NEW d \in Devices, SendFramed(d) PROVE Good(d)'
  <2>1. UNCHANGED <<mem, peer>> /\ pc[d] = "send" /\ pc'[d] \in {"save", "failed"}
    BY <1>2, <1>9 DEF SendFramed, End, Goto, PairingTypeOK
  <2> QED BY <1>1, <1>2, <2>1 DEF Me, compute_fingerprint
<1>10. ASSUME NEW d \in Devices, UNCHANGED peer,
              \E l : l \notin {"connect", "send", "save"} /\ Goto(d, l)
       PROVE  Good(d)'
  BY <1>2, <1>4, <1>10 DEF Goto, PairingTypeOK
<1>11. ASSUME NEW d \in Devices,
              \/ Kill(d) \/ LoadIdentity(d) \/ CreateIdentity(d) \/ WriteIdentity(d) \/ OpenQR(d)
              \/ WriteQR(d) \/ Listen(d) \/ Accept(d) \/ SaveRecord(d)
       PROVE  Good(d)'
  BY <1>10, <1>11 DEF Kill, End, LoadIdentity, CreateIdentity, WriteIdentity, OpenQR, WriteQR,
       Listen, Accept, SaveRecord
<1>12. ASSUME NEW d \in Devices, Launch(d) \/ Kill(d) \/ Wipe(d) \/ Step(d)
       PROVE  /\ Good(d)'
              /\ \A e \in Devices \ {d} : pc'[e] = pc[e] /\ mem'[e] = mem[e] /\ peer'[e] = peer[e]
  <2>1. \A e \in Devices \ {d} : pc'[e] = pc[e] /\ mem'[e] = mem[e] /\ peer'[e] = peer[e]
    BY <1>2, <1>12, OthersFrame
  <2>2. Wipe(d) => Good(d)'
    BY <1>3 DEF Wipe
  <2> QED BY <1>5, <1>6, <1>7, <1>8, <1>9, <1>11, <1>12, <2>1, <2>2 DEF Step
<1>13. \A d \in Devices : Good(d)'
  <2>1. CASE UNCHANGED vars
    BY <1>3, <2>1 DEF vars
  <2>2. CASE Next
    <3>1. ASSUME NEW d \in Devices, OtherStep(d) PROVE \A e \in Devices : Good(e)'
      BY <1>3, <3>1, OtherFrame
    <3>2. ASSUME NEW d \in Devices, Launch(d) \/ Kill(d) \/ Wipe(d) \/ Step(d)
          PROVE  \A e \in Devices : Good(e)'
      BY <1>3, <1>12, <3>2
    <3>3. ASSUME NEW a, NEW k, Break(a, k) PROVE \A e \in Devices : Good(e)'
      BY <1>3, <3>3, BreakFrame
    <3> QED BY <2>2, <3>1, <3>2, <3>3 DEF Next
  <2> QED BY <2>1, <2>2
<1> QED BY <1>13 DEF PeersGenuine

LEMMA NextConnections ==
  ASSUME PairingInv, [Next]_vars
  PROVE  ConnectionsGenuine'
<1> DEFINE Genuine(message) == \E mine, theirs \in KeyPair :
             /\ message = Response(mine, theirs)
             /\ [by |-> mine, fingerprint |-> compute_fingerprint(mine, theirs)] \in computed
           GenuineNext(message) == \E mine, theirs \in KeyPair :
             /\ message = Response(mine, theirs)
             /\ [by |-> mine, fingerprint |-> compute_fingerprint(mine, theirs)] \in computed'
           AllGenuine == \A a \in Displayers : \A k \in 1..Len(conns[a]) : Genuine(conns[a][k].message)
           Good == \A a \in Displayers : \A k \in 1..Len(conns'[a]) : GenuineNext(conns'[a][k].message)
           Queued == \A a \in Displayers : pc'[a] = "recv" => conns'[a] # <<>>
<1>1. PairingTypeOK /\ AllGenuine /\ \A a \in Displayers : pc[a] = "recv" => conns[a] # <<>>
  BY DEF PairingInv, ConnectionsGenuine
<1>2. \A message : Genuine(message) => GenuineNext(message)
  BY ComputedGrows
<1> HIDE DEF Genuine, GenuineNext
<1>3. ASSUME \A a \in Displayers : Kept(a, conns'[a]) PROVE Good
  <2> SUFFICES ASSUME NEW a \in Displayers, NEW k \in 1..Len(conns'[a])
               PROVE  GenuineNext(conns'[a][k].message)
    OBVIOUS
  <2>1. k \in 1..Len(conns[a]) /\ conns'[a][k].message = conns[a][k].message
    BY <1>1, <1>3 DEF Kept, PairingTypeOK
  <2> QED BY <1>1, <1>2, <2>1
<1>4. ASSUME UNCHANGED conns PROVE Good
  BY <1>1, <1>2, <1>4
<1>5. ASSUME NEW d \in Devices, Connect(d) PROVE Good /\ Queued
  <2>1. ASSUME NEW a \in Displayers, Goto(d, "send"),
               conns' = [conns EXCEPT ![a] = Append(@, [from |-> d, state |-> "open",
                                                     message |-> Response(Me(d), peer[d].key)])]
        PROVE  Good /\ Queued
    <3>1. Me(d) \in KeyPair /\ peer[d].key \in KeyPair
      <4>1. peer[d] \in PeerRecord
        BY <1>1, <1>5 DEF Connect, PairingInv, PeersGenuine, PairingTypeOK
      <4> QED BY <1>5, <4>1, MeIsOnFile DEF Connect, PeerRecord
    <3>2. [by |-> Me(d), fingerprint |-> compute_fingerprint(Me(d), peer[d].key)] \in computed
      BY <1>5 DEF Connect, PairingInv, PeersGenuine
    <3> DEFINE m == Response(Me(d), peer[d].key)
               c == [from |-> d, state |-> "open", message |-> m]
    <3>3. GenuineNext(m)
      BY <1>2, <3>1, <3>2 DEF Genuine
    <3> HIDE DEF m
    <3>4. GenuineNext(c.message)
      BY <3>3
    <3>5. conns' = [conns EXCEPT ![a] = Append(@, c)] /\ conns \in [Displayers -> Seq(Connection)]
      BY <1>1, <2>1 DEF m, PairingTypeOK
    <3> HIDE DEF c
    <3>6. Good
      <4> SUFFICES ASSUME NEW e \in Displayers, NEW k \in 1..Len(conns'[e])
                   PROVE  GenuineNext(conns'[e][k].message)
        OBVIOUS
      <4>1. CASE e # a
        BY <1>1, <1>2, <3>5, <4>1
      <4>2. CASE e = a
        <5>1. conns'[a] = Append(conns[a], c) /\ conns[a] \in Seq(Connection)
          BY <3>5
        <5>2. \/ k \in 1..Len(conns[a]) /\ conns'[a][k] = conns[a][k]
              \/ conns'[a][k] = c
          BY <4>2, <5>1
        <5> QED BY <1>1, <1>2, <3>4, <4>2, <5>2
      <4> QED BY <4>1, <4>2
    <3>7. Queued
      <4> SUFFICES ASSUME NEW e \in Displayers, pc'[e] = "recv" PROVE conns'[e] # <<>>
        OBVIOUS
      <4>1. pc[e] = "recv" /\ conns[e] # <<>> /\ conns[e] \in Seq(Connection)
        BY <1>1, <2>1 DEF Goto, PairingTypeOK, Devices
      <4>2. CASE e = a
        BY <3>5, <4>1, <4>2
      <4>3. CASE e # a
        BY <3>5, <4>1, <4>3
      <4> QED BY <4>2, <4>3
    <3> QED BY <3>6, <3>7
  <2>2. ASSUME Goto(d, "failed"), UNCHANGED conns PROVE Good /\ Queued
    <3>1. Good
      BY <1>4, <2>2
    <3> QED BY <1>1, <2>2, <3>1 DEF Goto, PairingTypeOK, Devices
  <2> QED BY <1>5, <2>1, <2>2 DEF Connect
<1>6. ASSUME NEW d \in Devices, HangUp(d), NEW l, l # "recv", Goto(d, l) PROVE Good /\ Queued
  <2>1. Good
    BY <1>1, <1>3, <1>6, HangUpKeeps
  <2>2. ASSUME NEW e \in Displayers, pc'[e] = "recv" PROVE conns'[e] # <<>>
    <3>1. e # d /\ pc[e] = "recv" /\ conns[e] # <<>> /\ conns[e] \in Seq(Connection)
      BY <1>1, <1>6, <2>2 DEF Goto, PairingTypeOK, Devices
    <3>2. Len(conns'[e]) = Len(conns[e]) /\ conns'[e] \in Seq(Connection)
      BY <1>1, <1>6, <3>1, HangUpKeeps DEF Kept
    <3> QED BY <3>1, <3>2
  <2> QED BY <2>1, <2>2
<1>7. ASSUME NEW d \in Devices, SendFramed(d) PROVE Good /\ Queued
  <2>1. ASSUME conns' = [a \in Displayers |-> Marked(conns[a], d, "sent")], Goto(d, "save")
        PROVE  Good /\ Queued
    <3>1. Good
      BY <1>1, <1>3, <2>1, SendKeeps
    <3>2. ASSUME NEW e \in Displayers, pc'[e] = "recv" PROVE conns'[e] # <<>>
      <4>1. pc[e] = "recv" /\ conns[e] # <<>> /\ conns[e] \in Seq(Connection)
        BY <1>1, <2>1, <3>2 DEF Goto, PairingTypeOK, Devices
      <4>2. Len(conns'[e]) = Len(conns[e]) /\ conns'[e] \in Seq(Connection)
        BY <1>1, <2>1, SendKeeps DEF Kept
      <4> QED BY <4>1, <4>2
    <3> QED BY <3>1, <3>2
  <2>2. ASSUME End(d, "failed") PROVE Good /\ Queued
    BY <1>6, <2>2 DEF End
  <2> QED BY <1>7, <2>1, <2>2 DEF SendFramed
<1>8. ASSUME NEW d \in Devices, Accept(d) PROVE Good /\ Queued
  <2>1. Good
    BY <1>4, <1>8 DEF Accept
  <2> QED BY <1>1, <1>8, <2>1 DEF Accept, Goto, PairingTypeOK, Devices
<1>9. ASSUME UNCHANGED conns, UNCHANGED pc \/ \E d \in Devices : \E l : l # "recv" /\ Goto(d, l)
      PROVE  Good /\ Queued
  <2>1. Good
    BY <1>4, <1>9
  <2> QED BY <1>1, <1>9, <2>1 DEF Goto, PairingTypeOK, Devices
<1>10. ASSUME NEW d \in Devices,
              \/ Launch(d) \/ LoadIdentity(d) \/ CreateIdentity(d) \/ WriteIdentity(d) \/ OpenQR(d)
              \/ WriteQR(d) \/ Listen(d) \/ Scan(d) \/ SaveRecord(d)
       PROVE  Good /\ Queued
  <2>1. UNCHANGED conns /\ \E l : l # "recv" /\ Goto(d, l)
    BY <1>10 DEF Launch, LoadIdentity, CreateIdentity, WriteIdentity, OpenQR, WriteQR, Listen,
         Scan, scan_image_file, scan_webcam, respond_to_qr, SeesNothing, SaveRecord
  <2> QED BY <1>9, <2>1
<1>11. ASSUME NEW d \in Devices, Kill(d) \/ CompletePairing(d) PROVE Good /\ Queued
  <2>1. HangUp(d) /\ \E l : l # "recv" /\ Goto(d, l)
    BY <1>11 DEF Kill, CompletePairing, End
  <2> QED BY <1>6, <2>1
<1>12. ASSUME NEW d \in Devices, Wipe(d) PROVE Good /\ Queued
  BY <1>9, <1>12 DEF Wipe
<1>13. ASSUME UNCHANGED vars PROVE Good /\ Queued
  BY <1>9, <1>13 DEF vars
<1>14. ASSUME NEW d \in Devices, OtherStep(d) PROVE Good /\ Queued
  BY <1>9, <1>14, OtherFrame
<1>15. ASSUME NEW b \in Displayers, NEW n \in 1..Backlog, Break(b, n) PROVE Good /\ Queued
  <2>1. Good
    BY <1>1, <1>3, <1>15, BreakKeeps
  <2>2. ASSUME NEW e \in Displayers, pc'[e] = "recv" PROVE conns'[e] # <<>>
    <3>1. pc[e] = "recv" /\ conns[e] # <<>> /\ conns[e] \in Seq(Connection)
      BY <1>1, <1>15, <2>2, BreakFrame DEF PairingTypeOK
    <3>2. Len(conns'[e]) = Len(conns[e]) /\ conns'[e] \in Seq(Connection)
      BY <1>1, <1>15, BreakKeeps
    <3> QED BY <3>1, <3>2
  <2> QED BY <2>1, <2>2
<1>16. Good /\ Queued
  BY <1>5, <1>7, <1>8, <1>10, <1>11, <1>12, <1>13, <1>14, <1>15 DEF Next, Step
<1> QED BY <1>16 DEF ConnectionsGenuine, GenuineNext

LEMMA ConnectionTyped ==
  ASSUME PairingTypeOK, NEW a \in Displayers, NEW k \in 1..Len(conns[a])
  PROVE  conns[a][k] \in Connection /\ conns[a][k].from \in Scanners
<1>1. conns[a] \in Seq(Connection)
  BY DEF PairingTypeOK
<1>2. conns[a][k] \in Connection
  BY <1>1
<1> QED BY <1>2 DEF Connection

\* The open connections, after a step of d that opens none, are those of others.
LEMMA OpenStays ==
  ASSUME PairingInv, NEW d \in Devices, Launch(d) \/ Kill(d) \/ Wipe(d) \/ Step(d),
         \A a \in Displayers : conns'[a] # <<>> => conns[a] # <<>> /\ Listening(a)',
         \A a \in Displayers : \A k \in 1..Len(conns'[a]) : conns'[a][k].state = "open" =>
           k \in 1..Len(conns[a]) /\ conns'[a][k] = conns[a][k] /\ conns[a][k].from # d
  PROVE  OpenIsSending'
<1>1. ASSUME NEW a \in Displayers, NEW b \in Scanners, NEW k \in 1..Len(conns'[a]),
             conns'[a][k].from = b, conns'[a][k].state = "open"
      PROVE  pc'[b] = "send" /\ conns'[a][k].message = Response(Me(b)', peer'[b].key)
  <2>1. k \in 1..Len(conns[a]) /\ conns'[a][k] = conns[a][k] /\ b # d
    BY <1>1
  <2>2. pc[b] = "send" /\ conns[a][k].message = Response(Me(b), peer[b].key)
    BY <1>1, <2>1 DEF PairingInv, OpenIsSending
  <2>3. pc'[b] = pc[b] /\ Me(b)' = Me(b) /\ peer'[b] = peer[b]
    BY <2>1, OthersFrame DEF PairingInv, Me, Devices
  <2> QED BY <2>1, <2>2, <2>3
<1> QED BY <1>1 DEF OpenIsSending

LEMMA NextOpen ==
  ASSUME PairingInv, [Next]_vars
  PROVE  OpenIsSending'
<1>0. /\ PairingTypeOK /\ Displayers \subseteq Devices
      /\ \A a \in Displayers : conns[a] \in Seq(Connection)
      /\ \A a \in Displayers : conns[a] # <<>> => Listening(a)
      /\ \A a \in Displayers : \A k \in 1..Len(conns[a]) : conns[a][k].state = "open" =>
           pc[conns[a][k].from] = "send" /\ conns[a][k].from \in Scanners
  <2>1. PairingTypeOK /\ OpenIsSending
    BY DEF PairingInv
  <2> QED BY <2>1, ConnectionTyped DEF PairingTypeOK, OpenIsSending, Devices
<1>1. ASSUME NEW d \in Devices, UNCHANGED conns, pc[d] # "send", Launch(d) \/ Wipe(d) \/ Step(d),
             Listening(d) => Listening(d)'
      PROVE  OpenIsSending'
  <2>1. \A a \in Displayers : Listening(a) => Listening(a)'
    BY <1>0, <1>1, OthersFrame DEF Listening
  <2> QED BY <1>0, <1>1, <2>1, OpenStays
<1>2. ASSUME NEW d \in Devices, HangUp(d), Kill(d) \/ Step(d) PROVE OpenIsSending'
  <2>1. HangUp(d) /\ (Kill(d) \/ Step(d))
    BY <1>2
  <2>2. \A a \in Displayers : a = d => conns'[a] = <<>>
    BY <2>1 DEF HangUp
  <2>3. \A a \in Displayers : a # d => conns'[a] = Marked(conns[a], d, "dead")
    BY <2>1 DEF HangUp
  <2>4. ASSUME NEW a \in Displayers, a # d
        PROVE  /\ conns'[a] # <<>> => conns[a] # <<>> /\ Listening(a)'
               /\ \A k \in 1..Len(conns'[a]) : conns'[a][k].state = "open" =>
                    k \in 1..Len(conns[a]) /\ conns'[a][k] = conns[a][k] /\ conns[a][k].from # d
    <3>1. Len(conns'[a]) = Len(conns[a]) /\ conns'[a] \in Seq(Connection)
      BY <1>0, <2>3, <2>4, MarkedTyped
    <3>2. conns'[a] # <<>> => conns[a] # <<>> /\ Listening(a)'
      BY <1>0, <2>1, <2>4, <3>1, OthersFrame DEF Listening
    <3>3. ASSUME NEW k \in 1..Len(conns[a]), conns'[a][k].state = "open"
          PROVE  conns'[a][k] = conns[a][k] /\ conns[a][k].from # d
      BY <1>0, <2>3, <2>4, <3>3, MarkedKeepsOpen
    <3> QED BY <3>1, <3>2, <3>3
  <2> QED BY <1>0, <2>1, <2>2, <2>4, OpenStays
<1>3. ASSUME NEW d \in Devices, SendFramed(d) PROVE OpenIsSending'
  <2>0. /\ \A a \in Displayers : Listening(a) => Listening(a)'
        /\ Step(d)
    BY <1>0, <1>3, OthersFrame DEF Listening, SendFramed, Step
  <2>1. CASE conns' = [a \in Displayers |-> Marked(conns[a], d, "sent")]
    <3>1. ASSUME NEW a \in Displayers
          PROVE  /\ conns'[a] # <<>> => conns[a] # <<>> /\ Listening(a)'
                 /\ \A k \in 1..Len(conns'[a]) : conns'[a][k].state = "open" =>
                      k \in 1..Len(conns[a]) /\ conns'[a][k] = conns[a][k] /\ conns[a][k].from # d
      <4>1. Len(conns'[a]) = Len(conns[a]) /\ conns'[a] \in Seq(Connection)
        BY <1>0, <2>1, MarkedTyped
      <4>2. ASSUME NEW k \in 1..Len(conns[a]), conns'[a][k].state = "open"
            PROVE  conns'[a][k] = conns[a][k] /\ conns[a][k].from # d
        BY <1>0, <2>1, <4>2, MarkedKeepsOpen
      <4> QED BY <1>0, <2>0, <4>1, <4>2
    <3> QED BY <2>0, <3>1, OpenStays
  <2>2. CASE HangUp(d)
    BY <1>2, <2>0, <2>2
  <2> QED BY <1>3, <2>1, <2>2 DEF SendFramed, End
<1>4. ASSUME NEW d \in Devices, Connect(d) PROVE OpenIsSending'
  <2>1. ASSUME UNCHANGED conns PROVE OpenIsSending'
    <3>1. pc[d] # "send" /\ ~Listening(d) /\ Step(d)
      BY <1>4 DEF Connect, Listening, Step
    <3> QED BY <1>1, <2>1, <3>1
  <2>2. ASSUME NEW a \in Displayers, Listening(a), Goto(d, "send"),
               conns' = [conns EXCEPT ![a] = Append(@, [from |-> d, state |-> "open",
                                                     message |-> Response(Me(d), peer[d].key)])]
        PROVE  OpenIsSending'
    <3> DEFINE c == [from |-> d, state |-> "open", message |-> Response(Me(d), peer[d].key)]
    <3>1. /\ UNCHANGED <<mem, peer>> /\ pc[d] = "connect" /\ pc'[d] = "send"
          /\ \A e \in Devices \ {d} : pc'[e] = pc[e]
      BY <1>0, <1>4, <2>2 DEF Connect, Goto, PairingTypeOK
    <3>2. \A e \in Devices : Me(e)' = Me(e) /\ peer'[e] = peer[e]
      BY <3>1 DEF Me
    <3>3. c.from = d /\ c.message = Response(Me(d), peer[d].key)
      OBVIOUS
    <3>4. conns' = [conns EXCEPT ![a] = Append(conns[a], c)] /\ DOMAIN conns = Displayers
      BY <1>0, <2>2 DEF PairingTypeOK
    <3> HIDE DEF c
    <3>5. ASSUME NEW e \in Displayers, conns'[e] # <<>> PROVE Listening(e)'
      <4>1. e = a \/ conns[e] # <<>>
        BY <3>4, <3>5
      <4>2. Listening(e) /\ e # d
        BY <1>0, <2>2, <3>1, <4>1 DEF Listening
      <4> QED BY <1>0, <3>1, <4>2 DEF Listening
    <3>6. ASSUME NEW e \in Displayers, NEW b \in Scanners, NEW k \in 1..Len(conns'[e]),
                 conns'[e][k].from = b, conns'[e][k].state = "open"
          PROVE  pc'[b] = "send" /\ conns'[e][k].message = Response(Me(b)', peer'[b].key)
      <4>0. b \in Devices
        BY DEF Devices
      <4>1. \/ k \in 1..Len(conns[e]) /\ conns'[e][k] = conns[e][k]
            \/ conns'[e][k] = c
        <5>1. CASE e # a
          BY <3>4, <3>6, <5>1
        <5>2. CASE e = a
          <6>1. conns'[e] = Append(conns[e], c) /\ conns[e] \in Seq(Connection)
            BY <1>0, <3>4, <5>2
          <6> QED BY <3>6, <6>1
        <5> QED BY <5>1, <5>2
      <4>2. CASE k \in 1..Len(conns[e]) /\ conns'[e][k] = conns[e][k]
        <5>1. pc[b] = "send" /\ conns[e][k].message = Response(Me(b), peer[b].key)
          BY <3>6, <4>2 DEF PairingInv, OpenIsSending
        <5>2. b # d
          BY <3>1, <5>1
        <5> QED BY <3>1, <3>2, <4>0, <4>2, <5>1, <5>2
      <4>3. CASE conns'[e][k] = c
        <5>1. b = d
          BY <3>3, <3>6, <4>3
        <5> QED BY <3>1, <3>2, <3>3, <4>3, <5>1
      <4> QED BY <4>1, <4>2, <4>3
    <3> QED BY <3>5, <3>6 DEF OpenIsSending
  <2> QED BY <1>4, <2>1, <2>2 DEF Connect
<1>5. ASSUME NEW d \in Devices,
             \/ Launch(d) \/ LoadIdentity(d) \/ CreateIdentity(d) \/ WriteIdentity(d) \/ OpenQR(d)
             \/ WriteQR(d) \/ Listen(d) \/ Scan(d) \/ SaveRecord(d)
      PROVE  OpenIsSending'
  <2>1. /\ UNCHANGED conns /\ pc[d] \notin {"accept", "recv", "send"}
        /\ Launch(d) \/ Step(d)
    BY <1>5 DEF Launch, LoadIdentity, CreateIdentity, WriteIdentity, OpenQR, WriteQR, Listen, Scan,
         SaveRecord, Running, Idle, Step
  <2> QED BY <1>1, <2>1 DEF Listening
<1>6. ASSUME NEW d \in Devices, Accept(d) PROVE OpenIsSending'
  <2>1. UNCHANGED conns /\ pc[d] # "send" /\ Listening(d)' /\ Step(d)
    BY <1>0, <1>6 DEF Accept, Goto, Listening, Step, PairingTypeOK
  <2> QED BY <1>1, <2>1
<1>7. ASSUME UNCHANGED <<pc, mem, peer, conns>> PROVE OpenIsSending'
  BY <1>7 DEF PairingInv, OpenIsSending, Listening, Me
<1>8. ASSUME NEW d \in Devices, Wipe(d) \/ OtherStep(d) PROVE OpenIsSending'
  BY <1>7, <1>8, OtherFrame DEF Wipe
<1>9. CASE UNCHANGED vars
  BY <1>7, <1>9 DEF vars
<1>10. ASSUME NEW d \in Devices, Kill(d) \/ CompletePairing(d) PROVE OpenIsSending'
  BY <1>2, <1>10 DEF Kill, CompletePairing, End, Step
<1>11. ASSUME NEW b \in Displayers, NEW n \in 1..Backlog, Break(b, n) PROVE OpenIsSending'
  <2>1. \A a \in Displayers : Len(conns'[a]) = Len(conns[a]) /\ conns' \in [Displayers -> Seq(Connection)]
    BY <1>0, <1>11, BreakKeeps
  <2>2. ASSUME NEW a \in Displayers, NEW k \in 1..Len(conns[a]), conns'[a][k].state = "open"
        PROVE  conns'[a][k] = conns[a][k]
    BY <1>0, <1>11, <2>2, BreakKeeps
  <2>3. \A a \in Displayers : conns'[a] # <<>> => conns[a] # <<>>
    BY <1>0, <2>1
  <2>4. UNCHANGED <<pc, mem, peer>>
    BY <1>11, BreakFrame
  <2> QED BY <2>1, <2>2, <2>3, <2>4 DEF PairingInv, OpenIsSending, Listening, Me
<1> QED BY <1>3, <1>4, <1>5, <1>6, <1>8, <1>9, <1>10, <1>11 DEF Next, Step

LEMMA NextNumbers ==
  ASSUME PairingInv, [Next]_vars
  PROVE  SafetyNumbersAgree'
<1>1. PairingTypeOK /\ SafetyNumbersAgree /\ computed \subseteq computed'
  BY ComputedGrows DEF PairingInv
<1>2. \A a \in Displayers : peer[a] # NoRecord =>
        [by |-> peer[a].key, fingerprint |-> peer[a].fingerprint] \in computed
  BY DEF PairingInv, PeersGenuine, Devices
<1> QED BY <1>1, <1>2, NextRecords DEF SafetyNumbersAgree, RecordsFrom, Devices

LEMMA InitPairingInv == Init => PairingInv
<1> SUFFICES ASSUME Init PROVE PairingInv
  OBVIOUS
<1>1. PairingTypeOK
  BY InitPairingType
<1>2. FirstIdentity /\ MemoryIsFile /\ WritingIsTorn /\ \A d \in Devices : RoleOf(d)
  BY DEF Init, FirstIdentity, Absent, MemoryIsFile, WritingIsTorn, RoleOf, Running, Idle
<1>3. KeysKnown
  BY DEF Init, KeysKnown, Devices, Absent, NoRecords
<1>4. PeersGenuine /\ ConnectionsGenuine /\ SafetyNumbersAgree
  BY DEF Init, PeersGenuine, ConnectionsGenuine, SafetyNumbersAgree, Devices, NoRecords
<1>5. OpenIsSending
  BY DEF Init, OpenIsSending
<1> QED BY <1>1, <1>2, <1>3, <1>4, <1>5 DEF PairingInv

\* The inductive invariant of load_or_create_identity, cmd_pair, respond_to_qr
\* and complete_pairing.
THEOREM PairingInvariance == Spec => []PairingInv
<1>1. PairingInv /\ [Next]_vars => PairingInv'
  <2> SUFFICES ASSUME PairingInv, [Next]_vars PROVE PairingInv'
    OBVIOUS
  <2>1. PairingTypeOK'
    BY NextPairingType
  <2>2. MemoryIsFile' /\ WritingIsTorn' /\ (\A d \in Devices : RoleOf(d))'
    BY NextMemory
  <2>3. KeysKnown' /\ FirstIdentity'
    BY <2>1, NextKeys, NextFirst
  <2>4. PeersGenuine' /\ ConnectionsGenuine' /\ SafetyNumbersAgree'
    BY NextPeers, NextConnections, NextNumbers
  <2>5. OpenIsSending'
    BY NextOpen
  <2> QED BY <2>1, <2>2, <2>3, <2>4, <2>5 DEF PairingInv
<1> QED BY InitPairingInv, <1>1, PTL DEF Spec

\* Both sides show the same safety number: what device_a records with a peer,
\* that peer computed.  (compute_fingerprint, complete_pairing)
THEOREM SameSafetyNumber == Spec => []SafetyNumbersAgree
<1>1. PairingInv => SafetyNumbersAgree
  BY DEF PairingInv
<1> QED BY <1>1, PairingInvariance, PTL

\* A record names the identity its peer still has, unless the peer's state was
\* deleted.  (load_or_create_identity)
THEOREM RecordsAreCurrent == Spec => []HeldByItsIdentity
<1>1. PairingInv => HeldByItsIdentity
  <2> SUFFICES ASSUME PairingInv, NEW d \in Devices, NEW p \in Devices,
                      trust[d][p] # NoRecord, p \notin replaced
               PROVE  trust[d][p].key = <<p, identity[p]>>
    BY DEF HeldByItsIdentity
  <2> DEFINE k == trust[d][p].key
  <2>1. k[1] = p /\ k \in KeyPair /\ k[2] = identity[p]
    BY DEF PairingInv, KeysKnown, Known
  <2> HIDE DEF k
  <2>2. k = <<k[1], k[2]>>
    BY <2>1 DEF KeyPair
  <2> QED BY <2>1, <2>2 DEF k
<1> QED BY <1>1, PairingInvariance, PTL

(***************************************************************************)
(* What encounters count on                                                *)
(***************************************************************************)
\* Two tables that differ in one entry.
LEMMA UpdatedTwice ==
  ASSUME NEW S, NEW f, NEW g, NEW d \in S, NEW p \in S, NEW v,
         f = [e \in S |-> [q \in S |-> f[e][q]]], g = [e \in S |-> [q \in S |-> g[e][q]]],
         \A e, q \in S : g[e][q] = IF e = d /\ q = p THEN v ELSE f[e][q]
  PROVE  g = [f EXCEPT ![d][p] = v]
<1> DEFINE h == [f EXCEPT ![d][p] = v]
<1>1. h = [e \in S |-> IF e = d THEN [f[d] EXCEPT ![p] = v] ELSE f[e]]
  OBVIOUS
<1>2. [f[d] EXCEPT ![p] = v] = [q \in S |-> IF q = p THEN v ELSE f[d][q]]
  OBVIOUS
<1>3. ASSUME NEW e \in S PROVE g[e] = h[e]
  <2>1. g[e] = [q \in S |-> g[e][q]] /\ f[e] = [q \in S |-> f[e][q]]
    OBVIOUS
  <2>2. CASE e = d
    BY <1>1, <1>2, <2>1, <2>2
  <2>3. CASE e # d
    <3>1. \A q \in S : g[e][q] = f[e][q]
      BY <2>3
    <3> QED BY <1>1, <2>1, <2>3, <3>1
  <2> QED BY <2>2, <2>3
<1> HIDE DEF h
<1>4. h = [e \in S |-> h[e]] /\ g = [e \in S |-> g[e]]
  BY <1>1
<1> QED BY <1>3, <1>4 DEF h

LEMMA SaveRecordPlays ==
  ASSUME PairingInv, NEW d \in Devices, SaveRecord(d), other[d] # "empty"
  PROVE  [PX!Next]_KeysOnRecord
<1> DEFINE p == peer[d].key[1]
<1>1. /\ peer[d] # NoRecord /\ peer[d] \in PeerRecord /\ Known(peer[d].key) /\ p \in Devices
      /\ trust \in [Devices -> [Devices -> PeerRecord \cup {NoRecord}]]
  <2>1. pc[d] = "save" /\ PairingTypeOK /\ PeersGenuine /\ KeysKnown
    BY DEF SaveRecord, PairingInv
  <2>2. peer[d] # NoRecord
    BY <2>1 DEF PeersGenuine
  <2>3. Known(peer[d].key)
    BY <2>1, <2>2 DEF KeysKnown
  <2>4. peer[d] \in PeerRecord
    BY <2>1, <2>2 DEF PairingTypeOK
  <2>5. p \in Devices
    BY <2>3 DEF Known, KeyPair
  <2> QED BY <2>1, <2>2, <2>3, <2>4, <2>5 DEF PairingTypeOK
<1>0. CASE UNCHANGED stores
  BY <1>0 DEF SaveRecord, stores, KeysOnRecord
<1> DEFINE Saved == trust' = [trust EXCEPT ![d][p] = peer[d]]
<1>2. Saved \/ UNCHANGED stores
  BY DEF SaveRecord, Puts
<1>22. replaced' = replaced
  BY DEF SaveRecord
<1>3. CASE Saved /\ {d, p} \cap replaced # {}
  <2>1. KeysOnRecord' = KeysOnRecord
    BY <1>1, <1>22, <1>3 DEF KeysOnRecord
  <2> QED BY <2>1
<1>4. CASE Saved /\ {d, p} \cap replaced = {}
  <2>1. peer[d].key[2] = 1
    <3>1. peer[d].key[2] = identity[p] /\ peer[d].key[2] \in 1..MaxIdentities
      BY <1>1, <1>4 DEF Known, KeyPair
    <3>2. identity[p] <= gens[p] /\ gens[p] = IF identity[p] = Absent THEN 0 ELSE 1
      BY <1>1, <1>4 DEF PairingInv, FirstIdentity
    <3> QED BY <3>1, <3>2, PairingBounds DEF Absent
  <2>2. KeysOnRecord' = [KeysOnRecord EXCEPT ![d][p] = 1]
    <3>1. trust'[d][p] = peer[d] /\ \A e, q \in Devices : ~(e = d /\ q = p) => trust'[e][q] = trust[e][q]
      BY <1>1, <1>4
    <3>2. \A e, q \in Devices : KeysOnRecord'[e][q] = IF e = d /\ q = p THEN 1 ELSE KeysOnRecord[e][q]
      BY <1>1, <1>22, <1>4, <2>1, <3>1 DEF KeysOnRecord
    <3>3. /\ KeysOnRecord = [e \in Devices |-> [q \in Devices |-> KeysOnRecord[e][q]]]
          /\ KeysOnRecord' = [e \in Devices |-> [q \in Devices |-> KeysOnRecord'[e][q]]]
      BY DEF KeysOnRecord
    <3> HIDE DEF p
    <3> QED BY <1>1, <3>2, <3>3, UpdatedTwice
  <2>3. PX!SavePeer(d, p)
    BY <1>1, <2>2 DEF PX!SavePeer
  <2> QED BY <1>1, <2>3 DEF PX!Next, PX!Devices, Devices
<1> QED BY <1>0, <1>2, <1>3, <1>4

\* Pairing only ever replaces a record by the peer's present key and leaves the
\* others alone, and so does the proximity program's own TrustStore as long as
\* it found a store: what the proofs about encounters count on.
THEOREM PairingPlays == Spec => PlaysTokenExchange
<1>1. Init => PX!Init
  BY DEF Init, PX!Init, KeysOnRecord, NoRecords
<1>2. ASSUME PairingInv, [Next]_vars, UNCHANGED replaced, \A d \in Devices : other[d] # "empty"
      PROVE  [PX!Next]_KeysOnRecord
  <2>1. ASSUME UNCHANGED trust PROVE UNCHANGED KeysOnRecord
    BY <1>2, <2>1 DEF KeysOnRecord
  <2>2. ASSUME NEW d \in Devices, SaveRecord(d) PROVE [PX!Next]_KeysOnRecord
    BY <1>2, <2>2, SaveRecordPlays
  <2>3. ASSUME NEW d \in Devices, Wipe(d) PROVE UNCHANGED KeysOnRecord
    <3>1. d \in replaced /\ \A e \in Devices \ {d} : trust'[e] = trust[e]
      BY <1>2, <2>3 DEF Wipe, PairingInv, PairingTypeOK
    <3> QED BY <1>2, <3>1 DEF KeysOnRecord
  <2>4. ASSUME NEW d \in Devices, OtherStep(d) PROVE UNCHANGED KeysOnRecord
    BY <1>2, <2>1, <2>4, OtherFrame DEF OtherEmpties
  <2> QED BY <1>2, <2>1, <2>2, <2>3, <2>4, BreakFrame DEF Next, Step, vars, files, stores, Launch,
          Kill, LoadIdentity, OpenQR, WriteQR, CreateIdentity, WriteIdentity, Listen, Accept,
          CompletePairing, Scan, scan_image_file, scan_webcam, respond_to_qr, SeesNothing,
          Connect, SendFramed
<1>3. PairingInv /\ [Next]_vars =>
        [UNCHANGED replaced /\ (\A d \in Devices : other[d] # "empty") => [PX!Next]_KeysOnRecord]_vars
  BY <1>2
<1> QED BY <1>1, <1>3, PairingInvariance, PTL DEF Spec, PlaysTokenExchange

(***************************************************************************)
(* The first connection                                                    *)
(***************************************************************************)
\* A response completes at whose QR code it was made for.
LEMMA OwnResponseCompletes ==
  ASSUME NEW mine, NEW theirs
  PROVE  /\ Completes(theirs, Response(mine, theirs))
         /\ Response(mine, theirs).x25519_pub = mine
         /\ Response(mine, theirs).ciphertext.plaintext = mine
<1>1. derive_shared_secret(mine, theirs) = derive_shared_secret(theirs, mine)
  BY DEF derive_shared_secret
<1> QED BY <1>1 DEF Completes, Response, ResponseKey, Decrypts, combine_secrets, encapsulate,
                decapsulate, encrypt

\* It names both key pairs.
LEMMA ResponseNames ==
  ASSUME NEW m, NEW t, NEW n, NEW u, Response(m, t) = Response(n, u)
  PROVE  m = n /\ t = u
<1>1. /\ Response(m, t).x25519_pub = m /\ Response(m, t).kem_ciphertext.to = t
      /\ Response(n, u).x25519_pub = n /\ Response(n, u).kem_ciphertext.to = u
  BY DEF Response, encapsulate, Ciphertext
<1> QED BY <1>1

\* What a step does to the connection at the head of a displayer's queue.
HeadStays(a) == conns'[a] # <<>> /\ Head(conns'[a]) = Head(conns[a])

HeadBecomes(a, state) ==
  /\ conns'[a] # <<>>
  /\ Head(conns'[a]) = [from |-> Head(conns[a]).from, state |-> state,
                        message |-> Head(conns[a]).message]

HeadOpenFrom(a, d) == Head(conns[a]).from = d /\ Head(conns[a]).state = "open"

LEMMA HeadMarked ==
  ASSUME PairingTypeOK, NEW a \in Displayers, conns[a] # <<>>, NEW d, NEW s \in {"sent", "dead"},
         conns'[a] = Marked(conns[a], d, s)
  PROVE  /\ HeadOpenFrom(a, d) => HeadBecomes(a, s)
         /\ ~HeadOpenFrom(a, d) => HeadStays(a)
<1>1. conns[a] \in Seq(Connection) /\ 1 \in 1..Len(conns[a]) /\ Head(conns[a]) = conns[a][1]
  BY DEF PairingTypeOK
<1>2. conns'[a] \in Seq(Connection) /\ Len(conns'[a]) = Len(conns[a])
  BY <1>1, MarkedTyped
<1>3. conns'[a] # <<>> /\ Head(conns'[a]) = conns'[a][1]
  BY <1>1, <1>2
<1>4. /\ HeadOpenFrom(a, d) => conns'[a][1] = [from |-> d, state |-> s, message |-> conns[a][1].message]
      /\ ~HeadOpenFrom(a, d) => conns'[a][1] = conns[a][1]
  <2> DEFINE q == conns[a]
  <2>1. q \in Seq(Connection) /\ 1 \in 1..Len(q) /\ Head(conns[a]) = q[1] /\ conns'[a] = Marked(q, d, s)
    BY <1>1
  <2> HIDE DEF q
  <2>2. /\ q[1].from = d /\ q[1].state = "open" =>
             Marked(q, d, s)[1] = [from |-> d, state |-> s, message |-> q[1].message]
        /\ ~(q[1].from = d /\ q[1].state = "open") => Marked(q, d, s)[1] = q[1]
    BY <2>1, MarkedOpen
  <2> QED BY <2>1, <2>2 DEF q, HeadOpenFrom
<1> QED BY <1>1, <1>3, <1>4 DEF HeadStays, HeadBecomes, HeadOpenFrom

\* The network breaks it, or its own process's end.
HeadBreaks(a) ==
  /\ conns'[a] # <<>> /\ Head(conns'[a]).from = Head(conns[a]).from
  /\ Head(conns'[a]).state \in {"dead", "silent"}
  /\ \/ UNCHANGED pc
     \/ Head(conns[a]).state = "open" /\ pc'[Head(conns[a]).from] \in {"failed", "killed"}

LEMMA HeadStep ==
  ASSUME PairingInv, [Next]_vars, NEW a \in Displayers, conns[a] # <<>>
  PROVE  /\ mem'[a] = mem[a]
         /\ \/ HeadStays(a) \/ Kill(a) \/ CompletePairing(a) \/ HeadBreaks(a)
            \/ \E d \in Devices :
                 HeadOpenFrom(a, d) /\ SendFramed(d) /\ Goto(d, "save") /\ HeadBecomes(a, "sent")
<1>0. PairingTypeOK /\ Listening(a) /\ a \in Devices
  BY DEF PairingInv, OpenIsSending, Devices
<1>1. ASSUME NEW d \in Devices, LoadIdentity(d) \/ CreateIdentity(d) PROVE mem'[a] = mem[a]
  BY <1>0, <1>1, OthersFrame DEF LoadIdentity, CreateIdentity, Listening, Step
<1>2. mem'[a] = mem[a]
  <2>1. CASE UNCHANGED mem
    BY <2>1
  <2>2. UNCHANGED mem \/ \E d \in Devices : LoadIdentity(d) \/ CreateIdentity(d)
    BY OtherFrame, BreakFrame DEF Next, Step, vars, Launch, Wipe, Kill, WriteIdentity, OpenQR, WriteQR, Listen,
         Accept, CompletePairing, Scan, Connect, SendFramed, SaveRecord
  <2> QED BY <1>1, <2>1, <2>2
<1>3. ASSUME NEW d \in Devices, d # a, NEW how \in {"failed", "killed"}, End(d, how)
      PROVE  HeadStays(a) \/ HeadBreaks(a)
  <2>1. conns'[a] = Marked(conns[a], d, "dead") /\ pc'[d] = how
    BY <1>0, <1>3 DEF End, HangUp, Goto, PairingTypeOK
  <2>2. HeadOpenFrom(a, d) => HeadBecomes(a, "dead")
    BY <1>0, <2>1, HeadMarked
  <2>3. ~HeadOpenFrom(a, d) => HeadStays(a)
    BY <1>0, <2>1, HeadMarked
  <2>4. HeadOpenFrom(a, d) => HeadBreaks(a)
    BY <2>1, <2>2 DEF HeadOpenFrom, HeadBecomes, HeadBreaks
  <2> QED BY <2>3, <2>4
<1>4. ASSUME NEW d \in Devices, CompletePairing(d) PROVE HeadStays(a) \/ CompletePairing(a)
  <2>1. d # a => conns'[a] = Marked(conns[a], d, "dead")
    BY <1>4 DEF CompletePairing, End, HangUp
  <2>2. ~HeadOpenFrom(a, d)
    <3>1. conns[a] \in Seq(Connection) /\ 1 \in 1..Len(conns[a]) /\ Head(conns[a]) = conns[a][1]
      BY <1>0 DEF PairingTypeOK
    <3>2. HeadOpenFrom(a, d) => d \in Scanners
      BY <1>0, <3>1, ConnectionTyped DEF HeadOpenFrom
    <3>3. d \in Displayers
      BY <1>4, HeadGenuine DEF CompletePairing
    <3> QED BY <3>2, <3>3, PairingRoles
  <2> QED BY <1>0, <1>4, <2>1, <2>2, HeadMarked
<1>5. ASSUME NEW d \in Devices, SendFramed(d)
      PROVE  \/ HeadStays(a) \/ HeadBreaks(a)
             \/ HeadOpenFrom(a, d) /\ Goto(d, "save") /\ HeadBecomes(a, "sent")
  <2>1. CASE End(d, "failed")
    <3>1. d # a
      BY <1>0, <1>5 DEF SendFramed, Listening
    <3> QED BY <1>3, <2>1, <3>1
  <2>2. CASE conns' = [e \in Displayers |-> Marked(conns[e], d, "sent")] /\ Goto(d, "save")
    <3>1. conns'[a] = Marked(conns[a], d, "sent")
      BY <2>2
    <3>2. HeadOpenFrom(a, d) => HeadBecomes(a, "sent")
      BY <1>0, <3>1, HeadMarked
    <3>3. ~HeadOpenFrom(a, d) => HeadStays(a)
      BY <1>0, <3>1, HeadMarked
    <3> QED BY <2>2, <3>2, <3>3
  <2> QED BY <1>5, <2>1, <2>2 DEF SendFramed
<1>6. ASSUME NEW d \in Devices, Connect(d) PROVE HeadStays(a)
  <2>1. CASE UNCHANGED conns
    BY <2>1 DEF HeadStays
  <2>2. ASSUME NEW e \in Displayers, NEW c, conns' = [conns EXCEPT ![e] = Append(@, c)]
        PROVE  HeadStays(a)
    <3>1. conns[a] \in Seq(Connection) /\ (conns'[a] = conns[a] \/ conns'[a] = Append(conns[a], c))
      BY <1>0, <2>2 DEF PairingTypeOK
    <3> QED BY <3>1 DEF HeadStays
  <2> QED BY <1>6, <2>1, <2>2 DEF Connect
<1>7. ASSUME NEW b \in Displayers, NEW n \in 1..Backlog, Break(b, n) PROVE HeadStays(a) \/ HeadBreaks(a)
  <2>1. conns[a] \in Seq(Connection) /\ 1 \in 1..Len(conns[a]) /\ Head(conns[a]) = conns[a][1]
    BY <1>0 DEF PairingTypeOK
  <2>2. conns'[a] \in Seq(Connection) /\ Len(conns'[a]) = Len(conns[a])
    BY <1>0, <1>7, BreakKeeps
  <2>3. conns'[a] # <<>> /\ Head(conns'[a]) = conns'[a][1]
    BY <2>1, <2>2
  <2>4. \/ conns'[a][1] = conns[a][1]
        \/ conns'[a][1].state \in {"dead", "silent"} /\ conns'[a][1].from = conns[a][1].from
    BY <1>0, <1>7, <2>1, BreakKeeps
  <2>5. UNCHANGED pc
    BY <1>7, BreakFrame
  <2> QED BY <2>1, <2>3, <2>4, <2>5 DEF HeadStays, HeadBreaks
<1>8. ASSUME NEW d \in Devices, Kill(d) PROVE HeadStays(a) \/ Kill(a) \/ HeadBreaks(a)
  BY <1>3, <1>8 DEF Kill
<1>9. \/ UNCHANGED conns
      \/ \E d \in Devices : Kill(d) \/ CompletePairing(d) \/ SendFramed(d) \/ Connect(d)
      \/ \E b \in Displayers : \E n \in 1..Backlog : Break(b, n)
  BY OtherFrame DEF Next, Step, vars, Launch, Wipe, LoadIdentity, CreateIdentity, WriteIdentity,
       OpenQR, WriteQR, Listen, Accept, Scan, SaveRecord
<1>10. UNCHANGED conns => HeadStays(a)
  BY DEF HeadStays
<1> QED BY <1>2, <1>4, <1>5, <1>6, <1>7, <1>8, <1>9, <1>10

\* That connection is lost by its own doing.
Broken(a, b) == Lost(a, b)' /\ (UNCHANGED pc \/ pc'[b] \in {"failed", "killed"})

LEMMA FirstStep ==
  ASSUME PairingInv, PairingInv', [Next]_vars, NEW a \in Displayers, NEW b \in Scanners, First(a, b)
  PROVE  \/ First(a, b)'
         \/ /\ FirstSent(a, b)' /\ Head(conns'[a]).message.x25519_pub = Me(b)
            /\ pc'[b] = "save" /\ peer'[b].key = Me(a)
         \/ Broken(a, b) \/ pc'[a] = "killed"
<1>1. /\ conns[a] # <<>> /\ Head(conns[a]).from = b /\ Head(conns[a]).state = "open"
      /\ peer[b].key = Me(a) /\ a \in Devices /\ b \in Devices
  BY DEF First, Devices
<1>2. 1 \in 1..Len(conns[a]) /\ Head(conns[a]) = conns[a][1]
  BY <1>1 DEF PairingInv, PairingTypeOK
<1>3. pc[b] = "send" /\ Head(conns[a]).message = Response(Me(b), Me(a))
  BY <1>1, <1>2 DEF PairingInv, OpenIsSending
<1>4. Me(a)' = Me(a)
  BY <1>1, HeadStep DEF Me
<1>5. CASE HeadStays(a)
  <2>1. 1 \in 1..Len(conns'[a]) /\ Head(conns'[a]) = conns'[a][1] /\ conns'[a] # <<>>
    BY <1>5 DEF HeadStays, PairingInv, PairingTypeOK
  <2>2. Head(conns'[a]).message = Response(Me(b)', peer'[b].key)
    BY <1>1, <1>5, <2>1 DEF HeadStays, PairingInv, OpenIsSending
  <2>3. peer'[b].key = Me(a)
    BY <1>3, <1>5, <2>2, ResponseNames DEF HeadStays
  <2> QED BY <1>1, <1>4, <1>5, <2>1, <2>3 DEF HeadStays, First
<1>6. Kill(a) => pc'[a] = "killed"
  BY <1>1 DEF Kill, End, Goto, PairingInv, PairingTypeOK
<1>7. ~CompletePairing(a)
  BY <1>1 DEF CompletePairing
<1>8. CASE SendFramed(b) /\ Goto(b, "save") /\ HeadBecomes(a, "sent")
  <2>1. UNCHANGED <<mem, peer>>
    BY <1>8 DEF SendFramed
  <2>2. pc'[b] = "save"
    BY <1>1, <1>8 DEF Goto, PairingInv, PairingTypeOK
  <2> DEFINE m == Response(Me(b), Me(a))
  <2>3. m.x25519_pub = Me(b)
    BY OwnResponseCompletes
  <2>4. Head(conns'[a]) = [from |-> b, state |-> "sent", message |-> m] /\ conns'[a] # <<>>
    BY <1>1, <1>3, <1>8 DEF HeadBecomes
  <2>5. m = Response(m.x25519_pub, Me(a)')
    BY <1>4, <2>3
  <2> HIDE DEF m
  <2> QED BY <1>1, <2>1, <2>2, <2>3, <2>4, <2>5 DEF FirstSent
<1>9. CASE HeadBreaks(a)
  BY <1>1, <1>9 DEF HeadBreaks, Broken, Lost
<1> QED BY <1>1, <1>5, <1>6, <1>7, <1>8, <1>9, HeadStep DEF HeadOpenFrom

LEMMA FirstSentStep ==
  ASSUME PairingInv, [Next]_vars, NEW a \in Displayers, NEW b \in Scanners, FirstSent(a, b)
  PROVE  \/ FirstSent(a, b)' /\ Head(conns'[a]) = Head(conns[a])
         \/ pc'[a] = "save" /\ peer'[a].key = Head(conns[a]).message.x25519_pub
         \/ Lost(a, b)' /\ UNCHANGED pc
         \/ pc'[a] = "killed"
<1> DEFINE m == Head(conns[a]).message
<1>1. /\ conns[a] # <<>> /\ Head(conns[a]).from = b /\ Head(conns[a]).state = "sent"
      /\ m = Response(m.x25519_pub, Me(a)) /\ a \in Devices /\ PairingTypeOK
  BY DEF FirstSent, Devices, PairingInv
<1>2. Me(a)' = Me(a)
  BY <1>1, HeadStep DEF Me
<1>3. CASE HeadStays(a)
  BY <1>1, <1>2, <1>3 DEF HeadStays, FirstSent
<1>4. CASE Kill(a)
  BY <1>1, <1>4 DEF Kill, End, Goto, PairingTypeOK
<1>5. CASE CompletePairing(a)
  <2>1. Completes(Me(a), m) /\ m.ciphertext.plaintext = m.x25519_pub
    BY <1>1, OwnResponseCompletes
  <2>2. /\ peer' = [peer EXCEPT ![a] = Record(Me(a), m.x25519_pub)]
        /\ End(a, "save")
    BY <1>1, <1>5, <2>1 DEF CompletePairing
  <2>3. peer'[a].key = m.x25519_pub /\ pc'[a] = "save"
    BY <1>1, <2>2 DEF Record, End, Goto, PairingTypeOK
  <2> QED BY <2>3
<1>6. ~ \E d \in Devices : HeadOpenFrom(a, d)
  BY <1>1 DEF HeadOpenFrom
<1>7. CASE HeadBreaks(a)
  BY <1>1, <1>7 DEF HeadBreaks, Lost
<1> QED BY <1>1, <1>3, <1>4, <1>5, <1>6, <1>7, HeadStep

\* The first to connect after scanning keeps its place, and both go on to save
\* each other's present key, unless the network drops that very connection, the
\* scanner fails or is killed while it sends, or the displayer is killed: the
\* safety half of FirstIsPaired.
\* (accept, recv_framed and complete_pairing; connect and send_framed)
THEOREM FirstIsNeverLost == Spec => FirstIsKept
<1>1. PairingInv /\ PairingInv' /\ [Next]_vars =>
        \A a \in Displayers, b \in Scanners :
          /\ First(a, b) =>
               \/ First(a, b)'
               \/ /\ FirstSent(a, b)' /\ Head(conns'[a]).message.x25519_pub = Me(b)
                  /\ pc'[b] = "save" /\ peer'[b].key = Me(a)
               \/ Broken(a, b) \/ pc'[a] = "killed"
          /\ FirstSent(a, b) =>
               \/ FirstSent(a, b)' /\ Head(conns'[a]) = Head(conns[a])
               \/ pc'[a] = "save" /\ peer'[a].key = Head(conns[a]).message.x25519_pub
               \/ Lost(a, b)' /\ UNCHANGED pc
               \/ pc'[a] = "killed"
  BY FirstStep, FirstSentStep
<1> QED BY <1>1, PairingInvariance, PTL DEF Spec, FirstIsKept, Broken

=============================================================================
