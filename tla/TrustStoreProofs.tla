--------------------------- MODULE TrustStoreProofs ---------------------------
(***************************************************************************)
(* Proofs that the trust store is atomic until two processes mean to write *)
(* at once, for any number of processes, peers and saves, and that it is   *)
(* the abstract store while one process pairs.                             *)
(***************************************************************************)
EXTENDS TrustStoreProps, FiniteSetTheorems, TLAPS

(***************************************************************************)
(* Documents and their blocks                                              *)
(***************************************************************************)
LEMMA NobodyType == Nobody \in Dict
BY StoreBound DEF Nobody, Dict

LEMMA BlocksType ==
  ASSUME NEW d \in Dict
  PROVE  Blocks(d) \in Nat /\ Blocks(d) >= 1
<1> DEFINE present == {q \in Peers : d[q] # 0}
<1>1. IsFiniteSet(present)
  BY StorePeers, FS_Subset
<1>2. Cardinality(present) \in Nat
  BY <1>1, FS_CardinalityType
<1> QED BY <1>2 DEF Blocks

\* Reading back what was written.
LEMMA CompleteParses ==
  ASSUME NEW d \in Dict
  PROVE  Complete(d) \in Seq(Block) /\ Parses(Complete(d)) /\ Parsed(Complete(d)) = d
<1>1. Blocks(d) \in Nat /\ Blocks(d) >= 1
  BY BlocksType
<1>2. Complete(d) \in Seq(Block) /\ Len(Complete(d)) = Blocks(d)
  BY <1>1 DEF Complete, Block
<1>3. Complete(d)[1] = <<d, 1>>
  BY <1>1 DEF Complete
<1>4. Complete(d) # <<>>
  BY <1>1, <1>2
<1> QED BY <1>2, <1>3, <1>4 DEF Parses, Parsed

LEMMA ParsedType ==
  ASSUME NEW s \in Seq(Block), Parses(s)
  PROVE  Parsed(s) \in Dict
<1>1. s # <<>> /\ Len(s) >= 1
  BY DEF Parses
<1>2. s[1] \in Block
  BY <1>1
<1> QED BY <1>2 DEF Parsed, Block

LEMMA WriteAtType ==
  ASSUME NEW s \in Seq(Block), NEW k \in Nat, k >= 1, NEW b \in Block
  PROVE  WriteAt(s, k, b) \in Seq(Block)
<1> DEFINE n == IF k > Len(s) THEN k ELSE Len(s)
<1>1. n \in Nat
  OBVIOUS
<1>2. Hole \in Block
  BY NobodyType DEF Hole, Block
<1>3. \A j \in 1..n : (IF j = k THEN b ELSE IF j <= Len(s) THEN s[j] ELSE Hole) \in Block
  BY <1>2
<1> QED BY <1>1, <1>3 DEF WriteAt

\* One more block of a document that so far was written from its beginning.
LEMMA WriteNext ==
  ASSUME NEW d, NEW k \in Nat
  PROVE  WriteAt([j \in 1..k |-> <<d, j>>], k + 1, <<d, k + 1>>) = [j \in 1..(k + 1) |-> <<d, j>>]
<1> DEFINE s == [j \in 1..k |-> <<d, j>>]
<1>1. Len(s) = k
  OBVIOUS
<1> HIDE DEF s
<1>2. WriteAt(s, k + 1, <<d, k + 1>>) =
        [j \in 1..(k + 1) |-> IF j = k + 1 THEN <<d, k + 1>> ELSE s[j]]
  BY <1>1 DEF WriteAt
<1>3. \A j \in 1..(k + 1) : (IF j = k + 1 THEN <<d, k + 1>> ELSE s[j]) = <<d, j>>
  BY DEF s
<1>4. [j \in 1..(k + 1) |-> IF j = k + 1 THEN <<d, k + 1>> ELSE s[j]] = [j \in 1..(k + 1) |-> <<d, j>>]
  BY <1>3
<1> QED BY <1>2, <1>4 DEF s

(***************************************************************************)
(* Types                                                                   *)
(***************************************************************************)
LEMMA InitStoreType == Init => StoreTypeOK /\ StoreReady
<1> SUFFICES ASSUME Init PROVE StoreTypeOK /\ StoreReady
  OBVIOUS
<1>1. Nobody \in Dict /\ Complete(Nobody) \in Seq(Block) /\ <<>> \in Seq(Block)
  BY NobodyType, CompleteParses
<1>2. PICK i \in Inodes :
        /\ dir = [path |-> IF Created THEN i ELSE NoFile, tmp |-> NoFile]
        /\ data = [j \in Inodes |-> IF Created /\ j = i THEN Complete(Nobody) ELSE <<>>]
  BY DEF Init
<1>3. data \in [Inodes -> Seq(Block)]
  BY <1>1, <1>2
<1>4. dir \in [path : Inodes \cup {NoFile}, tmp : Inodes \cup {NoFile}]
  BY <1>2
<1>5. clock \in 0..MaxSaves
  BY StoreBound DEF Init
<1>9. overlap \in BOOLEAN
  <2>1. overlap = FALSE
    BY Zenon DEF Init
  <2> QED BY <2>1
<1>6. /\ pc \in [Procs -> {"idle", "exists", "ready", "open", "write", "replace", "failed"}]
      /\ job \in [Procs -> {"init", "save"}]
      /\ pos \in [Procs -> Nat] /\ fd \in [Procs -> Inodes \cup {NoFile}]
  BY DEF Init
<1>7. doc \in [Procs -> Dict] /\ seen \in [Readers -> Dict]
  BY <1>1 DEF Init
<1>8. \A p \in Procs : pc[p] # "ready"
  BY DEF Init
<1> QED BY <1>3, <1>4, <1>5, <1>6, <1>7, <1>8, <1>9 DEF StoreTypeOK, StoreReady

LEMMA NextStoreType ==
  ASSUME StoreTypeOK, StoreReady, [Next]_vars
  PROVE  StoreTypeOK' /\ StoreReady'
<1> USE DEF StoreTypeOK, StoreReady
<1> DEFINE Good == StoreTypeOK' /\ StoreReady'
<1>1. ASSUME NEW p \in Procs, Start(p) PROVE Good
  BY <1>1 DEF Start, Goto
<1>2. ASSUME NEW p \in Procs, CheckExists(p) PROVE Good
  <2>1. CASE Goto(p, "ready") /\ dir.path # NoFile /\ UNCHANGED <<job, doc, overlap>>
    BY <1>2, <2>1 DEF CheckExists, Goto
  <2>2. CASE MeansToWrite(p, "init", Nobody)
    BY <1>2, <2>2, NobodyType DEF CheckExists, Goto, MeansToWrite
  <2> QED BY <1>2, <2>1, <2>2 DEF CheckExists
<1>3. ASSUME NEW p \in Procs, ReadForSave(p) PROVE Good
  <2>1. CASE UNCHANGED <<clock, doc, job, overlap>> /\ Goto(p, "failed")
    BY <1>3, <2>1 DEF ReadForSave, Goto
  <2>2. ASSUME NEW q \in Peers, Parses(data[dir.path]), clock' = clock + 1,
               MeansToWrite(p, "save", [Parsed(data[dir.path]) EXCEPT ![q] = clock + 1])
        PROVE  Good
    <3>1. clock' \in 0..MaxSaves
      BY <1>3, <2>2, StoreBound DEF ReadForSave
    <3>2. data[dir.path] \in Seq(Block)
      BY <1>3 DEF ReadForSave
    <3>3. Parsed(data[dir.path]) \in Dict
      BY <2>2, <3>2, ParsedType
    <3> DEFINE d == [Parsed(data[dir.path]) EXCEPT ![q] = clock + 1]
    <3>4. d \in Dict
      BY <2>2, <3>1, <3>3 DEF Dict
    <3>5. MeansToWrite(p, "save", d)
      BY <2>2
    <3> HIDE DEF d
    <3> QED BY <1>3, <3>1, <3>4, <3>5 DEF ReadForSave, Goto, MeansToWrite
  <2> QED BY <1>3, <2>1, <2>2 DEF ReadForSave
<1>4. ASSUME NEW p \in Procs, OpenTmp(p) PROVE Good
  <2>1. PICK i \in Inodes :
          /\ dir' = [path |-> dir.path, tmp |-> i]
          /\ data' = [data EXCEPT ![i] = <<>>]
          /\ fd' = [fd EXCEPT ![p] = i]
    BY <1>4 DEF OpenTmp, FreeInodes
  <2>2. data' \in [Inodes -> Seq(Block)]
    <3>1. <<>> \in Seq(Block)
      OBVIOUS
    <3> QED BY <2>1, <3>1
  <2>3. dir' \in [path : Inodes \cup {NoFile}, tmp : Inodes \cup {NoFile}] /\ dir'.path = dir.path
    BY <2>1
  <2> QED BY <1>4, <2>1, <2>2, <2>3 DEF OpenTmp, Goto
<1>5. ASSUME NEW p \in Procs, WriteBlock(p) PROVE Good
  <2> DEFINE k == pos[p] + 1
  <2>1. k \in Nat /\ k >= 1 /\ <<doc[p], k>> \in Block
    BY DEF Block
  <2>2. fd[p] \in Inodes => WriteAt(data[fd[p]], k, <<doc[p], k>>) \in Seq(Block)
    BY <2>1, WriteAtType
  <2>3. data' = [data EXCEPT ![fd[p]] = WriteAt(data[fd[p]], k, <<doc[p], k>>)]
    BY <1>5 DEF WriteBlock
  <2>4. pos' = [pos EXCEPT ![p] = k]
    BY <1>5 DEF WriteBlock
  <2> HIDE DEF k
  <2>5. data' \in [Inodes -> Seq(Block)]
    BY <2>2, <2>3
  <2> QED BY <1>5, <2>1, <2>4, <2>5 DEF WriteBlock, Goto
<1>6. ASSUME NEW p \in Procs, Replace(p) PROVE Good
  <2>1. CASE dir.tmp # NoFile /\ dir' = [path |-> dir.tmp, tmp |-> NoFile]
             /\ Goto(p, IF job[p] = "init" THEN "ready" ELSE "idle")
    <3>1. dir' \in [path : Inodes \cup {NoFile}, tmp : Inodes \cup {NoFile}] /\ dir'.path # NoFile
      BY <2>1
    <3> QED BY <1>6, <2>1, <3>1 DEF Replace, Goto
  <2>2. CASE UNCHANGED dir /\ Goto(p, "failed")
    BY <1>6, <2>2 DEF Replace, Goto
  <2> QED BY <1>6, <2>1, <2>2 DEF Replace
<1>7. ASSUME NEW p \in Procs, Read(p) PROVE Good
  <2>1. CASE UNCHANGED seen /\ Goto(p, "failed")
    BY <1>7, <2>1 DEF Read, Goto
  <2>2. CASE Parses(data[dir.path]) /\ seen' = [seen EXCEPT ![p] = Parsed(data[dir.path])] /\ UNCHANGED pc
    <3>1. data[dir.path] \in Seq(Block)
      BY <1>7 DEF Read
    <3>2. Parsed(data[dir.path]) \in Dict
      BY <2>2, <3>1, ParsedType
    <3> QED BY <1>7, <2>2, <3>2 DEF Read
  <2> QED BY <1>7, <2>1, <2>2 DEF Read
<1>8. ASSUME NEW p \in Procs, Stop(p) PROVE Good
  BY <1>8 DEF Stop, Goto
<1>9. CASE UNCHANGED vars
  BY <1>9 DEF vars
<1> QED BY <1>1, <1>2, <1>3, <1>4, <1>5, <1>6, <1>7, <1>8, <1>9 DEF Next, Step

(***************************************************************************)
(* One writer at a time                                                    *)
(***************************************************************************)
LEMMA StoredType ==
  ASSUME StoreTypeOK
  PROVE  Stored \in Dict
<1>1. CASE dir.path # NoFile /\ Parses(data[dir.path])
  <2>1. dir.path \in Inodes
    BY <1>1 DEF StoreTypeOK
  <2>2. data[dir.path] \in Seq(Block)
    BY <2>1 DEF StoreTypeOK
  <2> QED BY <1>1, <2>2, ParsedType DEF Stored
<1>2. CASE ~(dir.path # NoFile /\ Parses(data[dir.path]))
  BY <1>2, NobodyType DEF Stored
<1> QED BY <1>1, <1>2

\* What a step does that leaves the files alone and no new writer behind.
LEMMA CalmStep ==
  ASSUME StoreTypeOK, StoreReady, StoreSound, NEW p \in Procs, NEW l,
         UNCHANGED <<dir, data, job, doc, fd, pos, clock>>,
         pc' = [pc EXCEPT ![p] = l], l \notin {"open", "write", "replace"}
  PROVE  StoreSound' /\ Stored' = Stored
<1>1. Stored' = Stored
  BY DEF Stored
<1>2. \A o \in Procs : Writing(o)' => Writing(o) /\ pc'[o] = pc[o]
  BY DEF Writing, StoreTypeOK
<1>3. \A o \in Procs : Intends(o)' = Intends(o)
  BY <1>1 DEF Intends
<1>4. \A o \in Procs : pc'[o] = pc[o] => Progressed(o)' = Progressed(o)
  BY DEF Progressed
<1>5. \A o \in Procs : Writing(o)' => Intends(o)' /\ Progressed(o)'
  BY <1>2, <1>3, <1>4 DEF StoreSound
<1>6. (\A q \in Peers : Stored[q] <= clock)'
  BY <1>1 DEF StoreSound
<1>7. (dir.path # NoFile => Parses(data[dir.path]) /\ dir.path # dir.tmp)'
  BY DEF StoreSound
<1>8. (\A o, e \in Procs : Writing(o) /\ Writing(e) => o = e)'
  BY <1>2 DEF StoreSound
<1> QED BY <1>1, <1>5, <1>6, <1>7, <1>8 DEF StoreSound

\* A process that means to write is the only one, while there is no overlap.
LEMMA MeansToWriteAlone ==
  ASSUME StoreTypeOK, NEW p \in Procs, NEW why, NEW d, MeansToWrite(p, why, d), ~overlap'
  PROVE  \A o \in Procs : Writing(o)' => o = p
<1>1. \A o \in Procs \ {p} : ~Writing(o)
  BY Zenon DEF MeansToWrite
<1>2. \A o \in Procs \ {p} : pc'[o] = pc[o]
  BY DEF MeansToWrite, Goto, StoreTypeOK
<1> QED BY <1>1, <1>2 DEF Writing

LEMMA CheckExistsSound ==
  ASSUME StoreTypeOK, StoreReady, StoreSound, NEW p \in Procs, CheckExists(p), ~overlap'
  PROVE  StoreSound' /\ Stored' = Stored
<1>1. CASE Goto(p, "ready") /\ UNCHANGED <<job, doc>>
  BY <1>1, CalmStep DEF CheckExists, Goto
<1>2. CASE dir.path = NoFile /\ MeansToWrite(p, "init", Nobody)
  <2>1. UNCHANGED <<dir, data, clock>> /\ Stored' = Stored
    BY <1>2 DEF CheckExists, Stored
  <2>2. \A o \in Procs : Writing(o)' => o = p
    BY <1>2, MeansToWriteAlone
  <2>3. job'[p] = "init" /\ doc'[p] = Nobody /\ pc'[p] = "open"
    BY <1>2 DEF MeansToWrite, Goto, StoreTypeOK
  <2>4. Intends(p)' /\ Progressed(p)'
    BY <1>2, <2>1, <2>3 DEF Intends, Progressed
  <2> QED BY <2>1, <2>2, <2>4 DEF StoreSound
<1> QED BY <1>1, <1>2 DEF CheckExists

LEMMA ReadForSaveSound ==
  ASSUME StoreTypeOK, StoreReady, StoreSound, NEW p \in Procs, ReadForSave(p), ~overlap'
  PROVE  StoreSound' /\ Stored' = Stored /\ pc'[p] # "failed"
<1>1. dir.path # NoFile /\ Parses(data[dir.path]) /\ Stored = Parsed(data[dir.path])
  BY DEF ReadForSave, StoreReady, StoreSound, Stored
<1>2. PICK q \in Peers : MeansToWrite(p, "save", [Stored EXCEPT ![q] = clock + 1])
  BY <1>1 DEF ReadForSave
<1>3. UNCHANGED <<dir, data>> /\ clock' = clock + 1 /\ Stored' = Stored
  BY <1>1 DEF ReadForSave, Stored
<1>4. Stored \in Dict /\ clock \in Nat
  BY StoredType DEF StoreTypeOK
<1> DEFINE d == [Stored EXCEPT ![q] = clock + 1]
<1>5. d[q] = clock + 1 /\ d = [Stored EXCEPT ![q] = d[q]]
  BY <1>4 DEF Dict
<1>6. MeansToWrite(p, "save", d)
  BY <1>2
<1> HIDE DEF d
<1>7. job'[p] = "save" /\ doc'[p] = d /\ pc'[p] = "open"
  BY <1>6 DEF MeansToWrite, Goto, StoreTypeOK
<1>8. \A o \in Procs : Writing(o)' => o = p
  BY <1>6, MeansToWriteAlone
<1>9. \A x \in Peers : Stored[x] \in Nat /\ Stored[x] <= clock
  BY <1>4, StoreBound DEF StoreSound, Dict
<1>10. Intends(p)' /\ Progressed(p)'
  <2>1. Progressed(p)'
    BY <1>7 DEF Progressed
  <2>2. doc'[p] = [Stored' EXCEPT ![q] = doc'[p][q]] /\ doc'[p][q] > Stored'[q] /\ doc'[p][q] <= clock'
    BY <1>3, <1>4, <1>5, <1>7, <1>9
  <2> QED BY <1>1, <1>3, <1>7, <2>1, <2>2 DEF Intends
<1>11. \A x \in Peers : Stored'[x] <= clock'
  BY <1>3, <1>4, <1>9
<1>12. dir.path # NoFile => Parses(data[dir.path]) /\ dir.path # dir.tmp
  BY DEF StoreSound
<1> QED BY <1>3, <1>7, <1>8, <1>10, <1>11, <1>12 DEF StoreSound

\* What a step does by which a writer goes on without touching the store.
LEMMA WriterStep ==
  ASSUME StoreTypeOK, StoreSound, NEW p \in Procs, Writing(p),
         dir'.path = dir.path, dir'.path # NoFile => dir'.path # dir'.tmp,
         dir.path # NoFile => data'[dir.path] = data[dir.path],
         UNCHANGED <<job, doc, clock>>, \A o \in Procs \ {p} : pc'[o] = pc[o],
         Progressed(p)'
  PROVE  StoreSound' /\ Stored' = Stored
<1>1. Stored' = Stored
  BY DEF Stored
<1>2. \A o \in Procs : Writing(o)' => o = p
  BY DEF StoreSound, Writing
<1>3. Intends(p)'
  <2>1. Intends(p)
    BY DEF StoreSound
  <2> QED BY <1>1, <2>1 DEF Intends
<1>4. (\A q \in Peers : Stored[q] <= clock)'
  BY <1>1 DEF StoreSound
<1>5. (dir.path # NoFile => Parses(data[dir.path]) /\ dir.path # dir.tmp)'
  BY DEF StoreSound
<1> QED BY <1>1, <1>2, <1>3, <1>4, <1>5 DEF StoreSound

LEMMA OpenTmpSound ==
  ASSUME StoreTypeOK, StoreReady, StoreSound, NEW p \in Procs, OpenTmp(p)
  PROVE  StoreSound' /\ Stored' = Stored
<1>1. PICK i \in Inodes :
        /\ dir' = [path |-> dir.path, tmp |-> i]
        /\ data' = [data EXCEPT ![i] = <<>>]
        /\ fd' = [fd EXCEPT ![p] = i]
        /\ i # dir.path \/ dir.path = NoFile
  BY DEF OpenTmp, FreeInodes, StoreTypeOK, StoreSound
<1>2. dir'.path = dir.path /\ dir'.tmp = i /\ i # NoFile /\ data'[i] = <<>>
  BY <1>1, StoreInodes DEF StoreTypeOK
<1>3. dir.path # NoFile => dir.path \in Inodes /\ data'[dir.path] = data[dir.path]
  BY <1>1 DEF StoreTypeOK
<1>4. Writing(p)
  BY DEF OpenTmp, Writing
<1>5. \A o \in Procs \ {p} : pc'[o] = pc[o]
  BY DEF OpenTmp, Goto, StoreTypeOK
<1>6. pc'[p] = "write" /\ pos'[p] = 0 /\ fd'[p] = i /\ UNCHANGED <<job, doc, clock>>
  BY <1>1 DEF OpenTmp, Goto, StoreTypeOK
<1>7. Progressed(p)'
  <2>1. doc[p] \in Dict
    BY DEF StoreTypeOK
  <2>2. pos'[p] < Blocks(doc'[p])
    BY <1>6, <2>1, BlocksType
  <2>3. data'[dir'.tmp] = [k \in 1..pos'[p] |-> <<doc'[p], k>>]
    BY <1>2, <1>6
  <2> QED BY <1>2, <1>6, <2>2, <2>3 DEF Progressed
<1>8. dir'.path # NoFile => dir'.path # dir'.tmp
  BY <1>1, <1>2
<1> QED BY <1>2, <1>3, <1>4, <1>5, <1>6, <1>7, <1>8, WriterStep

LEMMA WriteBlockSound ==
  ASSUME StoreTypeOK, StoreReady, StoreSound, NEW p \in Procs, WriteBlock(p)
  PROVE  StoreSound' /\ Stored' = Stored
<1> DEFINE k == pos[p] + 1
           i == dir.tmp
<1>1. pc[p] = "write" /\ Writing(p) /\ Progressed(p)
  BY DEF WriteBlock, Writing, StoreSound
<1>2. /\ i # NoFile /\ i \in Inodes /\ fd[p] = i /\ pos[p] \in Nat
      /\ pos[p] < Blocks(doc[p]) /\ data[i] = [j \in 1..pos[p] |-> <<doc[p], j>>]
  BY <1>1 DEF Progressed, StoreTypeOK
<1>3. data'[i] = [j \in 1..k |-> <<doc[p], j>>]
  <2>1. data'[i] = WriteAt(data[i], k, <<doc[p], k>>)
    BY <1>2 DEF WriteBlock, StoreTypeOK
  <2> QED BY <1>2, <2>1, WriteNext
<1>4. \A j \in Inodes \ {i} : data'[j] = data[j]
  BY <1>2 DEF WriteBlock, StoreTypeOK
<1>5. /\ pos'[p] = k /\ UNCHANGED <<dir, job, doc, fd, clock>>
      /\ pc'[p] = IF k = Blocks(doc[p]) THEN "replace" ELSE "write"
      /\ \A o \in Procs \ {p} : pc'[o] = pc[o]
  BY DEF WriteBlock, Goto, StoreTypeOK
<1>6. doc[p] \in Dict /\ Blocks(doc[p]) \in Nat
  BY BlocksType DEF StoreTypeOK
<1>7. Progressed(p)'
  <2>1. CASE k = Blocks(doc[p])
    <3>1. data'[i] = Complete(doc[p])
      BY <1>3, <2>1 DEF Complete
    <3> QED BY <1>2, <1>5, <2>1, <3>1 DEF Progressed
  <2>2. CASE k # Blocks(doc[p])
    <3>1. k < Blocks(doc[p])
      BY <1>2, <1>6, <2>2
    <3> QED BY <1>2, <1>3, <1>5, <2>2, <3>1 DEF Progressed
  <2> QED BY <2>1, <2>2
<1>8. dir.path # NoFile => dir.path # i /\ data'[dir.path] = data[dir.path]
  <2>1. dir.path # NoFile => dir.path \in Inodes /\ dir.path # i
    BY DEF StoreSound, StoreTypeOK
  <2> QED BY <1>4, <2>1
<1> QED BY <1>1, <1>5, <1>7, <1>8, WriterStep

\* os.replace is the moment at which a save takes effect.
LEMMA ReplaceSound ==
  ASSUME StoreTypeOK, StoreReady, StoreSound, NEW p \in Procs, Replace(p)
  PROVE  /\ StoreSound' /\ pc'[p] # "failed" /\ dir'.path # NoFile
         /\ \/ Stored' = Stored
            \/ \E q \in Peers : doc[p][q] \in 1..MaxSaves /\ doc[p][q] > Stored[q]
                               /\ Stored' = [Stored EXCEPT ![q] = doc[p][q]]
<1> DEFINE i == dir.tmp
<1>1. pc[p] = "replace" /\ Writing(p) /\ Progressed(p) /\ Intends(p)
  BY DEF Replace, Writing, StoreSound
<1>2. i # NoFile /\ i \in Inodes /\ data[i] = Complete(doc[p]) /\ doc[p] \in Dict
  BY <1>1 DEF Progressed, StoreTypeOK
<1>3. /\ dir' = [path |-> i, tmp |-> NoFile] /\ UNCHANGED <<data, job, doc, clock>>
      /\ pc' = [pc EXCEPT ![p] = IF job[p] = "init" THEN "ready" ELSE "idle"]
  BY <1>2 DEF Replace, Goto
<1>4. dir'.path = i /\ dir'.tmp = NoFile
  BY <1>3
<1>5. Parses(data'[i]) /\ Parsed(data'[i]) = doc[p]
  BY <1>2, <1>3, CompleteParses
<1>6. Stored' = doc[p]
  BY <1>2, <1>4, <1>5 DEF Stored
<1>7. Stored \in Dict
  BY StoredType
<1>8. \/ Stored' = Stored
      \/ \E q \in Peers : doc[p][q] > Stored[q] /\ doc[p][q] <= clock
                         /\ doc[p] = [Stored EXCEPT ![q] = doc[p][q]]
  BY <1>1, <1>6 DEF Intends, Stored
<1>9. \A q \in Peers : doc[p][q] \in 0..MaxSaves /\ Stored[q] \in 0..MaxSaves /\ Stored[q] <= clock
  BY <1>2, <1>7 DEF Dict, StoreSound
<1>10. \A q \in Peers : Stored'[q] <= clock'
  BY <1>3, <1>6, <1>7, <1>8, <1>9 DEF Dict
<1>11. \A o \in Procs : ~Writing(o)'
  <2>1. pc'[p] \in {"ready", "idle"} /\ \A o \in Procs \ {p} : pc'[o] = pc[o]
    BY <1>3 DEF StoreTypeOK
  <2>2. \A o \in Procs \ {p} : ~Writing(o)
    BY <1>1 DEF StoreSound
  <2> QED BY <2>1, <2>2 DEF Writing
<1>12. StoreSound'
  BY <1>2, <1>4, <1>5, <1>10, <1>11 DEF StoreSound
<1>13. pc'[p] # "failed"
  BY <1>3 DEF StoreTypeOK
<1>14. \/ Stored' = Stored
       \/ \E q \in Peers : doc[p][q] \in 1..MaxSaves /\ doc[p][q] > Stored[q]
                          /\ Stored' = [Stored EXCEPT ![q] = doc[p][q]]
  <2>1. CASE Stored' = Stored
    BY <2>1
  <2>2. ASSUME NEW q \in Peers, doc[p][q] > Stored[q], doc[p] = [Stored EXCEPT ![q] = doc[p][q]]
        PROVE  doc[p][q] \in 1..MaxSaves /\ Stored' = [Stored EXCEPT ![q] = doc[p][q]]
    BY <1>6, <1>9, <2>2, StoreBound
  <2> QED BY <1>8, <2>1, <2>2
<1> QED BY <1>2, <1>4, <1>12, <1>13, <1>14

(***************************************************************************)
(* The theorems                                                            *)
(***************************************************************************)
LEMMA InitStoreInv == Init => StoreInv /\ PR!Init
<1> SUFFICES ASSUME Init PROVE StoreInv /\ PR!Init
  OBVIOUS
<1>1. StoreTypeOK /\ StoreReady
  BY InitStoreType
<1>2. PICK i \in Inodes :
        /\ dir = [path |-> IF Created THEN i ELSE NoFile, tmp |-> NoFile]
        /\ data = [j \in Inodes |-> IF Created /\ j = i THEN Complete(Nobody) ELSE <<>>]
  BY DEF Init
<1>3. Nobody \in Dict /\ Parses(Complete(Nobody)) /\ Parsed(Complete(Nobody)) = Nobody
  BY NobodyType, CompleteParses
<1>4. dir.path # NoFile => dir.path = i /\ data[i] = Complete(Nobody)
  BY <1>2
<1>5. Stored = Nobody
  BY <1>3, <1>4 DEF Stored
<1>6. \A p \in Procs : pc[p] = "idle"
  BY DEF Init
<1>7. StoreSound
  <2>1. \A q \in Peers : Stored[q] <= clock
    BY <1>5 DEF Nobody, Init
  <2>2. dir.path # NoFile => Parses(data[dir.path]) /\ dir.path # dir.tmp
    BY <1>2, <1>3, <1>4
  <2> QED BY <1>6, <2>1, <2>2 DEF StoreSound, Writing
<1>8. PR!Init
  BY <1>5 DEF Init, Nobody, PR!Init
<1>9. SeenIsPast
  BY <1>5 DEF Init, Nobody, SeenIsPast
<1> QED BY <1>1, <1>6, <1>7, <1>8, <1>9 DEF StoreInv, NobodyFailsAlone

\* No step takes an overlap back.
LEMMA OverlapStays ==
  ASSUME [Next]_vars, ~overlap'
  PROVE  ~overlap
<1>1. \A p \in Procs : \A why, d : MeansToWrite(p, why, d) => ~overlap
  BY Zenon DEF MeansToWrite
<1>2. (\E p \in Procs : \E why, d : MeansToWrite(p, why, d)) \/ UNCHANGED overlap
  BY DEF Next, Step, Start, CheckExists, ReadForSave, OpenTmp, WriteBlock, Replace, Read, Stop, vars
<1> QED BY <1>1, <1>2

\* A step of the abstract store forgets no peer, and no reader looks back.
LEMMA AbstractKeeps ==
  ASSUME Stored \in Dict, seen \in [Readers -> Dict], SeenIsPast, [PR!Next]_<<Stored, seen>>
  PROVE  /\ \A q \in Peers : Stored[q] <= Stored'[q]
         /\ \A r \in Readers, q \in Peers : seen[r][q] <= seen'[r][q]
         /\ SeenIsPast'
<1>1. /\ \A q \in Peers : Stored[q] \in Nat
      /\ \A r \in Readers, q \in Peers : seen[r][q] \in Nat /\ seen[r][q] <= Stored[q]
  BY StoreBound DEF Dict, SeenIsPast
<1>2. ASSUME NEW q \in Peers, NEW t \in 1..MaxSaves, PR!SavePeer(q, t)
      PROVE  /\ \A o \in Peers : Stored[o] <= Stored'[o] /\ Stored'[o] \in Nat
             /\ UNCHANGED seen
  BY <1>1, <1>2, StoreBound DEF PR!SavePeer, Dict
<1>3. ASSUME NEW r \in Readers, PR!Read(r)
      PROVE  /\ \A e \in Readers : seen'[e] = seen[e] \/ seen'[e] = Stored
             /\ UNCHANGED Stored
  BY <1>3 DEF PR!Read
<1>4. \/ /\ \A o \in Peers : Stored[o] <= Stored'[o] /\ Stored'[o] \in Nat
         /\ UNCHANGED seen
      \/ /\ \A e \in Readers : seen'[e] = seen[e] \/ seen'[e] = Stored
         /\ UNCHANGED Stored
      \/ UNCHANGED <<Stored, seen>>
  BY <1>2, <1>3 DEF PR!Next
<1> HIDE DEF Stored
<1> QED BY <1>1, <1>4 DEF SeenIsPast

LEMMA StoreStep ==
  ASSUME StoreInv, [Next]_vars
  PROVE  StoreInv' /\ (~overlap' => [PR!Next]_<<Stored, seen>>)
<1>0. StoreTypeOK /\ StoreReady /\ StoreTypeOK' /\ StoreReady'
  BY NextStoreType DEF StoreInv
<1> SUFFICES ASSUME ~overlap'
             PROVE  /\ StoreSound' /\ SeenIsPast' /\ \A p \in Procs : pc'[p] # "failed"
                    /\ [PR!Next]_<<Stored, seen>>
  BY <1>0 DEF StoreInv, NobodyFailsAlone
<1>a. StoreSound /\ SeenIsPast /\ \A p \in Procs : pc[p] # "failed"
  BY OverlapStays DEF StoreInv, NobodyFailsAlone
<1> DEFINE Good == /\ StoreSound' /\ \A p \in Procs : pc'[p] # "failed"
                   /\ [PR!Next]_<<Stored, seen>>
<1>1. ASSUME NEW p \in Procs, Start(p) PROVE Good
  <2>1. StoreSound' /\ Stored' = Stored
    BY <1>0, <1>a, <1>1, CalmStep DEF Start, Goto
  <2>2. \A o \in Procs : pc'[o] # "failed"
    BY <1>0, <1>a, <1>1 DEF Start, Goto, StoreTypeOK
  <2> QED BY <1>1, <2>1, <2>2 DEF Start
<1>2. ASSUME NEW p \in Procs, CheckExists(p) PROVE Good
  <2>1. StoreSound' /\ Stored' = Stored
    BY <1>0, <1>a, <1>2, CheckExistsSound
  <2>2. \A o \in Procs : pc'[o] # "failed"
    BY <1>0, <1>a, <1>2 DEF CheckExists, MeansToWrite, Goto, StoreTypeOK
  <2> QED BY <1>2, <2>1, <2>2 DEF CheckExists
<1>3. ASSUME NEW p \in Procs, ReadForSave(p) PROVE Good
  <2>1. StoreSound' /\ Stored' = Stored /\ pc'[p] # "failed"
    BY <1>0, <1>a, <1>3, ReadForSaveSound
  <2>2. \A o \in Procs \ {p} : pc'[o] = pc[o]
    BY <1>0, <1>3 DEF ReadForSave, MeansToWrite, Goto, StoreTypeOK
  <2> QED BY <1>a, <1>3, <2>1, <2>2 DEF ReadForSave
<1>4. ASSUME NEW p \in Procs, OpenTmp(p) PROVE Good
  <2>1. StoreSound' /\ Stored' = Stored
    BY <1>0, <1>a, <1>4, OpenTmpSound
  <2>2. \A o \in Procs : pc'[o] # "failed"
    BY <1>0, <1>a, <1>4 DEF OpenTmp, Goto, StoreTypeOK
  <2> QED BY <1>4, <2>1, <2>2 DEF OpenTmp
<1>5. ASSUME NEW p \in Procs, WriteBlock(p) PROVE Good
  <2>1. StoreSound' /\ Stored' = Stored
    BY <1>0, <1>a, <1>5, WriteBlockSound
  <2>2. \A o \in Procs : pc'[o] # "failed"
    BY <1>0, <1>a, <1>5 DEF WriteBlock, Goto, StoreTypeOK
  <2> QED BY <1>5, <2>1, <2>2 DEF WriteBlock
<1>6. ASSUME NEW p \in Procs, Replace(p) PROVE Good
  <2>1. /\ StoreSound' /\ pc'[p] # "failed"
        /\ \/ Stored' = Stored
           \/ \E q \in Peers : doc[p][q] \in 1..MaxSaves /\ doc[p][q] > Stored[q]
                              /\ Stored' = [Stored EXCEPT ![q] = doc[p][q]]
    BY <1>0, <1>a, <1>6, ReplaceSound
  <2>2. \A o \in Procs \ {p} : pc'[o] = pc[o]
    BY <1>0, <1>6 DEF Replace, Goto, StoreTypeOK
  <2>3. UNCHANGED seen
    BY <1>6 DEF Replace
  <2>4. [PR!Next]_<<Stored, seen>>
    BY <2>1, <2>3 DEF PR!Next, PR!SavePeer
  <2> QED BY <1>a, <2>1, <2>2, <2>4
<1>7. ASSUME NEW p \in Procs, Read(p) PROVE Good
  <2>1. dir.path # NoFile /\ Parses(data[dir.path]) /\ Stored = Parsed(data[dir.path])
    BY <1>0, <1>a, <1>7 DEF Read, StoreReady, StoreSound, Stored
  <2>2. p \in Readers /\ seen' = [seen EXCEPT ![p] = Stored] /\ UNCHANGED pc
    BY <1>7, <2>1 DEF Read
  <2>3. StoreSound' /\ Stored' = Stored
    <3>1. pc' = [pc EXCEPT ![p] = "ready"]
      BY <1>0, <1>7, <2>2 DEF Read, StoreTypeOK
    <3> QED BY <1>0, <1>a, <1>7, <3>1, CalmStep DEF Read
  <2>4. PR!Read(p)
    BY <2>2, <2>3 DEF PR!Read
  <2> QED BY <1>a, <2>2, <2>3, <2>4 DEF PR!Next
<1>8. ASSUME NEW p \in Procs, Stop(p) PROVE Good
  <2>1. StoreSound' /\ Stored' = Stored
    BY <1>0, <1>a, <1>8, CalmStep DEF Stop, Goto
  <2>2. \A o \in Procs : pc'[o] # "failed"
    BY <1>0, <1>a, <1>8 DEF Stop, Goto, StoreTypeOK
  <2> QED BY <1>8, <2>1, <2>2 DEF Stop
<1>9. ASSUME UNCHANGED vars PROVE Good
  <2>1. Stored' = Stored
    BY <1>9 DEF vars, Stored
  <2>2. StoreSound'
    <3>1. \A p : Writing(p)' = Writing(p)
      BY <1>9 DEF vars, Writing
    <3>2. \A p : Intends(p) /\ Progressed(p) => Intends(p)' /\ Progressed(p)'
      BY <1>9, <2>1 DEF vars, Intends, Progressed
    <3>3. overlap' = overlap /\ clock' = clock /\ dir' = dir /\ data' = data
      BY <1>9 DEF vars
    <3> QED BY <1>a, <2>1, <3>1, <3>2, <3>3 DEF StoreSound
  <2> QED BY <1>a, <1>9, <2>1, <2>2 DEF vars
<1> HIDE DEF Good
<1>10. ASSUME NEW p \in Procs, Step(p) PROVE Good
  BY <1>2, <1>3, <1>4, <1>5, <1>6, <1>7, <1>10 DEF Step
<1>11. ASSUME Next PROVE Good
  BY <1>1, <1>8, <1>10, <1>11 DEF Next
<1>12. Good
  BY <1>9, <1>11
<1>13. Stored \in Dict /\ seen \in [Readers -> Dict]
  BY <1>0, StoredType DEF StoreTypeOK
<1> QED BY <1>a, <1>12, <1>13, AbstractKeeps DEF Good

\* The inductive invariant of the store holds in every state of every run.
THEOREM StoreInvariance == Spec => []StoreInv
<1>1. Init => StoreInv
  BY InitStoreInv
<1>2. StoreInv /\ [Next]_vars => StoreInv'
  BY StoreStep
<1> QED BY <1>1, <1>2, PTL DEF Spec

\* With any number of processes constructing, saving, reading and dying, none
\* fails on the file before two of them meant to write at once.
THEOREM NobodyFails == Spec => []NobodyFailsAlone
<1>1. StoreInv => NobodyFailsAlone
  BY DEF StoreInv
<1> QED BY <1>1, StoreInvariance, PTL

\* ... and until then the store is the abstract one, step by step.
THEOREM Atomicity == Spec => AtomicWithoutOverlap
<1>1. StoreInv /\ [Next]_vars => [~overlap' => [PR!Next]_<<Stored, seen>>]_vars
  BY StoreStep
<1> QED BY <1>1, StoreInvariance, PTL DEF Spec, AtomicWithoutOverlap

\* ... and nobody reads an older record than before.
THEOREM ReadsMonotone == Spec => ReadsNeverGoBack
<1>1. ASSUME StoreInv, [Next]_vars, ~overlap'
      PROVE  \A r \in Readers, q \in Peers : seen[r][q] <= seen'[r][q]
  <2>1. [PR!Next]_<<Stored, seen>> /\ ~overlap
    BY <1>1, StoreStep, OverlapStays
  <2>2. Stored \in Dict /\ seen \in [Readers -> Dict] /\ SeenIsPast
    BY <1>1, <2>1, StoredType DEF StoreInv, StoreTypeOK
  <2> QED BY <2>1, <2>2, AbstractKeeps
<1>2. StoreInv /\ [Next]_vars =>
        [~overlap' => \A r \in Readers, q \in Peers : seen[r][q] <= seen'[r][q]]_vars
  BY <1>1
<1> QED BY <1>2, StoreInvariance, PTL DEF Spec, ReadsNeverGoBack

\* The store exists, and who writes it is a process that pairs.
OneWriter ==
  /\ dir.path # NoFile /\ ~overlap
  /\ \A p \in Procs : Writing(p) => p \in Savers

\* While the store exists and one process pairs, two never mean to write at
\* once.
LEMMA OneWriterInvariance ==
  ASSUME Created = TRUE, \A p, o \in Savers : p = o
  PROVE  Spec => []OneWriter
<1> USE DEF OneWriter
<1>1. Init => OneWriter
  <2> SUFFICES ASSUME Init PROVE OneWriter
    OBVIOUS
  <2>1. PICK i \in Inodes : dir = [path |-> IF Created THEN i ELSE NoFile, tmp |-> NoFile]
    BY DEF Init
  <2>2. dir.path # NoFile
    BY <2>1, StoreInodes
  <2>3. ~overlap
    BY Zenon DEF Init
  <2> QED BY <2>2, <2>3 DEF Init, Writing
<1>2. StoreInv /\ OneWriter /\ [Next]_vars => OneWriter'
  <2> SUFFICES ASSUME StoreInv, OneWriter, [Next]_vars PROVE OneWriter'
    OBVIOUS
  <2>0. StoreTypeOK /\ StoreReady /\ StoreSound
    BY DEF StoreInv
  <2>1. ASSUME NEW p \in Procs, ReadForSave(p) PROVE OneWriter'
    <3>1. \A o \in Procs \ {p} : ~Writing(o)
      BY <2>1 DEF ReadForSave, Writing
    <3>2. p \in Savers /\ dir' = dir
      BY <2>1 DEF ReadForSave
    <3>3. \A o \in Procs \ {p} : pc'[o] = pc[o]
      BY <2>0, <2>1 DEF ReadForSave, MeansToWrite, Goto, StoreTypeOK
    <3>4. ~overlap'
      <4>1. CASE UNCHANGED overlap
        BY <4>1
      <4>2. CASE \E why, d : MeansToWrite(p, why, d)
        BY Zenon, <3>1, <4>2 DEF MeansToWrite
      <4> QED BY <2>1, <4>1, <4>2 DEF ReadForSave
    <3> QED BY <3>1, <3>2, <3>3, <3>4 DEF Writing
  <2>2. ASSUME NEW p \in Procs, Replace(p) PROVE OneWriter'
    <3>1. dir'.path # NoFile
      BY <2>0, <2>2, ReplaceSound
    <3> QED BY <2>0, <2>2, <3>1 DEF Replace, Goto, Writing, StoreTypeOK
  <2>3. ASSUME NEW p \in Procs, OpenTmp(p) PROVE OneWriter'
    <3>1. dir'.path = dir.path
      BY <2>3 DEF OpenTmp
    <3> QED BY <2>0, <2>3, <3>1 DEF OpenTmp, Goto, Writing, StoreTypeOK
  <2>4. ASSUME NEW p \in Procs, WriteBlock(p) PROVE OneWriter'
    BY <2>0, <2>4 DEF WriteBlock, Goto, Writing, StoreTypeOK
  <2>5. ASSUME NEW p \in Procs, Start(p) \/ CheckExists(p) \/ Read(p) \/ Stop(p) PROVE OneWriter'
    BY <2>0, <2>5 DEF Start, CheckExists, Read, Stop, Goto, Writing, StoreTypeOK
  <2>6. CASE UNCHANGED vars
    BY <2>6 DEF vars, Writing
  <2> QED BY <2>1, <2>2, <2>3, <2>4, <2>5, <2>6 DEF Next, Step
<1> QED BY <1>1, <1>2, StoreInvariance, PTL DEF Spec

\* So the store is the abstract one for ever.
THEOREM OneSaver ==
  ASSUME Created = TRUE, \A p, o \in Savers : p = o
  PROVE  Spec => ImplementsPeerRecords
<1>1. Init => PR!Init
  BY InitStoreInv
<1>2. StoreInv /\ OneWriter' /\ [Next]_vars => [PR!Next]_<<Stored, seen>>
  BY StoreStep DEF OneWriter
<1> QED BY <1>1, <1>2, OneWriterInvariance, StoreInvariance, PTL
        DEF Spec, ImplementsPeerRecords, PR!Spec

\* Then a peer that was saved stays saved, which fails as soon as a process is
\* constructed before the store exists.
THEOREM OneSaverKeepsRecords ==
  ASSUME Created = TRUE, \A p, o \in Savers : p = o
  PROVE  Spec => SavedRecordsPersist
<1>1. ASSUME StoreInv, OneWriter', [Next]_vars
      PROVE  \A q \in Peers : Stored[q] # 0 => Stored'[q] # 0
  <2>1. [PR!Next]_<<Stored, seen>>
    BY <1>1, StoreStep DEF OneWriter
  <2>2. Stored \in Dict /\ seen \in [Readers -> Dict] /\ SeenIsPast
    BY <1>1, StoreStep, OverlapStays, StoredType DEF StoreInv, StoreTypeOK, OneWriter
  <2>3. \A q \in Peers : Stored[q] <= Stored'[q]
    BY <2>1, <2>2, AbstractKeeps
  <2> HIDE DEF Stored
  <2> QED BY <2>2, <2>3, StoreBound DEF Dict
<1>2. StoreInv /\ OneWriter' /\ [Next]_vars =>
        [\A q \in Peers : Stored[q] # 0 => Stored'[q] # 0]_vars
  BY <1>1
<1> QED BY <1>2, OneWriterInvariance, StoreInvariance, PTL DEF Spec, SavedRecordsPersist
=============================================================================
