------------------------------ MODULE TrustStore ------------------------------
(***************************************************************************)
(* One trust_store.json and the processes that open it at the same time:   *)
(* pairing processes, which construct a TrustStore and save a peer, and    *)
(* proximity processes, which construct one and look peers up.  Each call  *)
(* to the file system is an action.  A process may be killed at any point  *)
(* and launched again; what it wrote to the tmp file stays.                *)
(***************************************************************************)
EXTENDS Integers, Sequences, FiniteSets

CONSTANTS
  Savers,    \* processes that pair
  Readers,   \* processes that run proximity
  Peers,
  Created,   \* whether the store exists before any of them starts
  Inodes,    \* the file system's inodes
  NoFile,    \* what a path is linked to when there is no such file
  MaxSaves   \* bound: how often save_peer is called

Procs == Savers \cup Readers

ASSUME StoreRoles == Savers \cap Readers = {}
ASSUME StorePeers == IsFiniteSet(Peers)
ASSUME StoreCreated == Created \in BOOLEAN
ASSUME StoreInodes == NoFile \notin Inodes
ASSUME StoreBound == MaxSaves \in Nat

VARIABLES
  dir,    \* the inode at the store's path and at its .tmp path
  data,   \* what each inode holds: a sequence of blocks
  pc,     \* where each process is
  job,    \* what a process writes the store for: "init" (constructor) or "save"
  doc,    \* `data` in save_peer: the dict a process is about to write
  fd,     \* the inode a process has open for writing
  pos,    \* how many blocks it has written there
  clock,  \* time.time(): the moment of the latest save_peer
  seen,   \* what a reader read last
  overlap \* history: whether two processes ever meant to write at once

vars == <<dir, data, pc, job, doc, fd, pos, clock, seen, overlap>>

Dict == [Peers -> 0..MaxSaves]
Nobody == [q \in Peers |-> 0]

\* A new file gets an inode that is neither linked nor open.
FreeInodes == {i \in Inodes \ {dir.path, dir.tmp} :
                 \A p \in Procs : pc[p] = "write" => fd[p] # i}

(***************************************************************************)
(* File contents                                                           *)
(***************************************************************************)
\* json.dump of d reaches the file in several blocks, the more the longer d.
Blocks(d) == 1 + Cardinality({q \in Peers : d[q] # 0})
Complete(d) == [k \in 1..Blocks(d) |-> <<d, k>>]

\* What lseek leaves unwritten reads as zero bytes.
Hole == <<Nobody, 0>>

\* json.load raises ValueError unless the file is one whole document.
Parses(s) == s # <<>> /\ s = Complete(s[1][1])
Parsed(s) == s[1][1]

WriteAt(s, k, block) ==
  [j \in 1..(IF k > Len(s) THEN k ELSE Len(s)) |->
     IF j = k THEN block ELSE IF j <= Len(s) THEN s[j] ELSE Hole]

(***************************************************************************)
(* Operations                                                              *)
(***************************************************************************)
Goto(p, l) == pc' = [pc EXCEPT ![p] = l]

\* Between the read that decides what to write and os.replace.
Writing(p) == pc[p] \in {"open", "write", "replace"}

\* p decides to write the dict d.
MeansToWrite(p, why, d) ==
  /\ Goto(p, "open")
  /\ job' = [job EXCEPT ![p] = why]
  /\ doc' = [doc EXCEPT ![p] = d]
  /\ overlap' = (overlap \/ \E o \in Procs \ {p} : Writing(o))

\* A process begins to construct its TrustStore.
Start(p) ==
  /\ pc[p] \in {"idle", "failed"}
  /\ Goto(p, "exists")
  /\ UNCHANGED <<dir, data, job, doc, fd, pos, clock, seen, overlap>>

\* Mistake: the constructor writes {} without looking.
CheckExistsNever(p) ==
  /\ pc[p] = "exists"
  /\ MeansToWrite(p, "init", Nobody)
  /\ UNCHANGED <<dir, data, fd, pos, clock, seen>>

\* __init__: an absent store is written as {}.
CheckExists(p) ==
  /\ pc[p] = "exists"
  /\ \/ /\ dir.path # NoFile
        /\ Goto(p, "ready")
        /\ UNCHANGED <<job, doc, overlap>>
     \/ dir.path = NoFile /\ MeansToWrite(p, "init", Nobody)
  /\ UNCHANGED <<dir, data, fd, pos, clock, seen>>

\* save_peer: the whole store is read ...
ReadForSave(p) ==
  /\ p \in Savers /\ pc[p] = "ready"
  /\ clock < MaxSaves
  /\ LET file == data[dir.path] IN
     \/ /\ Parses(file)
        /\ clock' = clock + 1
        /\ \E q \in Peers :
             MeansToWrite(p, "save", [Parsed(file) EXCEPT ![q] = clock + 1])
     \/ /\ ~Parses(file)
        /\ Goto(p, "failed")
        /\ UNCHANGED <<clock, doc, job, overlap>>
  /\ UNCHANGED <<dir, data, fd, pos, seen>>

\* Mistake: the store is opened itself, not a tmp file beside it.
OpenInPlace(p) ==
  /\ pc[p] = "open"
  /\ \E i \in IF dir.path = NoFile THEN FreeInodes ELSE {dir.path} :
       /\ dir' = [path |-> i, tmp |-> i]
       /\ data' = [data EXCEPT ![i] = <<>>]
       /\ fd' = [fd EXCEPT ![p] = i]
  /\ pos' = [pos EXCEPT ![p] = 0]
  /\ Goto(p, "write")
  /\ UNCHANGED <<job, doc, clock, seen, overlap>>

\* ... and _write writes it: open(tmp, "w") creates the file or empties it,
OpenTmp(p) ==
  /\ pc[p] = "open"
  /\ \E i \in IF dir.tmp = NoFile THEN FreeInodes ELSE {dir.tmp} :
       /\ dir' = [path |-> dir.path, tmp |-> i]
       /\ data' = [data EXCEPT ![i] = <<>>]
       /\ fd' = [fd EXCEPT ![p] = i]
  /\ pos' = [pos EXCEPT ![p] = 0]
  /\ Goto(p, "write")
  /\ UNCHANGED <<job, doc, clock, seen, overlap>>

\* Mistake: os.replace is called inside the with block, before close flushes.
WriteBlockUnflushed(p) ==
  /\ pc[p] = "write"
  /\ data' = [data EXCEPT ![fd[p]] = WriteAt(@, 1, <<doc[p], 1>>)]
  /\ pos' = [pos EXCEPT ![p] = 1]
  /\ Goto(p, "replace")
  /\ UNCHANGED <<dir, job, doc, fd, clock, seen, overlap>>

\* the buffers are flushed block by block, the last one by close,
WriteBlock(p) ==
  LET k == pos[p] + 1 IN
  /\ pc[p] = "write"
  /\ data' = [data EXCEPT ![fd[p]] = WriteAt(@, k, <<doc[p], k>>)]
  /\ pos' = [pos EXCEPT ![p] = k]
  /\ Goto(p, IF k = Blocks(doc[p]) THEN "replace" ELSE "write")
  /\ UNCHANGED <<dir, job, doc, fd, clock, seen, overlap>>

\* Mistake: os.link instead of os.replace, the tmp file stays.
ReplaceByLink(p) ==
  /\ pc[p] = "replace"
  /\ dir' = [path |-> dir.tmp, tmp |-> dir.tmp]
  /\ Goto(p, IF job[p] = "init" THEN "ready" ELSE "idle")
  /\ UNCHANGED <<data, job, doc, fd, pos, clock, seen, overlap>>

\* and os.replace moves it over the store, or finds no tmp file any more.
Replace(p) ==
  /\ pc[p] = "replace"
  /\ \/ /\ dir.tmp # NoFile
        /\ dir' = [path |-> dir.tmp, tmp |-> NoFile]
        /\ Goto(p, IF job[p] = "init" THEN "ready" ELSE "idle")
     \/ /\ dir.tmp = NoFile
        /\ Goto(p, "failed")
        /\ UNCHANGED dir
  /\ UNCHANGED <<data, job, doc, fd, pos, clock, seen, overlap>>

\* get_peer, is_paired and list_peers: look at what one _read returns.
Read(p) ==
  /\ p \in Readers /\ pc[p] = "ready"
  /\ LET file == data[dir.path] IN
     \/ /\ Parses(file)
        /\ seen' = [seen EXCEPT ![p] = Parsed(file)]
        /\ UNCHANGED pc
     \/ /\ ~Parses(file)
        /\ Goto(p, "failed")
        /\ UNCHANGED seen
  /\ UNCHANGED <<dir, data, job, doc, fd, pos, clock, overlap>>

\* A process ends or is killed.
Stop(p) ==
  /\ pc[p] \notin {"idle", "failed"}
  /\ Goto(p, "idle")
  /\ UNCHANGED <<dir, data, job, doc, fd, pos, clock, seen, overlap>>

Init ==
  /\ \E i \in Inodes :
       /\ dir = [path |-> IF Created THEN i ELSE NoFile, tmp |-> NoFile]
       /\ data = [j \in Inodes |-> IF Created /\ j = i THEN Complete(Nobody) ELSE <<>>]
  /\ pc = [p \in Procs |-> "idle"]
  /\ job = [p \in Procs |-> "init"]
  /\ doc = [p \in Procs |-> Nobody]
  /\ fd = [p \in Procs |-> NoFile]
  /\ pos = [p \in Procs |-> 0]
  /\ clock = 0
  /\ seen = [r \in Readers |-> Nobody]
  /\ overlap = FALSE

Step(p) == \/ CheckExists(p) \/ ReadForSave(p) \/ OpenTmp(p) \/ WriteBlock(p)
           \/ Replace(p) \/ Read(p)

Next == \E p \in Procs : Start(p) \/ Step(p) \/ Stop(p)

Spec == Init /\ [][Next]_vars
=============================================================================
