--------------------------- MODULE TrustStoreProps ---------------------------
(***************************************************************************)
(* What the trust store guarantees while one process at a time pairs, and  *)
(* what it does not when processes race.                                   *)
(***************************************************************************)
EXTENDS TrustStore

Block == Dict \X Nat

\* The type invariant.
StoreTypeOK ==
  /\ dir \in [path : Inodes \cup {NoFile}, tmp : Inodes \cup {NoFile}]
  /\ data \in [Inodes -> Seq(Block)]
  /\ pc \in [Procs -> {"idle", "exists", "ready", "open", "write", "replace", "failed"}]
  /\ job \in [Procs -> {"init", "save"}]
  /\ doc \in [Procs -> Dict]
  /\ fd \in [Procs -> Inodes \cup {NoFile}]
  /\ pos \in [Procs -> Nat]
  /\ clock \in 0..MaxSaves
  /\ seen \in [Readers -> Dict]
  /\ overlap \in BOOLEAN

\* The records in the file at the store's path, none if it is not readable.
Stored == IF dir.path # NoFile /\ Parses(data[dir.path])
          THEN Parsed(data[dir.path]) ELSE Nobody

PR == INSTANCE PeerRecords WITH store <- Stored, Moments <- 1..MaxSaves

\* While one process pairs and the store exists, however that process is killed
\* and launched again and whatever the proximity processes read meanwhile, each
\* save takes effect at one moment and each read returns the records of one
\* moment.  (_write's tmp file and os.replace)
ImplementsPeerRecords == PR!Spec

\* With any number of processes: until two of them mean to write at once, no
\* constructor, save or lookup finds a file that is not one whole document, nor
\* a tmp file that is gone.  (_read, _write)
NobodyFailsAlone == ~overlap => \A p \in Procs : pc[p] # "failed"

\* ... and no record is lost or changed but by saving that peer.
\* (save_peer, and the {} of the constructor)
AtomicWithoutOverlap == [][~overlap' => [PR!Next]_<<Stored, seen>>]_vars

\* ... so that a proximity process never reads an older record of a peer than
\* one it has read before, nor none.  (get_peer, list_peers, is_paired)
ReadsNeverGoBack ==
  [][~overlap' => \A r \in Readers, q \in Peers : seen[r][q] <= seen'[r][q]]_vars

(***************************************************************************)
(* The inductive invariant                                                 *)
(***************************************************************************)
\* What a process that means to write is about to do to the records.
Intends(p) ==
  \/ job[p] = "init" /\ dir.path = NoFile /\ doc[p] = Nobody
  \/ /\ job[p] = "save" /\ dir.path # NoFile
     /\ \E q \in Peers : /\ doc[p] = [Stored EXCEPT ![q] = doc[p][q]]
                         /\ doc[p][q] > Stored[q] /\ doc[p][q] <= clock

\* How far it has got.
Progressed(p) ==
  /\ pc[p] = "write" =>
       /\ dir.tmp # NoFile /\ fd[p] = dir.tmp
       /\ pos[p] < Blocks(doc[p])
       /\ data[dir.tmp] = [k \in 1..pos[p] |-> <<doc[p], k>>]
  /\ pc[p] = "replace" => dir.tmp # NoFile /\ data[dir.tmp] = Complete(doc[p])

StoreSound ==
  /\ dir.path # NoFile => Parses(data[dir.path]) /\ dir.path # dir.tmp
  /\ \A q \in Peers : Stored[q] <= clock
  /\ \A p \in Procs : Writing(p) => Intends(p) /\ Progressed(p)
  /\ \A p, o \in Procs : Writing(p) /\ Writing(o) => p = o

\* A constructed TrustStore has a file.
StoreReady == \A p \in Procs : pc[p] = "ready" => dir.path # NoFile

\* What was read was stored, and has only been replaced by what is newer.
SeenIsPast == \A r \in Readers, q \in Peers : seen[r][q] <= Stored[q]

\* TLC checks it on the instances of the runs; TrustStoreProofs proves it.
StoreInv ==
  /\ StoreTypeOK /\ StoreReady /\ NobodyFailsAlone
  /\ ~overlap => StoreSound /\ SeenIsPast

(***************************************************************************)
(* What the documentation says and the code does not do                    *)
(***************************************************************************)
\* "Persistence for paired-peer long-term trust records": a peer that was
\* saved stays saved.  (the constructor's check and its write are two steps)
SavedRecordsPersist == [][\A q \in Peers : Stored[q] # 0 => Stored'[q] # 0]_vars
=============================================================================
