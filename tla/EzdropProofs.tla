----------------------------- MODULE EzdropProofs -----------------------------
(***************************************************************************)
(* Ezdrop for any numbers of codes, uploads, connections, restarts and any *)
(* limit: the table of codes, the disk and the count of downloads agree.   *)
(*                                                                         *)
(* EzdropInv says what each thread may rely on while the other one works:  *)
(* a code whose deletion is due is neither listed nor being filled unless  *)
(* it was given out too early (DueOK), an upload about to be listed is     *)
(* stored (FilledOK), a directory is listed, due or being filled (Covered),*)
(* and a download is only counted while there is room (LimitOK).           *)
(***************************************************************************)
EXTENDS Ezdrop, FiniteSetTheorems, TLAPS

LoopAt  == {"idle", "mkdir", "store", "insert", "check", "unlink", "empty", "rmdir", "erase",
            "setFile", "open"}
SweepAt == {"sleep", "lock", "next", "unlink", "empty", "rmdir"}

Types ==
    /\ status \in {"up", "stopping", "down"}
    /\ codes \in [Code -> Upload \cup {None}]
    /\ dirs \subseteq Code /\ files \in [Code -> SUBSET (Upload \cup {Meta})]
    /\ expired \subseteq Upload /\ uploads \in 0 .. MaxUploads
    /\ loop \in [at : LoopAt, up : Upload \cup {None}, code : Code \cup {None}, fd : Fd \cup {None}]
    /\ sweep \in [at : SweepAt, now : SUBSET Upload, todo : SUBSET Code, path : Code \cup {None}]
    /\ sending \subseteq Fd /\ sizes \subseteq Fd /\ active \in Nat
    /\ starts \in 1 .. MaxStarts
    /\ inherited \subseteq Code /\ clashed \subseteq Code

(* What the loop thread knows of the code it is working on.                *)
LoopOK ==
    /\ loop.at # "idle" => loop.code \in Code /\ loop.up \in Upload
    /\ loop.at \in {"mkdir", "store", "insert"} => codes[loop.code] = None
    /\ loop.at \in {"check", "unlink", "empty", "rmdir", "erase"} =>
          codes[loop.code] = loop.up \/ (codes[loop.code] = None /\ loop.up \in expired)
    /\ loop.at \in {"unlink", "empty", "rmdir", "erase"} => loop.up \in expired
    /\ loop.at = "rmdir" => files[loop.code] = {}
    /\ loop.at = "erase" => loop.code \notin dirs

(* What the sweeper knows.                                                 *)
SweepOK ==
    /\ sweep.now \subseteq expired
    /\ sweep.at \in {"sleep", "lock"} => sweep.todo = {}
    /\ sweep.at \in {"sleep", "lock", "next"} => sweep.path = None
    /\ sweep.at \in {"unlink", "empty", "rmdir"} => sweep.path \in Code
    /\ sweep.at = "rmdir" /\ sweep.path \notin clashed => files[sweep.path] = {}

Due(k)     == k \in sweep.todo \/ k = sweep.path
Filling(k) == loop.at \in {"store", "insert"} /\ loop.code = k

DueOK    == \A k \in Code \ clashed : Due(k) => codes[k] = None /\ ~Filling(k)
FilledOK == loop.at = "insert" /\ loop.code \notin clashed => Payload(loop.code) = {loop.up}
Covered  == status = "up" =>
                \A k \in dirs \ (inherited \cup clashed) : codes[k] # None \/ Due(k) \/ Filling(k)
DownOK   == status = "down" => loop = Idle /\ sweep = Sleep /\ \A k \in Code : codes[k] = None

(* The places of the downloads in flight, and the one that is being made.  *)
LimitOK ==
    /\ sending \subseteq sizes /\ Cardinality(sizes) <= active
    /\ MaxActive > 0 => active <= MaxActive
    /\ loop.at = "check" => (MaxActive > 0 => active < MaxActive)
    /\ loop.at \in {"check", "setFile", "open"} => loop.fd \in Fd
    /\ loop.at \in {"setFile", "open"} => loop.fd \in sizes

EzdropInv ==
    /\ Types /\ LoopOK /\ SweepOK /\ DueOK /\ FilledOK /\ ListedIsStored
    /\ Covered /\ DownOK /\ LimitOK

-----------------------------------------------------------------------------
LEMMA NotUploads == None \notin Upload /\ Meta \notin Upload /\ None \notin Code /\ None = Meta
  BY EzdropAssumption DEF None, Meta, Upload

LEMMA InitInv == Init => EzdropInv
<1> SUFFICES ASSUME Init PROVE EzdropInv
  OBVIOUS
<1>1. Types /\ LimitOK
  BY EzdropAssumption, FS_EmptySet DEF Init, Types, LimitOK, Idle, Sleep, LoopAt, SweepAt
<1>2. LoopOK /\ SweepOK /\ FilledOK /\ DownOK
  BY DEF Init, LoopOK, SweepOK, FilledOK, DownOK, Idle, Sleep
<1>3. DueOK /\ ListedIsStored /\ Covered
  BY NotUploads DEF Init, DueOK, Due, Filling, ListedIsStored, Covered, Idle, Sleep
<1> QED
  BY <1>1, <1>2, <1>3 DEF EzdropInv

LEMMA UploadCodeStep ==
    ASSUME EzdropInv, NEW k \in Code, UploadCode(k)
    PROVE  EzdropInv'
<1> USE NotUploads DEF EzdropInv, Types, world, disk, counts
<1>0. uploads' \in Upload /\ uploads' \in 0 .. MaxUploads /\ Upload' = Upload
  BY EzdropAssumption DEF UploadCode, Upload
<1>1. Types'
  BY <1>0 DEF UploadCode, Running, Fresh, Idle, LoopAt, SweepAt
<1>2. LoopOK'
  BY <1>0 DEF UploadCode, Running, Fresh, Idle, LoopOK, LoopAt
<1>3. SweepOK'
  BY DEF UploadCode, Running, Fresh, Idle, SweepOK, SweepAt
<1>4. DueOK'
  BY DEF UploadCode, Running, Fresh, Idle, DueOK, Due, Filling, LoopOK, SweepOK
<1>5. FilledOK'
  BY DEF UploadCode, Running, Fresh, Idle, FilledOK, Payload, DueOK, Due, LoopOK
<1>6. ListedIsStored'
  BY DEF UploadCode, Running, Fresh, Idle, ListedIsStored, Payload, DueOK, FilledOK, Due, LoopOK, SweepOK
<1>7. Covered'
  BY DEF UploadCode, Running, Fresh, Idle, Covered, Due, Filling, LoopOK, SweepOK, DueOK
<1>8. DownOK'
  BY DEF UploadCode, Running, Fresh, Idle, DownOK, Sleep
<1>9. LimitOK'
  BY DEF UploadCode, Running, Fresh, Idle, LimitOK
<1> QED
  BY <1>1, <1>2, <1>3, <1>4, <1>5, <1>6, <1>7, <1>8, <1>9

LEMMA UploadMkdirStep ==
    ASSUME EzdropInv, UploadMkdir
    PROVE  EzdropInv'
<1> USE NotUploads DEF EzdropInv, Types, world, disk, counts
<1>1. Types'
  BY DEF UploadMkdir, Running, Goto, Reply, Idle, LoopAt, SweepAt, LoopOK
<1>2. LoopOK'
  BY DEF UploadMkdir, Running, Goto, Reply, Idle, LoopOK, LoopAt
<1>3. SweepOK'
  BY DEF UploadMkdir, Running, Goto, Reply, Idle, SweepOK, SweepAt
<1>4. DueOK'
  BY DEF UploadMkdir, Running, Goto, Reply, Idle, DueOK, Due, Filling, LoopOK, SweepOK
<1>5. FilledOK'
  BY DEF UploadMkdir, Running, Goto, Reply, Idle, FilledOK, Payload, DueOK, Due, LoopOK
<1>6. ListedIsStored'
  BY DEF UploadMkdir, Running, Goto, Reply, Idle, ListedIsStored, Payload, DueOK, FilledOK, Due, LoopOK, SweepOK
<1>7. Covered'
  BY DEF UploadMkdir, Running, Goto, Reply, Idle, Covered, Due, Filling, LoopOK, SweepOK, DueOK
<1>8. DownOK'
  BY DEF UploadMkdir, Running, Goto, Reply, Idle, DownOK, Sleep
<1>9. LimitOK'
  BY DEF UploadMkdir, Running, Goto, Reply, Idle, LimitOK
<1> QED
  BY <1>1, <1>2, <1>3, <1>4, <1>5, <1>6, <1>7, <1>8, <1>9

LEMMA UploadStoreStep ==
    ASSUME EzdropInv, UploadStore
    PROVE  EzdropInv'
<1> USE NotUploads DEF EzdropInv, Types, world, disk, counts
<1>1. Types'
  BY DEF UploadStore, Running, Goto, Reply, Idle, LoopAt, SweepAt
<1>2. LoopOK'
  BY DEF UploadStore, Running, Goto, Reply, Idle, LoopOK, LoopAt
<1>3. SweepOK'
  BY DEF UploadStore, Running, Goto, Reply, Idle, SweepOK, SweepAt, DueOK, Due, Filling, LoopOK
<1>4. DueOK'
  BY DEF UploadStore, Running, Goto, Reply, Idle, DueOK, Due, Filling, LoopOK, SweepOK
<1>5. FilledOK'
  BY DEF UploadStore, Running, Goto, Reply, Idle, FilledOK, Payload, DueOK, Due, LoopOK
<1>6. ListedIsStored'
  BY DEF UploadStore, Running, Goto, Reply, Idle, ListedIsStored, Payload, DueOK, FilledOK, Due, LoopOK, SweepOK
<1>7. Covered'
  BY DEF UploadStore, Running, Goto, Reply, Idle, Covered, Due, Filling, LoopOK, SweepOK, DueOK
<1>8. DownOK'
  BY DEF UploadStore, Running, Goto, Reply, Idle, DownOK, Sleep
<1>9. LimitOK'
  BY DEF UploadStore, Running, Goto, Reply, Idle, LimitOK
<1> QED
  BY <1>1, <1>2, <1>3, <1>4, <1>5, <1>6, <1>7, <1>8, <1>9

LEMMA UploadInsertStep ==
    ASSUME EzdropInv, UploadInsert
    PROVE  EzdropInv'
<1> USE NotUploads DEF EzdropInv, Types, world, disk, counts
<1>1. Types'
  BY DEF UploadInsert, Running, Reply, Idle, LoopAt, SweepAt
<1>2. LoopOK'
  BY DEF UploadInsert, Running, Reply, Idle, LoopOK, LoopAt
<1>3. SweepOK'
  BY DEF UploadInsert, Running, Reply, Idle, SweepOK, SweepAt, DueOK, Due, Filling, LoopOK
<1>4. DueOK'
  BY DEF UploadInsert, Running, Reply, Idle, DueOK, Due, Filling, LoopOK, SweepOK
<1>5. FilledOK'
  BY DEF UploadInsert, Running, Reply, Idle, FilledOK, Payload, DueOK, Due, LoopOK
<1>6. ListedIsStored'
  BY DEF UploadInsert, Running, Reply, Idle, ListedIsStored, Payload, DueOK, FilledOK, Due, LoopOK, SweepOK
<1>7. Covered'
  BY DEF UploadInsert, Running, Reply, Idle, Covered, Due, Filling, LoopOK, SweepOK, DueOK
<1>8. DownOK'
  BY DEF UploadInsert, Running, Reply, Idle, DownOK, Sleep
<1>9. LimitOK'
  BY DEF UploadInsert, Running, Reply, Idle, LimitOK
<1> QED
  BY <1>1, <1>2, <1>3, <1>4, <1>5, <1>6, <1>7, <1>8, <1>9

LEMMA DownloadLookupStep ==
    ASSUME EzdropInv, NEW k \in Code, NEW fd \in Fd, DownloadLookup(k, fd)
    PROVE  EzdropInv'
<1> USE NotUploads DEF EzdropInv, Types, world, disk, counts
<1>1. Types'
  BY DEF DownloadLookup, Running, Full, LoopAt, SweepAt
<1>2. LoopOK'
  BY DEF DownloadLookup, Running, Full, LoopOK, LoopAt
<1>3. SweepOK'
  BY DEF DownloadLookup, Running, Full, SweepOK, SweepAt
<1>4. DueOK'
  BY DEF DownloadLookup, Running, Full, DueOK, Due, Filling, LoopOK, SweepOK
<1>5. FilledOK'
  BY DEF DownloadLookup, Running, Full, FilledOK, Payload, DueOK, Due, LoopOK
<1>6. ListedIsStored'
  BY DEF DownloadLookup, Running, Full, ListedIsStored, Payload, DueOK, FilledOK, Due, LoopOK, SweepOK
<1>7. Covered'
  BY DEF DownloadLookup, Running, Full, Covered, Due, Filling, LoopOK, SweepOK, DueOK
<1>8. DownOK'
  BY DEF DownloadLookup, Running, Full, DownOK, Idle, Sleep
<1>9. LimitOK'
  BY EzdropAssumption DEF DownloadLookup, Running, Full, LimitOK
<1> QED
  BY <1>1, <1>2, <1>3, <1>4, <1>5, <1>6, <1>7, <1>8, <1>9

LEMMA DownloadExpiredStep ==
    ASSUME EzdropInv, DownloadExpired
    PROVE  EzdropInv'
<1> USE NotUploads DEF EzdropInv, Types, world, disk, counts
<1>1. Types'
  BY DEF DownloadExpired, Running, Goto, LoopAt, SweepAt
<1>2. LoopOK'
  BY DEF DownloadExpired, Running, Goto, LoopOK, LoopAt
<1>3. SweepOK'
  BY DEF DownloadExpired, Running, Goto, SweepOK, SweepAt
<1>4. DueOK'
  BY DEF DownloadExpired, Running, Goto, DueOK, Due, Filling, LoopOK, SweepOK
<1>5. FilledOK'
  BY DEF DownloadExpired, Running, Goto, FilledOK, Payload, DueOK, Due, LoopOK
<1>6. ListedIsStored'
  BY DEF DownloadExpired, Running, Goto, ListedIsStored, Payload, DueOK, FilledOK, Due, LoopOK, SweepOK
<1>7. Covered'
  BY DEF DownloadExpired, Running, Goto, Covered, Due, Filling, LoopOK, SweepOK, DueOK
<1>8. DownOK'
  BY DEF DownloadExpired, Running, Goto, DownOK, Idle, Sleep
<1>9. LimitOK'
  BY DEF DownloadExpired, Running, Goto, LimitOK
<1> QED
  BY <1>1, <1>2, <1>3, <1>4, <1>5, <1>6, <1>7, <1>8, <1>9

LEMMA DownloadDeleteStep ==
    ASSUME EzdropInv, DownloadDelete
    PROVE  EzdropInv'
<1> USE NotUploads DEF EzdropInv, Types, world, disk, counts
<1>1. Types'
  BY DEF DownloadDelete, Running, Goto, Reply, Idle, UnlinkPayload, EmptyDir, RemoveDir, LoopAt, SweepAt
<1>2. LoopOK'
  BY DEF DownloadDelete, Running, Goto, Reply, Idle, UnlinkPayload, EmptyDir, RemoveDir, LoopOK, LoopAt
<1>3. SweepOK'
  BY DEF DownloadDelete, Running, Goto, Reply, Idle, UnlinkPayload, EmptyDir, RemoveDir, SweepOK, SweepAt
<1>4. DueOK'
  BY DEF DownloadDelete, Running, Goto, Reply, Idle, UnlinkPayload, EmptyDir, RemoveDir, DueOK, Due, Filling, LoopOK, SweepOK
<1>5. FilledOK'
  BY DEF DownloadDelete, Running, Goto, Reply, Idle, UnlinkPayload, EmptyDir, RemoveDir, FilledOK, Payload, DueOK, Due, LoopOK
<1>6. ListedIsStored'
  BY DEF DownloadDelete, Running, Goto, Reply, Idle, UnlinkPayload, EmptyDir, RemoveDir, ListedIsStored, Payload, DueOK, FilledOK, Due, LoopOK, SweepOK
<1>7. Covered'
  BY DEF DownloadDelete, Running, Goto, Reply, Idle, UnlinkPayload, EmptyDir, RemoveDir, Covered, Due, Filling, LoopOK, SweepOK, DueOK
<1>8. DownOK'
  BY DEF DownloadDelete, Running, Goto, Reply, Idle, UnlinkPayload, EmptyDir, RemoveDir, DownOK, Sleep
<1>9. LimitOK'
  BY DEF DownloadDelete, Running, Goto, Reply, Idle, UnlinkPayload, EmptyDir, RemoveDir, LimitOK
<1> QED
  BY <1>1, <1>2, <1>3, <1>4, <1>5, <1>6, <1>7, <1>8, <1>9

LEMMA DownloadCountStep ==
    ASSUME EzdropInv, DownloadCount
    PROVE  EzdropInv'
<1> USE NotUploads DEF EzdropInv, Types, world, disk, counts
<1>1. Types'
  <2>1. loop.fd \in Fd
    BY DEF LimitOK, DownloadCount, Running
  <2> QED
    BY <2>1 DEF DownloadCount, Running, Goto, Reply, Idle, LoopAt, SweepAt
<1>2. LoopOK'
  BY DEF DownloadCount, Running, Goto, Reply, Idle, LoopOK, LoopAt
<1>3. SweepOK'
  BY DEF DownloadCount, Running, Goto, Reply, Idle, SweepOK, SweepAt
<1>4. DueOK'
  BY DEF DownloadCount, Running, Goto, Reply, Idle, DueOK, Due, Filling, LoopOK, SweepOK
<1>5. FilledOK'
  BY DEF DownloadCount, Running, Goto, Reply, Idle, FilledOK, Payload, DueOK, Due, LoopOK
<1>6. ListedIsStored'
  BY DEF DownloadCount, Running, Goto, Reply, Idle, ListedIsStored, Payload, DueOK, FilledOK, Due, LoopOK, SweepOK
<1>7. Covered'
  BY DEF DownloadCount, Running, Goto, Reply, Idle, Covered, Due, Filling, LoopOK, SweepOK, DueOK, ListedIsStored
<1>8. DownOK'
  BY DEF DownloadCount, Running, Goto, Reply, Idle, DownOK, Sleep
<1>9. LimitOK'
  <2>1. /\ IsFiniteSet(sizes) /\ Cardinality(sizes) \in Nat
        /\ Cardinality(sizes \cup {loop.fd}) <= Cardinality(sizes) + 1
        /\ Cardinality(sizes \cup {loop.fd}) \in Nat
    <3>1. IsFiniteSet(sizes)
      BY EzdropAssumption, FS_Subset
    <3>2. Cardinality(sizes \cup {loop.fd}) =
             IF loop.fd \in sizes THEN Cardinality(sizes) ELSE Cardinality(sizes) + 1
      BY <3>1, FS_AddElement
    <3> QED
      BY <3>1, <3>2, FS_CardinalityType
  <2>2. sending \subseteq sizes /\ Cardinality(sizes) <= active /\ loop.fd \in Fd
        /\ loop.at = "check" /\ (MaxActive > 0 => active < MaxActive) /\ MaxActive \in Nat
    BY EzdropAssumption DEF LimitOK, DownloadCount, Running
  <2>3. CASE Payload(loop.code) = {}
    BY <2>2, <2>3 DEF DownloadCount, Running, Reply, Idle, LimitOK
  <2>4. CASE Payload(loop.code) # {}
    <3>1. /\ sizes' = sizes \cup {loop.fd} /\ active' = active + 1 /\ sending' = sending
          /\ loop'.at = "setFile" /\ loop'.fd = loop.fd
      BY <2>4 DEF DownloadCount, Goto
    <3>2. Cardinality(sizes') <= active'
      BY <2>1, <2>2, <3>1
    <3>3. MaxActive > 0 => active' <= MaxActive
      BY <2>2, <3>1
    <3>4. sending' \subseteq sizes' /\ loop'.fd \in sizes' /\ loop'.fd \in Fd
      BY <2>2, <3>1
    <3> QED
      BY <3>1, <3>2, <3>3, <3>4 DEF LimitOK
  <2> QED
    BY <2>3, <2>4
<1> QED
  BY <1>1, <1>2, <1>3, <1>4, <1>5, <1>6, <1>7, <1>8, <1>9

LEMMA DownloadSetFileStep ==
    ASSUME EzdropInv, DownloadSetFile
    PROVE  EzdropInv'
<1> USE NotUploads DEF EzdropInv, Types, world, disk, counts
<1>1. Types'
  BY DEF DownloadSetFile, Running, Goto, Reply, Idle, LoopAt, SweepAt
<1>2. LoopOK'
  BY DEF DownloadSetFile, Running, Goto, Reply, Idle, LoopOK, LoopAt
<1>3. SweepOK'
  BY DEF DownloadSetFile, Running, Goto, Reply, Idle, SweepOK, SweepAt
<1>4. DueOK'
  BY DEF DownloadSetFile, Running, Goto, Reply, Idle, DueOK, Due, Filling, LoopOK, SweepOK
<1>5. FilledOK'
  BY DEF DownloadSetFile, Running, Goto, Reply, Idle, FilledOK, Payload, DueOK, Due, LoopOK
<1>6. ListedIsStored'
  BY DEF DownloadSetFile, Running, Goto, Reply, Idle, ListedIsStored, Payload, DueOK, FilledOK, Due, LoopOK, SweepOK
<1>7. Covered'
  BY DEF DownloadSetFile, Running, Goto, Reply, Idle, Covered, Due, Filling, LoopOK, SweepOK, DueOK
<1>8. DownOK'
  BY DEF DownloadSetFile, Running, Goto, Reply, Idle, DownOK, Sleep
<1>9. LimitOK'
  BY DEF DownloadSetFile, Running, Goto, Reply, Idle, LimitOK
<1> QED
  BY <1>1, <1>2, <1>3, <1>4, <1>5, <1>6, <1>7, <1>8, <1>9

LEMMA DownloadSendStep ==
    ASSUME EzdropInv, DownloadSend
    PROVE  EzdropInv'
<1> USE NotUploads DEF EzdropInv, Types, world, disk, counts
<1>1. Types'
  <2>1. loop.fd \in Fd
    BY DEF LimitOK, DownloadSend, Running
  <2> QED
    BY <2>1 DEF DownloadSend, Running, Reply, Idle, LoopAt, SweepAt
<1>2. LoopOK'
  BY DEF DownloadSend, Running, Reply, Idle, LoopOK, LoopAt
<1>3. SweepOK'
  BY DEF DownloadSend, Running, Reply, Idle, SweepOK, SweepAt
<1>4. DueOK'
  BY DEF DownloadSend, Running, Reply, Idle, DueOK, Due, Filling, LoopOK, SweepOK
<1>5. FilledOK'
  BY DEF DownloadSend, Running, Reply, Idle, FilledOK, Payload, DueOK, Due, LoopOK
<1>6. ListedIsStored'
  BY DEF DownloadSend, Running, Reply, Idle, ListedIsStored, Payload, DueOK, FilledOK, Due, LoopOK, SweepOK
<1>7. Covered'
  BY DEF DownloadSend, Running, Reply, Idle, Covered, Due, Filling, LoopOK, SweepOK, DueOK
<1>8. DownOK'
  BY DEF DownloadSend, Running, Reply, Idle, DownOK, Sleep
<1>9. LimitOK'
  BY DEF DownloadSend, Running, Reply, Idle, LimitOK
<1> QED
  BY <1>1, <1>2, <1>3, <1>4, <1>5, <1>6, <1>7, <1>8, <1>9

LEMMA CompleteStep ==
    ASSUME EzdropInv, NEW fd \in Fd, Complete(fd)
    PROVE  EzdropInv'
<1> USE NotUploads DEF EzdropInv, Types, world, disk, counts
<1>0. /\ sizes' \subseteq Fd /\ sending' \subseteq sizes' /\ active' \in Nat
      /\ Cardinality(sizes') <= active' /\ active' <= active
  <2>1. /\ IsFiniteSet(sizes) /\ Cardinality(sizes) \in Nat
        /\ Cardinality(sizes \ {fd}) = IF fd \in sizes THEN Cardinality(sizes) - 1 ELSE Cardinality(sizes)
        /\ (fd \in sizes => Cardinality(sizes) > 0)
    <3>1. IsFiniteSet(sizes)
      BY EzdropAssumption, FS_Subset
    <3>2. Cardinality(sizes \ {fd}) = IF fd \in sizes THEN Cardinality(sizes) - 1 ELSE Cardinality(sizes)
      BY <3>1, FS_RemoveElement
    <3>3. Cardinality(sizes) \in Nat /\ (fd \in sizes => Cardinality(sizes) # 0)
      BY <3>1, FS_CardinalityType, FS_EmptySet
    <3> QED
      BY <3>1, <3>2, <3>3
  <2>2. sending \subseteq sizes /\ Cardinality(sizes) <= active
    BY DEF LimitOK
  <2>3. CASE fd \in sizes
    <3>1. sizes' = sizes \ {fd} /\ active' = active - 1 /\ sending' = sending \ {fd}
      BY <2>3 DEF Complete, OnWriteComplete
    <3> QED
      BY <2>1, <2>2, <2>3, <3>1
  <2>4. CASE fd \notin sizes
    <3>1. sizes' = sizes /\ active' = active /\ sending' = sending \ {fd}
      BY <2>4 DEF Complete, OnWriteComplete
    <3> QED
      BY <2>1, <2>2, <2>4, <3>1
  <2> QED
    BY <2>3, <2>4
<1>1. Types'
  <2>1. (sizes' \subseteq Fd /\ sending' \subseteq Fd) /\ active' \in Nat
    BY <1>0
  <2> QED
    BY <2>1 DEF Complete, Running
<1>2. LoopOK'
  BY DEF Complete, Running, OnWriteComplete, LoopOK, LoopAt
<1>3. SweepOK'
  BY DEF Complete, Running, OnWriteComplete, SweepOK, SweepAt
<1>4. DueOK'
  BY DEF Complete, Running, OnWriteComplete, DueOK, Due, Filling, LoopOK, SweepOK
<1>5. FilledOK'
  BY DEF Complete, Running, OnWriteComplete, FilledOK, Payload, DueOK, Due, LoopOK
<1>6. ListedIsStored'
  BY DEF Complete, Running, OnWriteComplete, ListedIsStored, Payload, DueOK, FilledOK, Due, LoopOK, SweepOK
<1>7. Covered'
  BY DEF Complete, Running, OnWriteComplete, Covered, Due, Filling, LoopOK, SweepOK, DueOK
<1>8. DownOK'
  BY DEF Complete, Running, OnWriteComplete, DownOK, Idle, Sleep
<1>9. LimitOK'
  <2>1. active \in Nat /\ MaxActive \in Nat /\ loop' = loop /\ loop.at = "idle"
    BY EzdropAssumption DEF Complete, Running
  <2>2. MaxActive > 0 => active' <= MaxActive
    BY <1>0, <2>1 DEF LimitOK
  <2> QED
    BY <1>0, <2>1, <2>2 DEF LimitOK
<1> QED
  BY <1>1, <1>2, <1>3, <1>4, <1>5, <1>6, <1>7, <1>8, <1>9

LEMMA SweepNowStep ==
    ASSUME EzdropInv, SweepNow
    PROVE  EzdropInv'
<1> USE NotUploads DEF EzdropInv, Types, world, disk, counts
<1>1. Types'
  BY DEF SweepNow, Sweeping, Sleep, LoopAt, SweepAt
<1>2. LoopOK'
  BY DEF SweepNow, Sweeping, Sleep, LoopOK, LoopAt
<1>3. SweepOK'
  BY DEF SweepNow, Sweeping, Sleep, SweepOK, SweepAt
<1>4. DueOK'
  BY DEF SweepNow, Sweeping, Sleep, DueOK, Due, Filling, LoopOK, SweepOK
<1>5. FilledOK'
  BY DEF SweepNow, Sweeping, Sleep, FilledOK, Payload, DueOK, Due, LoopOK
<1>6. ListedIsStored'
  BY DEF SweepNow, Sweeping, Sleep, ListedIsStored, Payload, DueOK, FilledOK, Due, LoopOK, SweepOK
<1>7. Covered'
  BY DEF SweepNow, Sweeping, Sleep, Covered, Due, Filling, LoopOK, SweepOK, DueOK
<1>8. DownOK'
  BY DEF SweepNow, Sweeping, Sleep, DownOK, Idle
<1>9. LimitOK'
  BY DEF SweepNow, Sweeping, Sleep, LimitOK
<1> QED
  BY <1>1, <1>2, <1>3, <1>4, <1>5, <1>6, <1>7, <1>8, <1>9

LEMMA SweepCollectStep ==
    ASSUME EzdropInv, SweepCollect
    PROVE  EzdropInv'
<1> USE NotUploads DEF EzdropInv, Types, world, disk, counts
<1>1. Types'
  BY DEF SweepCollect, Sweeping, LoopAt, SweepAt
<1>2. LoopOK'
  BY DEF SweepCollect, Sweeping, LoopOK, LoopAt, SweepOK
<1>3. SweepOK'
  BY DEF SweepCollect, Sweeping, SweepOK, SweepAt
<1>4. DueOK'
  BY DEF SweepCollect, Sweeping, DueOK, Due, Filling, LoopOK, SweepOK
<1>5. FilledOK'
  BY DEF SweepCollect, Sweeping, FilledOK, Payload, DueOK, Due, LoopOK
<1>6. ListedIsStored'
  BY DEF SweepCollect, Sweeping, ListedIsStored, Payload, DueOK, FilledOK, Due, LoopOK, SweepOK
<1>7. Covered'
  BY DEF SweepCollect, Sweeping, Covered, Due, Filling, LoopOK, SweepOK, DueOK
<1>8. DownOK'
  BY DEF SweepCollect, Sweeping, DownOK, Idle, Sleep
<1>9. LimitOK'
  BY DEF SweepCollect, Sweeping, LimitOK
<1> QED
  BY <1>1, <1>2, <1>3, <1>4, <1>5, <1>6, <1>7, <1>8, <1>9

LEMMA SweepNextStep ==
    ASSUME EzdropInv, SweepNext
    PROVE  EzdropInv'
<1> USE NotUploads DEF EzdropInv, Types, world, disk, counts
<1>1. /\ sweep.at = "next" /\ sweep.path = None
      /\ UNCHANGED <<status, codes, dirs, files, expired, uploads, loop, sending, sizes, active,
                     starts, inherited, clashed>>
  BY DEF SweepNext, Sweeping, SweepOK
<1>2. CASE sweep.todo = {}
  <2>1. sweep' = Sleep
    BY <1>2 DEF SweepNext
  <2>2. Types' /\ SweepOK'
    BY <1>1, <2>1 DEF Sleep, SweepAt, SweepOK
  <2>3. \A k \in Code : Due(k)' <=> Due(k)
    BY <1>1, <1>2, <2>1 DEF Due, Sleep
  <2>4. DueOK' /\ Covered'
    BY <1>1, <2>3 DEF DueOK, Covered, Filling
  <2>5. DownOK'
    BY <1>1, <2>1 DEF DownOK
  <2> QED
    BY <1>1, <2>2, <2>4, <2>5 DEF LoopOK, FilledOK, ListedIsStored, Payload, LimitOK
<1>3. CASE sweep.todo # {}
  <2>1. PICK k \in sweep.todo :
           sweep' = [sweep EXCEPT !.at = "unlink", !.path = k, !.todo = @ \ {k}]
    BY <1>3 DEF SweepNext
  <2>2. /\ sweep'.at = "unlink" /\ sweep'.path = k /\ sweep'.todo = sweep.todo \ {k}
        /\ sweep'.now = sweep.now /\ k \in Code
        /\ sweep' \in [at : SweepAt, now : SUBSET Upload, todo : SUBSET Code, path : Code \cup {None}]
    BY <2>1 DEF SweepAt
  <2>3. Types'
    BY <1>1, <2>2
  <2>4. SweepOK'
    BY <1>1, <2>2 DEF SweepOK
  <2>5. \A c \in Code : Due(c)' <=> Due(c)
    BY <1>1, <2>2 DEF Due
  <2>6. DueOK' /\ Covered'
    BY <1>1, <2>5 DEF DueOK, Covered, Filling
  <2>7. DownOK'
    BY <1>1, <1>3 DEF DownOK, Sleep
  <2> QED
    BY <1>1, <2>3, <2>4, <2>6, <2>7 DEF LoopOK, FilledOK, ListedIsStored, Payload, LimitOK
<1> QED
  BY <1>2, <1>3

LEMMA SweepDeleteStep ==
    ASSUME EzdropInv, SweepDelete
    PROVE  EzdropInv'
<1> USE NotUploads DEF EzdropInv, Types
<1> DEFINE k == sweep.path
<1>1. /\ k \in Code
      /\ UNCHANGED <<codes, loop>> /\ UNCHANGED world /\ UNCHANGED counts
  BY DEF SweepDelete, Sweeping, SweepOK
(* One step of the three, and what it does to the directory. *)
<1>2. /\ sweep' \in [at : SweepAt, now : SUBSET Upload, todo : SUBSET Code, path : Code \cup {None}]
      /\ sweep'.now = sweep.now /\ sweep'.todo = sweep.todo
      /\ sweep'.at \in {"empty", "rmdir", "next"}
      /\ sweep'.path = IF sweep'.at = "next" THEN None ELSE k
      /\ sweep'.at = "next" <=> sweep.at = "rmdir"
      /\ status # "down" /\ sweep.at # "sleep"
  <2>1. CASE Sweeping("unlink") /\ sweep' = [sweep EXCEPT !.at = "empty"]
    BY <1>1, <2>1 DEF Sweeping, SweepAt
  <2>2. CASE Sweeping("empty") /\ sweep' = [sweep EXCEPT !.at = "rmdir"]
    BY <1>1, <2>2 DEF Sweeping, SweepAt
  <2>3. CASE Sweeping("rmdir") /\ sweep' = [sweep EXCEPT !.at = "next", !.path = None]
    BY <1>1, <2>3 DEF Sweeping, SweepAt
  <2> QED
    BY <2>1, <2>2, <2>3 DEF SweepDelete
<1>3. /\ files' \in [Code -> SUBSET (Upload \cup {Meta})]
      /\ \A c \in Code : c # k => files'[c] = files[c]
      /\ files'[k] \subseteq files[k]
      /\ sweep'.at = "rmdir" => files'[k] = {}
  <2>1. CASE sweep'.at = "empty" /\ UnlinkPayload(k)
    BY <1>1, <2>1 DEF UnlinkPayload
  <2>2. CASE EmptyDir(k)
    BY <1>1, <2>2 DEF EmptyDir
  <2>3. CASE sweep'.at = "next" /\ UNCHANGED files
    BY <2>3
  <2> QED
    BY <2>1, <2>2, <2>3 DEF SweepDelete
<1>4. /\ dirs' \subseteq dirs /\ \A c \in dirs : c # k => c \in dirs'
      /\ sweep'.at = "next" /\ k \notin clashed => k \notin dirs'
  <2>1. CASE sweep'.at # "next" /\ UNCHANGED dirs
    BY <2>1
  <2>2. CASE Sweeping("rmdir") /\ RemoveDir(k)
    BY <2>2 DEF Sweeping, RemoveDir, SweepOK
  <2> QED
    BY <1>2, <2>1, <2>2 DEF SweepDelete, UnlinkPayload, EmptyDir
<1>5. \A c \in Code : Due(c)' => Due(c)
  BY <1>2 DEF Due
<1>6. \A c \in Code : Due(c) => Due(c)' \/ (c = k /\ sweep'.at = "next")
  BY <1>2 DEF Due
<1> HIDE DEF k
<1>7. Types'
  BY <1>1, <1>2, <1>3, <1>4 DEF world, counts
<1>8. LoopOK'
  BY <1>1, <1>3, <1>4 DEF world, LoopOK
<1>9. SweepOK'
  <2>1. expired' = expired /\ clashed' = clashed
    BY <1>1 DEF world
  <2> QED
    BY <1>1, <1>2, <1>3, <2>1 DEF SweepOK
<1>10. DueOK'
  BY <1>1, <1>5 DEF world, DueOK, Filling
<1>11. FilledOK'
  <2>1. loop.at = "insert" /\ loop.code \notin clashed => loop.code \in Code /\ loop.code # k
    BY DEF LoopOK, DueOK, Due, Filling, k
  <2> QED
    BY <1>1, <1>3, <2>1 DEF world, FilledOK, Payload
<1>12. ListedIsStored'
  <2>1. \A c \in Code \ clashed : codes[c] # None => c # k
    BY DEF DueOK, Due, k
  <2> QED
    BY <1>1, <1>3, <1>4, <2>1 DEF world, ListedIsStored, Payload
<1>13. Covered'
  <2>1. \A c \in dirs' \ clashed : Due(c) => Due(c)'
    BY <1>4, <1>6
  <2> QED
    BY <1>1, <1>4, <2>1 DEF world, Covered, Filling
<1>14. DownOK'
  BY <1>1, <1>2 DEF world, DownOK
<1>15. LimitOK'
  BY <1>1 DEF counts, LimitOK
<1> QED
  BY <1>7, <1>8, <1>9, <1>10, <1>11, <1>12, <1>13, <1>14, <1>15

LEMMA StopBeginStep ==
    ASSUME EzdropInv, StopBegin
    PROVE  EzdropInv'
<1> USE NotUploads DEF EzdropInv, Types, world, disk, counts
<1>1. Types'
  BY DEF StopBegin, Running, LoopAt, SweepAt
<1>2. LoopOK'
  BY DEF StopBegin, Running, LoopOK, LoopAt
<1>3. SweepOK'
  BY DEF StopBegin, Running, SweepOK, SweepAt
<1>4. DueOK'
  BY DEF StopBegin, Running, DueOK, Due, Filling, LoopOK, SweepOK
<1>5. FilledOK'
  BY DEF StopBegin, Running, FilledOK, Payload, DueOK, Due, LoopOK
<1>6. ListedIsStored'
  BY DEF StopBegin, Running, ListedIsStored, Payload, DueOK, FilledOK, Due, LoopOK, SweepOK
<1>7. Covered'
  BY DEF StopBegin, Running, Covered, Due, Filling, LoopOK, SweepOK, DueOK
<1>8. DownOK'
  BY DEF StopBegin, Running, DownOK, Idle, Sleep
<1>9. LimitOK'
  BY DEF StopBegin, Running, LimitOK
<1> QED
  BY <1>1, <1>2, <1>3, <1>4, <1>5, <1>6, <1>7, <1>8, <1>9

LEMMA StopEndStep ==
    ASSUME EzdropInv, StopEnd
    PROVE  EzdropInv'
<1> USE NotUploads DEF EzdropInv, Types, world, disk, counts
<1>1. Types'
  BY DEF StopEnd, Forget, Idle, Sleep, LoopAt, SweepAt
<1>2. LoopOK'
  BY DEF StopEnd, Forget, Idle, Sleep, LoopOK, LoopAt
<1>3. SweepOK'
  BY DEF StopEnd, Forget, Idle, Sleep, SweepOK, SweepAt
<1>4. DueOK'
  BY DEF StopEnd, Forget, Idle, Sleep, DueOK, Due, Filling, LoopOK, SweepOK
<1>5. FilledOK'
  BY DEF StopEnd, Forget, Idle, Sleep, FilledOK, Payload, DueOK, Due, LoopOK
<1>6. ListedIsStored'
  BY DEF StopEnd, Forget, Idle, Sleep, ListedIsStored, Payload, DueOK, FilledOK, Due, LoopOK, SweepOK
<1>7. Covered'
  BY DEF StopEnd, Forget, Idle, Sleep, Covered, Due, Filling, LoopOK, SweepOK, DueOK
<1>8. DownOK'
  BY DEF StopEnd, Forget, Idle, Sleep, DownOK
<1>9. LimitOK'
  BY FS_EmptySet, EzdropAssumption DEF StopEnd, Forget, Idle, Sleep, LimitOK
<1> QED
  BY <1>1, <1>2, <1>3, <1>4, <1>5, <1>6, <1>7, <1>8, <1>9

LEMMA CrashStep ==
    ASSUME EzdropInv, Crash
    PROVE  EzdropInv'
<1> USE NotUploads DEF EzdropInv, Types, world, disk, counts
<1>1. Types'
  BY DEF Crash, Forget, Idle, Sleep, LoopAt, SweepAt
<1>2. LoopOK'
  BY DEF Crash, Forget, Idle, Sleep, LoopOK, LoopAt
<1>3. SweepOK'
  BY DEF Crash, Forget, Idle, Sleep, SweepOK, SweepAt
<1>4. DueOK'
  BY DEF Crash, Forget, Idle, Sleep, DueOK, Due, Filling, LoopOK, SweepOK
<1>5. FilledOK'
  BY DEF Crash, Forget, Idle, Sleep, FilledOK, Payload, DueOK, Due, LoopOK
<1>6. ListedIsStored'
  BY DEF Crash, Forget, Idle, Sleep, ListedIsStored, Payload, DueOK, FilledOK, Due, LoopOK, SweepOK
<1>7. Covered'
  BY DEF Crash, Forget, Idle, Sleep, Covered, Due, Filling, LoopOK, SweepOK, DueOK
<1>8. DownOK'
  BY DEF Crash, Forget, Idle, Sleep, DownOK
<1>9. LimitOK'
  BY FS_EmptySet, EzdropAssumption DEF Crash, Forget, Idle, Sleep, LimitOK
<1> QED
  BY <1>1, <1>2, <1>3, <1>4, <1>5, <1>6, <1>7, <1>8, <1>9

LEMMA RestartStep ==
    ASSUME EzdropInv, Restart
    PROVE  EzdropInv'
<1> USE NotUploads DEF EzdropInv, Types, world, disk, counts
<1>1. Types'
  BY EzdropAssumption DEF Restart, LoopAt, SweepAt
<1>2. LoopOK'
  BY DEF Restart, LoopOK, LoopAt
<1>3. SweepOK'
  BY DEF Restart, SweepOK, SweepAt, DownOK, Idle, Sleep
<1>4. DueOK'
  BY DEF Restart, DueOK, Due, Filling, LoopOK, SweepOK, DownOK, Idle, Sleep
<1>5. FilledOK'
  BY DEF Restart, FilledOK, Payload, DueOK, Due, LoopOK, DownOK, Idle, Sleep
<1>6. ListedIsStored'
  BY DEF Restart, ListedIsStored, Payload, DueOK, FilledOK, Due, LoopOK, SweepOK, DownOK, Idle, Sleep
<1>7. Covered'
  BY DEF Restart, Covered, Due, Filling, LoopOK, SweepOK, DueOK
<1>8. DownOK'
  BY DEF Restart, DownOK, Idle, Sleep
<1>9. LimitOK'
  BY DEF Restart, LimitOK
<1> QED
  BY <1>1, <1>2, <1>3, <1>4, <1>5, <1>6, <1>7, <1>8, <1>9

LEMMA ExpireStep ==
    ASSUME EzdropInv, NEW u \in Upload, Expire(u)
    PROVE  EzdropInv'
<1> USE NotUploads DEF EzdropInv, Types, world, disk, counts
<1>1. Types'
  BY DEF Expire, LoopAt, SweepAt
<1>2. LoopOK'
  BY DEF Expire, LoopOK, LoopAt
<1>3. SweepOK'
  BY DEF Expire, SweepOK, SweepAt
<1>4. DueOK'
  BY DEF Expire, DueOK, Due, Filling, LoopOK, SweepOK
<1>5. FilledOK'
  BY DEF Expire, FilledOK, Payload, DueOK, Due, LoopOK
<1>6. ListedIsStored'
  BY DEF Expire, ListedIsStored, Payload, DueOK, FilledOK, Due, LoopOK, SweepOK
<1>7. Covered'
  BY DEF Expire, Covered, Due, Filling, LoopOK, SweepOK, DueOK
<1>8. DownOK'
  BY DEF Expire, DownOK, Idle, Sleep
<1>9. LimitOK'
  BY DEF Expire, LimitOK
<1> QED
  BY <1>1, <1>2, <1>3, <1>4, <1>5, <1>6, <1>7, <1>8, <1>9

LEMMA NextInv == EzdropInv /\ [Next]_vars => EzdropInv'
<1> SUFFICES ASSUME EzdropInv, [Next]_vars PROVE EzdropInv'
  OBVIOUS
<1>1. CASE LoopStep
  BY <1>1, UploadCodeStep, UploadMkdirStep, UploadStoreStep, UploadInsertStep, DownloadLookupStep,
     DownloadExpiredStep, DownloadDeleteStep, DownloadCountStep, DownloadSetFileStep,
     DownloadSendStep, CompleteStep, Zenon DEF LoopStep
<1>2. CASE Sweeper
  BY <1>2, SweepNowStep, SweepCollectStep, SweepNextStep, SweepDeleteStep, Zenon DEF Sweeper
<1>3. CASE StopBegin \/ StopEnd \/ Crash \/ Restart
  BY <1>3, StopBeginStep, StopEndStep, CrashStep, RestartStep, Zenon
<1>4. ASSUME NEW u \in Upload, Expire(u) PROVE EzdropInv'
  BY <1>4, ExpireStep
<1>5. CASE UNCHANGED vars
  BY <1>5 DEF vars, world, disk, counts, EzdropInv, Types, LoopOK, SweepOK, DueOK, Due, Filling,
              FilledOK, Payload, ListedIsStored, Covered, DownOK, LimitOK
<1> QED
  BY <1>1, <1>2, <1>3, <1>4, <1>5, Zenon DEF Next

LEMMA EzdropInvariant == Spec => []EzdropInv
  BY InitInv, NextInv, PTL DEF Spec

-----------------------------------------------------------------------------
(* A code that is listed and has not expired leads to its own upload and   *)
(* to nothing else, in whatever order the loop thread and the sweeper      *)
(* unlink, empty and remove, with a crash between any two steps; unless    *)
(* the code was given out while its old storage was still to be deleted.   *)
THEOREM ListedUploadsAreThere == Spec => []ListedIsStored
<1>1. EzdropInv => ListedIsStored
  BY DEF EzdropInv
<1> QED
  BY <1>1, EzdropInvariant, PTL

(* No directory is left behind that nobody lists and nobody is at work on, *)
(* but for those from before the start and those of a code given out early.*)
THEOREM NoStorageIsLeftBehind == Spec => []NothingLeftBehind
<1>1. EzdropInv => NothingLeftBehind
  BY DEF EzdropInv, Types, Covered, Due, Filling, NothingLeftBehind
<1> QED
  BY <1>1, EzdropInvariant, PTL

(* Never more downloads in flight than maxConcurrentDownloads_, although   *)
(* the limit is tested when the code is looked up and the download is      *)
(* counted and sent several steps later; each holds a place in the count.  *)
THEOREM DownloadsAreLimited == Spec => []LimitHolds
<1>1. EzdropInv => LimitHolds
  <2> SUFFICES ASSUME EzdropInv PROVE LimitHolds
    OBVIOUS
  <2>1. IsFiniteSet(sizes) /\ sending \subseteq sizes /\ active \in Nat /\ MaxActive \in Nat
        /\ Cardinality(sizes) <= active /\ (MaxActive > 0 => active <= MaxActive)
    BY EzdropAssumption, FS_Subset DEF EzdropInv, Types, LimitOK
  <2>2. Cardinality(sending) <= Cardinality(sizes) /\ Cardinality(sizes) \in Nat
        /\ Cardinality(sending) \in Nat
    BY <2>1, FS_Subset, FS_CardinalityType
  <2> QED
    BY <2>1, <2>2 DEF LimitHolds
<1> QED
  BY <1>1, EzdropInvariant, PTL
=============================================================================
