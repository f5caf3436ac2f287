-------------------------------- MODULE Ezdrop --------------------------------
(***************************************************************************)
(* src/examples/ezdrop/EzdropServer.{h,cpp}: uploads are stored under a    *)
(* pick-up code, downloaded by it, and deleted when they have expired.     *)
(*                                                                         *)
(* Two threads share the code table (under metaMutex_) and the disk (under *)
(* nothing): the loop thread, which runs one handler at a time, and the    *)
(* expiry sweeper.  A step is one critical section or one file operation.  *)
(* An upload is a number; its meta data, storage path and payload go by    *)
(* that number and by its code.  Connections appear by their descriptor,   *)
(* the key of the table of active downloads.                               *)
(***************************************************************************)
EXTENDS Integers, FiniteSets

CONSTANTS
    Code,         \* pick-up codes
    Fd,           \* descriptors of connections
    MaxUploads,   \* how many uploads are attempted
    MaxActive,    \* maxConcurrentDownloads_; 0: no limit
    MaxStarts     \* how many times the server is started

Upload == 1 .. MaxUploads
None   == 0
Meta   == 0               \* meta.json, among the files of a directory

ASSUME EzdropAssumption ==
    /\ IsFiniteSet(Code) /\ IsFiniteSet(Fd) /\ None \notin Code
    /\ MaxUploads \in Nat /\ MaxActive \in Nat /\ MaxStarts \in Nat \ {0}

VARIABLES
    status,     \* "up", "stopping" (in the destructor) or "down"
    codes,      \* codes_: the upload behind each code
    dirs,       \* disk: the codes that have a directory
    files,      \* disk: what is in it, payloads (as uploads) and Meta
    expired,    \* uploads whose expireAt has passed
    uploads,    \* how many have been attempted
    loop,       \* the loop thread: what it does next, for which upload, code and fd
    sweep,      \* the sweeper: what it does next, its now, the paths it collected
    sending,    \* connections with a download in flight
    sizes,      \* activeDownloadSizes_: its keys
    active,     \* activeDownloads_
    starts,     \* how many times the server has been started
    inherited,  \* history: codes whose directory was there when the server started
    clashed     \* history: codes given out while a deletion under that code was due

disk   == <<dirs, files>>
counts == <<sending, sizes, active>>
world  == <<status, expired, uploads, starts, inherited, clashed>>
vars   == <<world, codes, disk, loop, sweep, counts>>

Idle  == [at |-> "idle", up |-> None, code |-> None, fd |-> None]
Sleep == [at |-> "sleep", now |-> {}, todo |-> {}, path |-> None]

Init ==
    /\ codes = [k \in Code |-> None]
    /\ loop = Idle /\ sweep = Sleep
    /\ sending = {} /\ sizes = {} /\ active = 0
    /\ status = "up" /\ starts = 1
    /\ dirs = {} /\ files = [k \in Code |-> {}]
    /\ expired = {} /\ uploads = 0
    /\ inherited = {} /\ clashed = {}

Payload(k) == files[k] \cap Upload

(* Deleting storage: unlink the payload; removeDir, which empties the      *)
(* directory and then removes it unless something has come in meanwhile.   *)
UnlinkPayload(k) == files' = [files EXCEPT ![k] = @ \ Upload] /\ UNCHANGED dirs
EmptyDir(k)      == files' = [files EXCEPT ![k] = {}] /\ UNCHANGED dirs
RemoveDir(k)     == dirs' = IF files[k] = {} THEN dirs \ {k} ELSE dirs

-----------------------------------------------------------------------------
(* Loop thread *)

Running(at) == status = "up" /\ loop.at = at
Goto(at)    == loop' = [loop EXCEPT !.at = at]
Reply       == loop' = Idle

(* generateCode, under the lock: a code that is not in codes_. *)
Fresh(k) == codes[k] = None

(* handleUpload up to the code: what it refuses before that, and the files *)
(* in its temporary directory, are nobody else's business.                 *)
UploadCode(k) ==
    /\ Running("idle") /\ uploads < MaxUploads
    /\ Fresh(k)
    /\ uploads' = uploads + 1
    /\ loop' = [Idle EXCEPT !.at = "mkdir", !.up = uploads', !.code = k]
    /\ UNCHANGED <<status, expired, starts, inherited, clashed, codes, disk, sweep, counts>>

(* mkdir refuses a directory that exists: 500. *)
UploadMkdir ==
    LET k == loop.code IN
    /\ Running("mkdir")
    /\ IF k \in dirs THEN Reply /\ UNCHANGED <<dirs, clashed>>
       ELSE /\ Goto("store")
            /\ dirs' = dirs \cup {k}
            /\ clashed' = IF k \in sweep.todo \cup {sweep.path} THEN clashed \cup {k} ELSE clashed
    /\ UNCHANGED <<status, expired, uploads, starts, inherited, codes, files, sweep, counts>>

(* rename or tar puts the payload into the directory, or fails: then the   *)
(* directory is removed again.                                             *)
UploadStore ==
    LET k == loop.code IN
    /\ Running("store")
    /\ \/ /\ k \in dirs
          /\ files' = [files EXCEPT ![k] = (@ \ Upload) \cup {loop.up}]
          /\ Goto("insert") /\ UNCHANGED dirs
       \/ /\ files' = [files EXCEPT ![k] = {}]
          /\ dirs' = dirs \ {k}
          /\ Reply
    /\ UNCHANGED <<world, codes, sweep, counts>>

(* meta.json, and the entry in codes_. *)
UploadInsert ==
    LET k == loop.code IN
    /\ Running("insert")
    /\ files' = IF k \in dirs THEN [files EXCEPT ![k] = @ \cup {Meta}] ELSE files
    /\ codes' = [codes EXCEPT ![k] = loop.up]
    /\ Reply
    /\ UNCHANGED <<world, dirs, sweep, counts>>

(* Seeded fault: one download more than the limit. *)
FullTooLate == MaxActive > 0 /\ active > MaxActive

Full == MaxActive > 0 /\ active >= MaxActive

(* handleDownload: the limit, and the look-up under the lock.  503 and 404 *)
(* leave everything as it is.  A client may ask for a download while one   *)
(* is in flight on its connection: it is counted once more, under the same *)
(* key, and then sendFile ignores it.                                      *)
DownloadLookup(k, fd) ==
    /\ Running("idle")
    /\ ~Full /\ codes[k] # None
    /\ loop' = [at |-> "check", up |-> codes[k], code |-> k, fd |-> fd]
    /\ UNCHANGED <<world, codes, disk, sweep, counts>>

DownloadExpired ==
    /\ Running("check") /\ loop.up \in expired
    /\ Goto("unlink")
    /\ UNCHANGED <<world, codes, disk, sweep, counts>>

(* Expired: delete the storage, then the entry; 410. *)
DownloadDelete ==
    /\ \/ Running("unlink") /\ UnlinkPayload(loop.code) /\ Goto("empty") /\ UNCHANGED codes
       \/ Running("empty") /\ EmptyDir(loop.code) /\ Goto("rmdir") /\ UNCHANGED codes
       \/ Running("rmdir") /\ RemoveDir(loop.code) /\ Goto("erase") /\ UNCHANGED <<codes, files>>
       \/ Running("erase") /\ codes' = [codes EXCEPT ![loop.code] = None]
                           /\ Reply /\ UNCHANGED disk
    /\ UNCHANGED <<world, sweep, counts>>

(* stat: a payload that is missing is forgotten, 404; else the download is *)
(* counted under the connection's descriptor.                              *)
DownloadCount ==
    /\ Running("check") /\ loop.up \notin expired
    /\ IF Payload(loop.code) = {}
       THEN /\ codes' = [codes EXCEPT ![loop.code] = None]
            /\ Reply /\ UNCHANGED counts
       ELSE /\ sizes' = sizes \cup {loop.fd}
            /\ active' = active + 1
            /\ Goto("setFile") /\ UNCHANGED <<codes, sending>>
    /\ UNCHANGED <<world, disk, sweep>>

(* setFile looks again: 404 if the payload has gone. *)
DownloadSetFile ==
    /\ Running("setFile")
    /\ IF Payload(loop.code) = {} THEN Reply ELSE Goto("open")
    /\ UNCHANGED <<world, codes, disk, sweep, counts>>

(* HttpServer::processRequest: open fails, 410; the requested range cannot *)
(* be satisfied, 416; or the file goes out.                                *)
DownloadSend ==
    /\ Running("open")
    /\ \/ Payload(loop.code) # {} /\ sending' = sending \cup {loop.fd}
       \/ UNCHANGED sending
    /\ Reply
    /\ UNCHANGED <<world, codes, disk, sweep, sizes, active>>

(* onWriteComplete, the hook. *)
OnWriteComplete(fd) ==
    IF fd \in sizes THEN sizes' = sizes \ {fd} /\ active' = active - 1
                    ELSE UNCHANGED <<sizes, active>>

(* A download is complete; the connection closes and its number is free.   *)
(* Or another response that needed more than one write is, which calls the *)
(* same hook.                                                              *)
Complete(fd) ==
    /\ Running("idle")
    /\ OnWriteComplete(fd)
    /\ sending' = sending \ {fd}
    /\ UNCHANGED <<world, codes, disk, loop, sweep>>

LoopStep ==
    \/ \E k \in Code : UploadCode(k)
    \/ UploadMkdir \/ UploadStore \/ UploadInsert
    \/ \E k \in Code, fd \in Fd : DownloadLookup(k, fd)
    \/ DownloadExpired \/ DownloadDelete
    \/ DownloadCount \/ DownloadSetFile \/ DownloadSend
    \/ \E fd \in Fd : Complete(fd)

-----------------------------------------------------------------------------
(* Sweeper thread *)

Sweeping(at) == status # "down" /\ sweep.at = at

(* After a minute; unless the server is stopping.  now is read first. *)
SweepNow ==
    /\ Sweeping("sleep") /\ status = "up"
    /\ sweep' = [Sleep EXCEPT !.at = "lock", !.now = expired]
    /\ UNCHANGED <<world, codes, disk, loop, counts>>

(* Seeded faults: everything is collected, what has expired is erased; or  *)
(* the paths are not remembered.                                           *)
SweepCollectAll ==
    LET old == {k \in Code : codes[k] \in sweep.now} IN
    /\ Sweeping("lock")
    /\ codes' = [k \in Code |-> IF k \in old THEN None ELSE codes[k]]
    /\ sweep' = [sweep EXCEPT !.at = "next", !.todo = {k \in Code : codes[k] # None}]
    /\ UNCHANGED <<world, disk, loop, counts>>
SweepCollectNothing ==
    LET old == {k \in Code : codes[k] \in sweep.now} IN
    /\ Sweeping("lock")
    /\ codes' = [k \in Code |-> IF k \in old THEN None ELSE codes[k]]
    /\ sweep' = [sweep EXCEPT !.at = "next", !.todo = {}]
    /\ UNCHANGED <<world, disk, loop, counts>>

(* Under the lock: erase what has expired, remember its paths. *)
SweepCollect ==
    LET old == {k \in Code : codes[k] \in sweep.now} IN
    /\ Sweeping("lock")
    /\ codes' = [k \in Code |-> IF k \in old THEN None ELSE codes[k]]
    /\ sweep' = [sweep EXCEPT !.at = "next", !.todo = old]
    /\ UNCHANGED <<world, disk, loop, counts>>

(* Outside the lock: one path after the other. *)
SweepNext ==
    /\ Sweeping("next")
    /\ IF sweep.todo = {} THEN sweep' = Sleep
       ELSE \E k \in sweep.todo :
               sweep' = [sweep EXCEPT !.at = "unlink", !.path = k, !.todo = @ \ {k}]
    /\ UNCHANGED <<world, codes, disk, loop, counts>>

(* Seeded fault: the directory stays. *)
SweepDeletePayload ==
    /\ \/ Sweeping("unlink") /\ UnlinkPayload(sweep.path)
                             /\ sweep' = [sweep EXCEPT !.at = "empty"]
       \/ Sweeping("empty")  /\ sweep' = [sweep EXCEPT !.at = "next", !.path = None]
                             /\ UNCHANGED disk
    /\ UNCHANGED <<world, codes, loop, counts>>

SweepDelete ==
    /\ \/ Sweeping("unlink") /\ UnlinkPayload(sweep.path)
                             /\ sweep' = [sweep EXCEPT !.at = "empty"]
       \/ Sweeping("empty")  /\ EmptyDir(sweep.path)
                             /\ sweep' = [sweep EXCEPT !.at = "rmdir"]
       \/ Sweeping("rmdir")  /\ RemoveDir(sweep.path) /\ UNCHANGED files
                             /\ sweep' = [sweep EXCEPT !.at = "next", !.path = None]
    /\ UNCHANGED <<world, codes, loop, counts>>

Sweeper == SweepNow \/ SweepCollect \/ SweepNext \/ SweepDelete

-----------------------------------------------------------------------------
(* The process *)

(* main returns from loop() and destroys the server. *)
StopBegin ==
    /\ Running("idle")
    /\ status' = "stopping"
    /\ UNCHANGED <<expired, uploads, starts, inherited, clashed, codes, disk, loop, sweep, counts>>

(* What is in memory is gone. *)
Forget ==
    /\ codes' = [k \in Code |-> None]
    /\ loop' = Idle /\ sweep' = Sleep
    /\ sending' = {} /\ sizes' = {} /\ active' = 0

(* ~EzdropServer, once the sweeper has been joined: delete what is listed. *)
StopEnd ==
    /\ status = "stopping" /\ sweep = Sleep
    /\ status' = "down"
    /\ files' = [k \in Code |-> IF codes[k] # None THEN {} ELSE files[k]]
    /\ dirs' = {k \in dirs : codes[k] = None}
    /\ Forget
    /\ UNCHANGED <<expired, uploads, starts, inherited, clashed>>

(* The process is killed, or terminated by an exception as a client that   *)
(* leaves in the middle of a download does (see HttpConnection).           *)
Crash ==
    /\ status # "down"
    /\ status' = "down"
    /\ Forget
    /\ UNCHANGED <<expired, uploads, starts, inherited, clashed, disk>>

(* Nothing is read back from the disk. *)
Restart ==
    /\ status = "down" /\ starts < MaxStarts
    /\ status' = "up" /\ starts' = starts + 1
    /\ inherited' = dirs
    /\ clashed' = {}
    /\ UNCHANGED <<expired, uploads, codes, disk, loop, sweep, counts>>

(* expireAt passes for an upload that has been inserted. *)
Expire(u) ==
    /\ u <= uploads /\ u \notin expired /\ u # loop.up
    /\ expired' = expired \cup {u}
    /\ UNCHANGED <<status, uploads, starts, inherited, clashed, codes, disk, loop, sweep, counts>>

Next ==
    \/ LoopStep \/ Sweeper
    \/ StopBegin \/ StopEnd \/ Crash \/ Restart
    \/ \E u \in Upload : Expire(u)

(* Both threads run; the sweeper comes back every minute. *)
Fairness == WF_vars(Sweeper) /\ WF_vars(StopEnd)

Spec     == Init /\ [][Next]_vars
FairSpec == Spec /\ Fairness

-----------------------------------------------------------------------------
TypeOK ==
    /\ status \in {"up", "stopping", "down"}
    /\ codes \in [Code -> Upload \cup {None}]
    /\ dirs \subseteq Code
    /\ files \in [Code -> SUBSET (Upload \cup {Meta})]
    /\ expired \subseteq Upload /\ uploads \in 0 .. MaxUploads
    /\ loop.at \in {"idle", "mkdir", "store", "insert", "check", "unlink", "empty",
                    "rmdir", "erase", "setFile", "open"}
    /\ loop.up \in Upload \cup {None}
    /\ loop.code \in Code \cup {None} /\ loop.fd \in Fd \cup {None}
    /\ sweep.at \in {"sleep", "lock", "next", "unlink", "empty", "rmdir"}
    /\ sweep.now \subseteq Upload
    /\ sweep.todo \subseteq Code /\ sweep.path \in Code \cup {None}
    /\ sending \subseteq Fd /\ sizes \subseteq Fd /\ active \in Nat
    /\ starts \in 1 .. MaxStarts
    /\ inherited \subseteq Code /\ clashed \subseteq Code

(* A code that is listed and has not expired leads to its own upload, and  *)
(* nothing else is under it: whatever the two threads delete meanwhile.    *)
(* Only a code given out again while its old storage is still due to be    *)
(* deleted can lose its upload.                                            *)
ListedIsStored ==
    \A k \in Code \ clashed :
        codes[k] # None /\ codes[k] \notin expired => Payload(k) = {codes[k]}

(* Nothing is left on the disk: a directory is listed, or the loop thread  *)
(* or the sweeper is at work on it.  Left behind are only those from       *)
(* before the start, since nothing reads meta.json, and those of a code    *)
(* that was given out too early.                                           *)
NothingLeftBehind ==
    status = "up" =>
        \A k \in dirs \ (inherited \cup clashed) :
            codes[k] # None \/ loop.code = k \/ k \in sweep.todo \cup {sweep.path}

(* At most maxConcurrentDownloads_ downloads are in flight, and each one   *)
(* has a place in the count that its own completion gives back.            *)
LimitHolds ==
    /\ MaxActive > 0 => Cardinality(sending) <= MaxActive
    /\ sending \subseteq sizes /\ Cardinality(sizes) <= active

(* An expired upload is deleted from the disk, by whoever comes first,     *)
(* unless the server goes down before.                                     *)
ExpiredIsDeleted ==
    \A k \in Code, u \in Upload :
        (status = "up" /\ k \notin inherited /\ u \in files[k] /\ u \in expired)
            ~> (u \notin files[k] \/ status = "down")

(* Contrast with EzdropServer.cpp:829, "record the active download (before *)
(* the asynchronous sendfile)": between handlers the count would be the    *)
(* number of downloads in flight.                                          *)
CountIsInFlight == loop = Idle => active = Cardinality(sending)
=============================================================================
