----------------------------- MODULE ImageHosting -----------------------------
(***************************************************************************)
(* examples/image_hosting/{ImageHosting,main}.cpp over the thread pool:    *)
(* the loop thread answers an upload with its URL as soon as the pool has  *)
(* taken the body, a worker writes the file, and the loop thread serves    *)
(* images that may be half written.  Tasks are uploads, named apart by     *)
(* generateUUID; the pool's one caller is the loop thread.                 *)
(*                                                                         *)
(* Left out: uploads without a body and bad names, answered with 400 and   *)
(* no other effect; a lookup that finds no file, answered with 404.        *)
(***************************************************************************)
EXTENDS ThreadPool, Integers

CONSTANTS Server,    \* the loop thread
          Units      \* the length of a file, in units of a write

ASSUME ImageHostingAssumption == Caller = {Server} /\ Units \in Nat \ {0}

VARIABLES up,        \* the process runs; FALSE: an exception nobody catches
          disk,      \* how much of each image's file is on the disk; -1: no file
          writer,    \* whether each worker has its file open
          failed,    \* history: uploads whose file could not be written
          looked     \* the image the loop thread's GET handler has found, or None

fvars   == <<up, disk, writer, failed, looked>>
allvars == <<vars, fvars>>

Accepted == Elems(tasks) \cup Running \cup finished
Stored   == {i \in Task : disk[i] = Units}

UploadInit ==
    /\ Init
    /\ up = TRUE
    /\ disk = [i \in Task |-> -1]
    /\ writer = [w \in Worker |-> "closed"]
    /\ failed = {}
    /\ looked = None

-----------------------------------------------------------------------------
(* The loop thread between handlers; enqueue returns after notify_one. *)
Idle == up /\ looked = None /\ notifying = {}

(* handleUpload; the exception of a full pool leaves main. *)
Upload(i) ==
    /\ Idle
    /\ \/ Enqueue(Server, i) /\ UNCHANGED up
       \/ EnqueueThrows(Server, i) /\ up' = FALSE
    /\ UNCHANGED <<disk, writer, failed, looked>>

(* GET /img/:filename: stat finds the file; setFile's own stat, whose size *)
(* is what Content-Length says and sendFile sends, comes later.            *)
Find(i) ==
    /\ Idle /\ phase = "alive"
    /\ disk[i] >= 0
    /\ looked' = i
    /\ UNCHANGED <<vars, up, disk, writer, failed>>

Serve ==
    /\ up /\ looked # None
    /\ looked' = None
    /\ UNCHANGED <<vars, up, disk, writer, failed>>

(* The task: open, write, close.  A write that fails leaves the file short *)
(* and is not reported to anybody, nor is a file that cannot be opened.    *)
Open(w) ==
    /\ up /\ wpc[w] = "running" /\ writer[w] = "closed"
    /\ \/ /\ disk' = [disk EXCEPT ![wtask[w]] = 0]
          /\ writer' = [writer EXCEPT ![w] = "open"]
          /\ UNCHANGED <<vars, failed>>
       \/ /\ failed' = failed \cup {wtask[w]}
          /\ Done(w)
          /\ UNCHANGED <<disk, writer>>
    /\ UNCHANGED <<up, looked>>

Write(w) ==
    /\ up /\ writer[w] = "open" /\ disk[wtask[w]] < Units
    /\ disk' = [disk EXCEPT ![wtask[w]] = @ + 1]
    /\ UNCHANGED <<vars, up, writer, failed, looked>>

(* Seeded fault: the task returns without waiting for the data. *)
CloseEarly(w) ==
    /\ up /\ writer[w] = "open"
    /\ UNCHANGED failed
    /\ writer' = [writer EXCEPT ![w] = "closed"]
    /\ Done(w)
    /\ UNCHANGED <<up, disk, looked>>

Close(w) ==
    /\ up /\ writer[w] = "open"
    /\ IF disk[wtask[w]] = Units THEN UNCHANGED failed
       ELSE failed' = failed \cup {wtask[w]}
    /\ writer' = [writer EXCEPT ![w] = "closed"]
    /\ Done(w)
    /\ UNCHANGED <<up, disk, looked>>

WorkerStep(w) ==
    \/ Open(w) \/ Write(w) \/ Close(w)
    \/ up /\ (Wait(w) \/ Exit(w) \/ Take(w)) /\ UNCHANGED fvars

(* main leaves loop() on a signal and destroys the ImageHosting, and with  *)
(* it the pool, before anything else.                                      *)
Shutdown == Idle /\ Destroy /\ UNCHANGED fvars

PoolStep ==
    /\ up
    /\ \/ \E w \in Worker : Spawn(w) \/ Spurious(w)
       \/ Notify(Server) \/ SpawnFails \/ NotifyAll \/ Joined
    /\ UNCHANGED fvars

UploadNext ==
    \/ \E i \in Task : Upload(i) \/ Find(i)
    \/ Serve
    \/ \E w \in Worker : WorkerStep(w)
    \/ Shutdown \/ PoolStep

(* As for ThreadPool; the loop thread finishes what it has begun. *)
UploadFairness ==
    /\ \A w \in Worker : WF_allvars(WorkerStep(w))
    /\ WF_allvars(up /\ (Notify(Server) \/ NotifyAll \/ Joined) /\ UNCHANGED fvars)

UploadSpec == UploadInit /\ [][UploadNext]_allvars /\ UploadFairness

-----------------------------------------------------------------------------
(* An upload that has been answered is stored in the end, also if the      *)
(* server is shut down meanwhile, unless its file cannot be written or a   *)
(* burst of uploads ends the process.                                      *)
AnsweredIsStored ==
    \A i \in Task : (i \in Accepted) ~> (i \in Stored \cup failed \/ ~up)

(* Half an image is served only while a worker is writing it, or after     *)
(* writing it has failed.                                                  *)
ServedWhole ==
    [][Serve /\ disk[looked] < Units => looked \in Running \cup failed]_allvars
=============================================================================
