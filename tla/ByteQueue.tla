------------------------------- MODULE ByteQueue -------------------------------
(***************************************************************************)
(* What a Buffer promises: bytes come out in the order they went in, none  *)
(* lost, repeated or changed, and what is put in front comes out first.    *)
(* There is room in front for HeadRoom bytes until some of it is used.  No     *)
(* indices, no storage, no compaction here.                                *)
(***************************************************************************)
EXTENDS Naturals, Sequences

CONSTANTS Chunks,  \* the runs of bytes that may be put in
          HeadRoom     \* the room in front of an empty queue

VARIABLES queue,   \* the bytes held, oldest first
          room     \* how many bytes may at least still be put in front

qvars == <<queue, room>>

Init == queue = <<>> /\ room = HeadRoom

(* Only Prepend uses room up; any other call may give some back. *)
KeepsRoom == room <= room' /\ room' <= HeadRoom

Put(data) == queue' = queue \o data /\ KeepsRoom
Get(n)    == queue' = SubSeq(queue, n + 1, Len(queue)) /\ KeepsRoom
GetAll    == queue' = <<>> /\ room' = HeadRoom
Rearrange == UNCHANGED queue /\ KeepsRoom

Prepend(data) ==
    /\ queue' = data \o queue
    /\ room - Len(data) <= room' /\ room' <= HeadRoom

Next ==
    \/ \E data \in Chunks : Put(data) \/ Prepend(data)
    \/ \E n \in 0 .. Len(queue) : Get(n)
    \/ GetAll \/ Rearrange

Spec == Init /\ [][Next]_qvars
=============================================================================
