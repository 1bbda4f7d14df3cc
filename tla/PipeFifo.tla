------------------------------ MODULE PipeFifo ------------------------------
(***************************************************************************)
(* What a pipe promises: a bounded queue of bytes with two ends.  A write  *)
(* appends the bytes of its caller in order, each once, in one or more     *)
(* pieces; a read returns the oldest bytes, or nothing once the queue is   *)
(* empty and the write end closed; what is in the queue goes only by being *)
(* read, or with the last end.                                             *)
(***************************************************************************)
EXTENDS Integers, Sequences

CONSTANTS
    Capacity,
    Procs,
    Writes              \* what a write call may write

VARIABLES
    queue,              \* bytes written and not read
    todo,               \* per process: bytes of its write not yet in the queue
    got,                \* what the last read returned
    readers, writers    \* whether the read end, the write end is open

vars == <<queue, todo, got, readers, writers>>

Init ==
    /\ queue = <<>> /\ got = <<>> /\ ~readers /\ ~writers
    /\ todo = [p \in Procs |-> <<>>]

Open ==
    /\ ~readers /\ ~writers
    /\ readers' /\ writers'
    /\ UNCHANGED <<queue, todo, got>>

StartWrite(p) ==
    /\ writers /\ todo[p] = <<>>
    /\ \E s \in Writes : todo' = [todo EXCEPT ![p] = s]
    /\ UNCHANGED <<queue, got, readers, writers>>

\* The next bytes of p's write go into the queue.  The write goes on from there,
\* or gives up, for which the queue must be full.
Put(p) ==
    \E k \in 0..Len(todo[p]) :
      /\ writers /\ Len(queue) + k <= Capacity
      /\ queue' = queue \o SubSeq(todo[p], 1, k)
      /\ \/ todo' = [todo EXCEPT ![p] = SubSeq(@, k + 1, Len(@))]
         \/ todo' = [todo EXCEPT ![p] = <<>>] /\ Len(queue') = Capacity
      /\ UNCHANGED <<got, readers, writers>>

\* A read returns some of the oldest bytes, or end of file.
Get ==
    \E k \in 0..Len(queue) :
      /\ readers /\ (k = 0 => queue = <<>> /\ ~writers)
      /\ got' = SubSeq(queue, 1, k)
      /\ queue' = SubSeq(queue, k + 1, Len(queue))
      /\ UNCHANGED <<todo, readers, writers>>

\* One end closes; the second takes the queue with it.  No write is under way
\* when the write end closes.
CloseRead ==
    /\ readers /\ ~readers'
    /\ queue' = IF writers THEN queue ELSE <<>>
    /\ UNCHANGED <<todo, got, writers>>

CloseWrite ==
    /\ writers /\ ~writers' /\ \A p \in Procs : todo[p] = <<>>
    /\ queue' = IF readers THEN queue ELSE <<>>
    /\ UNCHANGED <<todo, got, readers>>

Next ==
    \/ Open \/ Get \/ CloseRead \/ CloseWrite
    \/ \E p \in Procs : StartWrite(p) \/ Put(p)

Spec == Init /\ [][Next]_vars
=============================================================================
