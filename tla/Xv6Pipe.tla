------------------------------ MODULE Xv6Pipe -------------------------------
(***************************************************************************)
(* Pipes (pipe.c), the table of open files (file.c) and the descriptors of *)
(* processes (sys_pipe, sys_dup, sys_close, fork and exit), shared by      *)
(* several processes.                                                      *)
(*                                                                         *)
(* A step runs while p->lock or ftable.lock is held: from one release, or  *)
(* one sleep, to the next.  At most one pipe exists at a time: while it    *)
(* does, kalloc returns 0.                                                 *)
(***************************************************************************)
EXTENDS Integers, Sequences, FiniteSets, FiniteSetsExt

CONSTANTS
    Procs,
    First,          \* the process that runs at the start
    NFILE,          \* open files of the system
    NOFILE,         \* descriptors of a process
    PIPESIZE,
    UINT,           \* 2^32: nread and nwrite are unsigned ints
    Bytes,
    Writes,         \* what a write call may write
    Reads           \* how many bytes a read call may ask for

ASSUME PipeAssumption ==
    /\ PIPESIZE \in Nat \ {0} /\ UINT \in Nat /\ UINT > PIPESIZE
    /\ UINT % PIPESIZE = 0 /\ First \in Procs
ASSUME TableAssumption == IsFiniteSet(Procs) /\ NFILE \in Nat /\ NOFILE \in Nat
ASSUME InputAssumption == Bytes # {} /\ Writes \subseteq Seq(Bytes) /\ Reads \subseteq Nat \ {0}

None == 0
Files == 1..NFILE
Fds == 1..NOFILE

Junk == CHOOSE b \in Bytes : TRUE   \* what kfree leaves in a page

VARIABLES
    file,           \* ftable: ref, type and writable of each open file
    ofile,          \* per process: descriptors
    exists,         \* whether the page of the pipe is allocated
    data, nread, nwrite, readopen, writeopen,       \* struct pipe
    pc,             \* per process: where it is in the kernel
    left, want,     \* per process: bytes left to write, size of the read
    rf,             \* per process: first file of a sys_pipe under way
    back,           \* per process: where pipeclose returns to
    got,            \* what the last read that returned had in its buffer
    killed

pipe == <<exists, data, nread, nwrite, readopen, writeopen>>
calls == <<left, want, rf, back>>
vars == <<file, ofile, pipe, pc, calls, got, killed>>

NoFile == [ref |-> 0, type |-> "none", writable |-> FALSE]
AllClosed == [d \in Fds |-> None]
NoData == [i \in 0..(PIPESIZE - 1) |-> Junk]

Init ==
    /\ file = [f \in Files |-> NoFile]
    /\ ofile = [p \in Procs |-> AllClosed]
    /\ exists = FALSE /\ readopen = FALSE /\ writeopen = FALSE
    /\ data = NoData /\ nread = 0 /\ nwrite = 0
    /\ pc = [p \in Procs |-> IF p = First THEN "user" ELSE "none"]
    /\ left = [p \in Procs |-> <<>>] /\ want = [p \in Procs |-> 0]
    /\ rf = [p \in Procs |-> None] /\ back = [p \in Procs |-> "user"]
    /\ got = <<>>
    /\ killed = [p \in Procs |-> FALSE]

At(p, s) == pc[p] = s
Go(p, s) == pc' = [pc EXCEPT ![p] = s]

\* A program runs, and makes a system call, unless its process was killed.
InUser(p) == At(p, "user") /\ ~killed[p]

\* wakeup of the processes in state asleep, which go on at awake, by p at s.
GoWaking(p, s, asleep, awake) ==
    pc' = [q \in Procs |-> IF q = p THEN s ELSE IF pc[q] = asleep THEN awake ELSE pc[q]]

-----------------------------------------------------------------------------
\* Open files and descriptors

FreeFiles == {f \in Files : file[f].ref = 0}
FreeFds(p) == {d \in Fds : ofile[p][d] = None}

\* fileclose, with ftable.lock: the last reference to a pipe's end goes on to
\* pipeclose, when the file is free already.
fileclose(p, f, then) ==
    /\ back' = [back EXCEPT ![p] = then]
    /\ IF file[f].ref > 1
       THEN file' = [file EXCEPT ![f].ref = @ - 1] /\ Go(p, then)
       ELSE /\ file' = [file EXCEPT ![f] = NoFile]
            /\ Go(p, IF file[f].writable THEN "closew" ELSE "closer")

sys_close(p) ==
    /\ InUser(p)
    /\ \E d \in Fds \ FreeFds(p) :
         /\ fileclose(p, ofile[p][d], "user")
         /\ ofile' = [ofile EXCEPT ![p][d] = None]
    /\ UNCHANGED <<pipe, left, want, rf, got, killed>>

sys_dup(p) ==
    /\ InUser(p) /\ FreeFds(p) # {}
    /\ \E d \in Fds \ FreeFds(p) :
         /\ ofile' = [ofile EXCEPT ![p][Min(FreeFds(p))] = ofile[p][d]]
         /\ file' = [file EXCEPT ![ofile[p][d]].ref = @ + 1]
    /\ UNCHANGED <<pipe, pc, calls, got, killed>>

\* Mutant: the child's descriptors are not counted.
forkUncounted(p, q) ==
    /\ InUser(p) /\ At(q, "none")
    /\ Go(q, "user")
    /\ ofile' = [ofile EXCEPT ![q] = ofile[p]]
    /\ UNCHANGED <<file, pipe, calls, got, killed>>

\* fork: the child has every descriptor of its parent.
fork(p, q) ==
    /\ InUser(p) /\ At(q, "none")
    /\ Go(q, "user")
    /\ ofile' = [ofile EXCEPT ![q] = ofile[p]]
    /\ file' = [f \in Files |-> [file[f] EXCEPT
                  !.ref = @ + Cardinality({d \in Fds : ofile[p][d] = f})]]
    /\ UNCHANGED <<pipe, calls, got, killed>>

\* exit, called or forced on a killed process, closes the descriptors in turn.
sys_exit(p) ==
    /\ At(p, "user") /\ p # First
    /\ Go(p, "exit")
    /\ UNCHANGED <<file, ofile, pipe, calls, got, killed>>

exit(p) ==
    LET open == Fds \ FreeFds(p) IN
    /\ At(p, "exit") /\ open # {}
    /\ fileclose(p, ofile[p][Min(open)], "exit")
    /\ ofile' = [ofile EXCEPT ![p][Min(open)] = None]
    /\ UNCHANGED <<pipe, left, want, rf, got, killed>>

\* No descriptor is left; the parent's wait frees the process.
exited(p) ==
    /\ At(p, "exit") /\ ofile[p] = AllClosed
    /\ Go(p, "none")
    /\ killed' = [killed EXCEPT ![p] = FALSE]
    /\ back' = [back EXCEPT ![p] = "user"]
    /\ UNCHANGED <<file, ofile, pipe, left, want, rf, got>>

\* kill also wakes the process.
kill(p) ==
    /\ ~At(p, "none") /\ ~killed[p] /\ p # First
    /\ killed' = [killed EXCEPT ![p] = TRUE]
    /\ pc' = [pc EXCEPT ![p] = CASE @ = "sleepr" -> "read"
                                 [] @ = "sleepw" -> "write"
                                 [] OTHER -> @]
    /\ UNCHANGED <<file, ofile, pipe, calls, got>>

-----------------------------------------------------------------------------
\* Pipes

\* pipealloc's first filealloc.
sys_pipe(p) ==
    /\ InUser(p) /\ FreeFiles # {}
    /\ rf' = [rf EXCEPT ![p] = Min(FreeFiles)]
    /\ file' = [file EXCEPT ![Min(FreeFiles)].ref = 1]
    /\ Go(p, "pipe")
    /\ UNCHANGED <<ofile, pipe, left, want, back, got, killed>>

\* The second filealloc, kalloc and fdalloc, twice: the pipe is made, or what
\* was allocated is closed again.
pipealloc(p) ==
    LET d0 == Min(FreeFds(p))
        d1 == Min(FreeFds(p) \ {d0})
        wf == Min(FreeFiles)
    IN
    /\ At(p, "pipe")
    /\ Go(p, "user")
    /\ rf' = [rf EXCEPT ![p] = None]
    /\ IF FreeFiles # {} /\ ~exists /\ Cardinality(FreeFds(p)) >= 2
       THEN /\ exists' = TRUE /\ readopen' = TRUE /\ writeopen' = TRUE
            /\ nread' = 0 /\ nwrite' = 0
            /\ file' = [file EXCEPT
                 ![rf[p]] = [ref |-> 1, type |-> "pipe", writable |-> FALSE],
                 ![wf] = [ref |-> 1, type |-> "pipe", writable |-> TRUE]]
            /\ ofile' = [ofile EXCEPT ![p][d0] = rf[p], ![p][d1] = wf]
       ELSE /\ file' = [file EXCEPT ![rf[p]] = NoFile]
            /\ UNCHANGED <<exists, readopen, writeopen, nread, nwrite, ofile>>
    /\ UNCHANGED <<data, left, want, back, got, killed>>

\* Mutant: frees the page when one side is closed.
pipecloseEarly(p) ==
    /\ \/ /\ At(p, "closew")
          /\ writeopen' = FALSE /\ UNCHANGED readopen
          /\ GoWaking(p, back[p], "sleepr", "read")
       \/ /\ At(p, "closer")
          /\ readopen' = FALSE /\ UNCHANGED writeopen
          /\ GoWaking(p, back[p], "sleepw", "write")
    /\ exists' = (readopen' /\ writeopen')
    /\ data' = IF exists' THEN data ELSE NoData
    /\ back' = [back EXCEPT ![p] = "user"]
    /\ UNCHANGED <<file, ofile, nread, nwrite, left, want, rf, got, killed>>

\* Mutant: does not wake the other side.
pipecloseSilent(p) ==
    /\ \/ /\ At(p, "closew")
          /\ writeopen' = FALSE /\ UNCHANGED readopen
          /\ Go(p, back[p])
       \/ /\ At(p, "closer")
          /\ readopen' = FALSE /\ UNCHANGED writeopen
          /\ Go(p, back[p])
    /\ exists' = (readopen' \/ writeopen')
    /\ data' = IF exists' THEN data ELSE NoData
    /\ back' = [back EXCEPT ![p] = "user"]
    /\ UNCHANGED <<file, ofile, nread, nwrite, left, want, rf, got, killed>>

\* pipeclose: wake the other side; with both sides closed the page is freed.
pipeclose(p) ==
    /\ \/ /\ At(p, "closew")
          /\ writeopen' = FALSE /\ UNCHANGED readopen
          /\ GoWaking(p, back[p], "sleepr", "read")
       \/ /\ At(p, "closer")
          /\ readopen' = FALSE /\ UNCHANGED writeopen
          /\ GoWaking(p, back[p], "sleepw", "write")
    /\ exists' = (readopen' \/ writeopen')
    /\ data' = IF exists' THEN data ELSE NoData
    /\ back' = [back EXCEPT ![p] = "user"]
    /\ UNCHANGED <<file, ofile, nread, nwrite, left, want, rf, got, killed>>

Ends(p, writable) == \E d \in Fds \ FreeFds(p) : file[ofile[p][d]].writable = writable

sys_write(p) ==
    /\ InUser(p) /\ Ends(p, TRUE)
    /\ \E s \in Writes : left' = [left EXCEPT ![p] = s]
    /\ Go(p, "write")
    /\ UNCHANGED <<file, ofile, pipe, want, rf, back, got, killed>>

sys_read(p) ==
    /\ InUser(p) /\ Ends(p, FALSE)
    /\ \E n \in Reads : want' = [want EXCEPT ![p] = n]
    /\ Go(p, "read")
    /\ UNCHANGED <<file, ofile, pipe, left, rf, back, got, killed>>

\* Mutant: one byte too many.
FullLate(w) == w % UINT = (nread + PIPESIZE + 1) % UINT

\* Room and bytes in the pipe, by unsigned arithmetic.
Used == (nwrite - nread) % UINT
Full(w) == w % UINT = (nread + PIPESIZE) % UINT

\* Bytes that pipewrite's loop stores before the pipe is full.
Stored(s) ==
    CHOOSE k \in 0..Len(s) :
      /\ \A i \in 0..(k - 1) : ~Full(nwrite + i)
      /\ k = Len(s) \/ Full(nwrite + k)

\* Mutant: starts again at addr[0] after its sleep.
pipewriteRestarts(p) ==
    LET k == Stored(left[p])
        done == k = Len(left[p])
        fail == ~done /\ (~readopen \/ killed[p])
    IN
    /\ At(p, "write")
    /\ data' = [i \in DOMAIN data |->
                  LET new == {j \in 1..k : ((nwrite + j - 1) % UINT) % PIPESIZE = i}
                  IN  IF new = {} THEN data[i] ELSE left[p][Max(new)]]
    /\ nwrite' = (nwrite + k) % UINT
    /\ left' = [left EXCEPT ![p] = IF done \/ fail THEN <<>> ELSE @]
    /\ IF fail THEN Go(p, "user")
       ELSE GoWaking(p, IF done THEN "user" ELSE "sleepw", "sleepr", "read")
    /\ UNCHANGED <<file, ofile, exists, nread, readopen, writeopen, want, rf, back,
                   got, killed>>

\* pipewrite, with p->lock, until it returns or sleeps.
pipewrite(p) ==
    LET k == Stored(left[p])
        done == k = Len(left[p])
        fail == ~done /\ (~readopen \/ killed[p])
    IN
    /\ At(p, "write")
    /\ data' = [i \in DOMAIN data |->
                  LET new == {j \in 1..k : ((nwrite + j - 1) % UINT) % PIPESIZE = i}
                  IN  IF new = {} THEN data[i] ELSE left[p][Max(new)]]
    /\ nwrite' = (nwrite + k) % UINT
    /\ left' = [left EXCEPT ![p] = IF done \/ fail THEN <<>> ELSE SubSeq(@, k + 1, Len(@))]
    /\ IF fail THEN Go(p, "user")
       ELSE GoWaking(p, IF done THEN "user" ELSE "sleepw", "sleepr", "read")
    /\ UNCHANGED <<file, ofile, exists, nread, readopen, writeopen, want, rf, back,
                   got, killed>>

\* Mutant: does not wake the writers.
pipereadSilent(p) ==
    /\ At(p, "read")
    /\ IF nread = nwrite /\ writeopen
       THEN /\ Go(p, IF killed[p] THEN "user" ELSE "sleepr")
            /\ want' = [want EXCEPT ![p] = IF killed[p] THEN 0 ELSE @]
            /\ UNCHANGED <<nread, got>>
       ELSE LET k == Min({want[p], Used}) IN
            /\ got' = [j \in 1..k |-> data[((nread + j - 1) % UINT) % PIPESIZE]]
            /\ nread' = (nread + k) % UINT
            /\ want' = [want EXCEPT ![p] = 0]
            /\ Go(p, "user")
    /\ UNCHANGED <<file, ofile, exists, data, nwrite, readopen, writeopen, left, rf,
                   back, killed>>

\* piperead: sleep on an empty pipe that can be written, else take what is there.
piperead(p) ==
    /\ At(p, "read")
    /\ IF nread = nwrite /\ writeopen
       THEN /\ Go(p, IF killed[p] THEN "user" ELSE "sleepr")
            /\ want' = [want EXCEPT ![p] = IF killed[p] THEN 0 ELSE @]
            /\ UNCHANGED <<nread, got>>
       ELSE LET k == Min({want[p], Used}) IN
            /\ got' = [j \in 1..k |-> data[((nread + j - 1) % UINT) % PIPESIZE]]
            /\ nread' = (nread + k) % UINT
            /\ want' = [want EXCEPT ![p] = 0]
            /\ GoWaking(p, "user", "sleepw", "write")
    /\ UNCHANGED <<file, ofile, exists, data, nwrite, readopen, writeopen, left, rf,
                   back, killed>>

-----------------------------------------------------------------------------
\* The kernel at work for p; the rest is up to programs.
Kernel(p) ==
    \/ exit(p) \/ exited(p) \/ pipealloc(p) \/ pipeclose(p) \/ pipewrite(p) \/ piperead(p)

Next ==
    \E p \in Procs :
      \/ Kernel(p) \/ sys_close(p) \/ sys_dup(p) \/ sys_exit(p) \/ kill(p)
      \/ sys_pipe(p) \/ sys_write(p) \/ sys_read(p)
      \/ \E q \in Procs : fork(p, q)

Spec == Init /\ [][Next]_vars

\* The scheduler runs every process that is not asleep.
FairSpec == Spec /\ \A p \in Procs : WF_vars(Kernel(p))

-----------------------------------------------------------------------------
\* Properties

PCs == {"none", "user", "exit", "pipe", "closer", "closew", "read", "write",
        "sleepr", "sleepw"}

\* Every variable has its type; nread and nwrite are unsigned ints, never more
\* than PIPESIZE apart.
TypeOK ==
    /\ file \in [Files -> [ref : Nat, type : {"none", "pipe"}, writable : BOOLEAN]]
    /\ ofile \in [Procs -> [Fds -> Files \cup {None}]]
    /\ {exists, readopen, writeopen} \subseteq BOOLEAN
    /\ data \in [0..(PIPESIZE - 1) -> Bytes]
    /\ nread \in 0..(UINT - 1) /\ nwrite \in 0..(UINT - 1) /\ Used <= PIPESIZE
    /\ pc \in [Procs -> PCs] /\ killed \in [Procs -> BOOLEAN]
    /\ rf \in [Procs -> Files \cup {None}] /\ back \in [Procs -> {"user", "exit"}]
    /\ left \in [Procs -> Seq(Bytes)] /\ want \in [Procs -> Nat] /\ got \in Seq(Bytes)

\* Where file f is referred to: descriptor d of process p as <<p, d>>, the file
\* of a sys_pipe of p under way as <<p, None>>.
Holders(f) == {h \in Procs \X (Fds \cup {None}) :
                 IF h[2] = None THEN rf[h[1]] = f ELSE ofile[h[1]][h[2]] = f}

\* The reference count of an open file is the number of descriptors that name
\* it in all processes, plus the file of a sys_pipe under way: fork, dup, close,
\* exit and a failing pipe keep the count (file.c).
FileRefsExact == \A f \in Files : file[f].ref = Cardinality(Holders(f))

\* A process in piperead or pipewrite, or with a descriptor of the pipe, finds
\* the pipe there with its end open: pipeclose frees the page only after the
\* last user of both ends (pipe.c:70).
EndsStayOpen ==
    \A p \in Procs :
      /\ pc[p] \in {"write", "sleepw", "closew"} \/ Ends(p, TRUE) => exists /\ writeopen
      /\ pc[p] \in {"read", "sleepr", "closer"} \/ Ends(p, FALSE) => exists /\ readopen

\* Nobody sleeps in the pipe without a reason, in any order of reads and writes:
\* a writer sleeps only while there is no room, and a reader goes to sleep only
\* on an empty pipe and is woken by the bytes that arrive.  The one exception is
\* a writer that was killed, which returns from a full pipe without waking the
\* readers (pipe.c:86).
SleepersHaveReason ==
    [][\A p \in Procs :
         /\ pc'[p] = "sleepw" => Full(nwrite)'
         /\ pc'[p] = "sleepr" /\ nread' # nwrite' =>
              /\ pc[p] = "sleepr"
              /\ \/ nread # nwrite
                 \/ \E q \in Procs : pc[q] = "write" /\ killed[q] /\ pc'[q] = "user"]_vars

Contents == [j \in 1..Used |-> data[((nread + j - 1) % UINT) % PIPESIZE]]

Fifo == INSTANCE PipeFifo WITH Capacity <- PIPESIZE,
          queue <- IF exists THEN Contents ELSE <<>>, todo <- left,
          readers <- readopen, writers <- writeopen

\* The ring buffer with its wrapping counters is a bounded queue of bytes.  A
\* write stores the bytes its caller gave it in order, none left out or stored
\* twice however often it sleeps on a full pipe, and stops short only then; a
\* read returns the oldest bytes, and end of file only when the pipe is empty
\* and has no writer; closing one end loses nothing the other may still read.
FifoSpec == Fifo!Spec

\* p is in a read whose writers, or a write whose readers, are gone.
Stranded(p) ==
    \/ pc[p] \in {"read", "sleepr"} /\ ~writeopen
    \/ pc[p] \in {"write", "sleepw"} /\ ~readopen

\* When the last descriptor of one end closes, every process waiting at the
\* other end returns from its read or write.
ClosedEndReleases == \A p \in Procs : Stranded(p) ~> At(p, "user")
=============================================================================
