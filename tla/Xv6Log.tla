------------------------------- MODULE Xv6Log -------------------------------
(***************************************************************************)
(* The write-ahead log of xv6 (log.c): begin_op, log_write and end_op of   *)
(* concurrent file system calls, the commit one disk write at a time,      *)
(* crashes between any two writes, and recovery, itself open to crashes.   *)
(*                                                                         *)
(* Of the buffer cache (bio.c), what the log depends on: which home blocks *)
(* are buffered, with which contents, B_DIRTY, and that bget may give any  *)
(* buffer without B_DIRTY to another block.  A write of one block (one     *)
(* 512-byte sector) is atomic.  panic() stops the machine, so it is        *)
(* followed, like a power cut, by recovery.                                *)
(*                                                                         *)
(* log_write tests the length of the log before it takes log.lock, so it   *)
(* is two steps here, and calls that pass the test together can fill the   *)
(* header, one block more than the log holds.  write_log then goes on into *)
(* the block behind the log, which mkfs makes the first inode block.       *)
(***************************************************************************)
EXTENDS Integers, Sequences, FiniteSets

CONSTANTS
    Blocks, Vals,           \* home blocks of the disk and their contents
    Ops,                    \* file system calls that may run at once
    LOGSIZE,                \* blocks of the on-disk log, its header included
    MAXOPBLOCKS,            \* different blocks one system call may write
    AfterLog,               \* the home block right behind the log
    Zero,                   \* contents of a fresh disk
    NoBuf                   \* no buffer, or no contents of one

ASSUME SizeAssumption ==
    /\ LOGSIZE \in Nat /\ MAXOPBLOCKS \in Nat
    /\ LOGSIZE > 1 /\ MAXOPBLOCKS >= 1
    /\ AfterLog \in Blocks
    /\ Zero \in Vals /\ NoBuf \notin Vals \cup Blocks
    /\ IsFiniteSet(Blocks) /\ IsFiniteSet(Ops)

VARIABLES
    disk,           \* home blocks, on disk
    logblk,         \* blocks of the log after its header, on disk
    head,           \* block numbers in the header block, on disk
    buf,            \* data of the buffer of a home block, or NoBuf
    dirty,          \* blocks whose buffer has B_DIRTY
    lh,             \* log.lh
    outstanding,    \* log.outstanding
    committing,     \* log.committing
    pc,             \* per system call
    wrote,          \* blocks a system call has written (its part of the bargain)
    writing,        \* the block a call has locked and not yet logged, or NoBuf
    phase,          \* which loop or write of commit() or recovery comes next
    tail,           \* log entries that loop has dealt with
    overrun         \* history: write_log has written behind the log

disks == <<disk, logblk, head>>
vars == <<disk, logblk, head, buf, dirty, lh, outstanding, committing, pc, wrote, writing,
          phase, tail, overrun>>

FirstImage == [b \in Blocks |-> Zero]
\* One of them holds the header.
LogBlocks == 1 .. LOGSIZE - 1

Init ==
    /\ disk = FirstImage
    /\ buf = [b \in Blocks |-> NoBuf] /\ dirty = {}
    /\ logblk = [i \in LogBlocks |-> Zero]
    /\ head = <<>> /\ lh = <<>>
    /\ outstanding = 0 /\ committing = FALSE
    /\ pc = [t \in Ops |-> "idle"]
    /\ wrote = [t \in Ops |-> {}] /\ writing = [t \in Ops |-> NoBuf]
    /\ phase = "none" /\ tail = 0 /\ overrun = FALSE

\* bread: the block as the kernel sees it, from its buffer or from the disk.
bread(b) == IF buf[b] # NoBuf THEN buf[b] ELSE disk[b]

Logged(h) == {h[i] : i \in 1 .. Len(h)}

\* The sleep-lock of b's buffer: its holder is inside log_write.
Locked(b) == \E t \in Ops : writing[t] = b

-----------------------------------------------------------------------------
\* bget, for a block outside the model, recycles the buffer of b.
bget(b) ==
    /\ buf[b] # NoBuf /\ b \notin dirty /\ ~Locked(b)
    /\ buf' = [buf EXCEPT ![b] = NoBuf]
    /\ UNCHANGED <<disks, dirty, lh, outstanding, committing, pc, wrote, writing, phase, tail, overrun>>

-----------------------------------------------------------------------------
\* Mutant: nobody is woken.
wakeupNobody(p) == p

\* wakeup(&log): every begin_op asleep on the log looks again.
wakeup(p) == [t \in Ops |-> IF p[t] = "asleep" THEN "idle" ELSE p[t]]

\* Admission: every call admitted may still write MAXOPBLOCKS blocks.
LogSpaceFor(n) == Len(lh) + n * MAXOPBLOCKS <= LOGSIZE

begin_op(t) ==
    /\ phase # "recover" /\ pc[t] = "idle"
    /\ IF committing \/ ~LogSpaceFor(outstanding + 1)
       THEN pc' = [pc EXCEPT ![t] = "asleep"] /\ UNCHANGED outstanding
       ELSE pc' = [pc EXCEPT ![t] = "in"] /\ outstanding' = outstanding + 1
    /\ UNCHANGED <<disks, buf, dirty, lh, committing, wrote, writing, phase, tail, overrun>>

\* Power off, or panic(): memory is lost; recover_from_log begins with
\* read_head, with an empty cache.
Reboot ==
    /\ buf' = [b \in Blocks |-> NoBuf] /\ dirty' = {}
    /\ lh' = head
    /\ outstanding' = 0 /\ committing' = FALSE
    /\ pc' = [t \in Ops |-> "idle"]
    /\ wrote' = [t \in Ops |-> {}] /\ writing' = [t \in Ops |-> NoBuf]
    /\ phase' = "recover" /\ tail' = 0
    /\ UNCHANGED <<disks, overrun>>

Crash == Reboot

\* log_write panics.  The test runs before the search for an entry to absorb
\* the write, and counts the header (log.size - 1).
TooBig == Len(lh) >= LOGSIZE \/ Len(lh) >= LOGSIZE - 1

\* A caller that has locked and modified the buffer of block b calls
\* log_write: the tests, without log.lock.
log_write(t, b, v) ==
    /\ pc[t] = "in" /\ writing[t] = NoBuf /\ ~Locked(b)
    /\ Cardinality(wrote[t] \cup {b}) <= MAXOPBLOCKS
    /\ IF TooBig \/ outstanding < 1
       THEN Reboot
       ELSE /\ buf' = [buf EXCEPT ![b] = v]
            /\ wrote' = [wrote EXCEPT ![t] = @ \cup {b}]
            /\ writing' = [writing EXCEPT ![t] = b]
            /\ UNCHANGED <<disks, dirty, lh, outstanding, committing, pc, phase, tail, overrun>>

\* The rest of log_write, under log.lock, and the caller's brelse.
log_append(t) ==
    LET b == writing[t] IN
    /\ b # NoBuf
    /\ lh' = IF b \in Logged(lh) THEN lh ELSE Append(lh, b)
    /\ dirty' = dirty \cup {b}
    /\ writing' = [writing EXCEPT ![t] = NoBuf]
    /\ UNCHANGED <<disks, buf, outstanding, committing, pc, wrote, phase, tail, overrun>>

\* end_op: the last call out commits, the others may have made room.
end_op(t) ==
    /\ pc[t] = "in" /\ writing[t] = NoBuf
    /\ outstanding' = outstanding - 1
    /\ wrote' = [wrote EXCEPT ![t] = {}]
    /\ IF outstanding = 1
       THEN /\ committing' = TRUE
            /\ pc' = [pc EXCEPT ![t] = "commit"]
            /\ phase' = (IF lh = <<>> THEN "done" ELSE "write_log")
       ELSE /\ pc' = wakeup([pc EXCEPT ![t] = "idle"])
            /\ UNCHANGED <<committing, phase>>
    /\ UNCHANGED <<disks, buf, dirty, lh, writing, tail, overrun>>

-----------------------------------------------------------------------------
\* commit(), one disk write per step

\* The log block of entry i, as recovery and install_trans find it: entry
\* LOGSIZE has its block behind the log.
LogBlock(i, home) == IF i \in LogBlocks THEN logblk[i] ELSE home

\* bwrite of the log block of entry i.
WriteLogBlock(i, v) ==
    IF i \in LogBlocks
    THEN logblk' = [logblk EXCEPT ![i] = v] /\ UNCHANGED <<disk, buf, dirty, overrun>>
    ELSE /\ disk' = [disk EXCEPT ![AfterLog] = v] /\ buf' = [buf EXCEPT ![AfterLog] = v]
         /\ dirty' = dirty \ {AfterLog} /\ overrun' = TRUE
         /\ UNCHANGED logblk

\* Mutant: the loop stops one block short.
write_logShort ==
    /\ phase = "write_log"
    /\ WriteLogBlock(tail + 1, bread(lh[tail + 1]))
    /\ IF tail + 2 >= Len(lh)
       THEN phase' = "write_head" /\ tail' = 0
       ELSE tail' = tail + 1 /\ UNCHANGED phase
    /\ UNCHANGED <<head, lh, outstanding, committing, pc, wrote, writing>>

\* The log block and the cache block of an entry are locked together: when
\* both are the block behind the log, the second bread waits for the first.
SelfLocked == tail + 1 \notin LogBlocks /\ lh[tail + 1] = AfterLog

write_log ==
    /\ phase = "write_log"
    /\ IF SelfLocked
       THEN /\ phase' = "stuck" /\ overrun' = TRUE
            /\ UNCHANGED <<disk, logblk, buf, dirty, tail>>
       ELSE /\ WriteLogBlock(tail + 1, bread(lh[tail + 1]))
            /\ IF tail + 1 = Len(lh)
               THEN phase' = "write_head" /\ tail' = 0
               ELSE tail' = tail + 1 /\ UNCHANGED phase
    /\ UNCHANGED <<head, lh, outstanding, committing, pc, wrote, writing>>

\* "This is the true point at which the current transaction commits."
write_head ==
    /\ phase = "write_head"
    /\ head' = lh
    /\ phase' = "install_trans"
    /\ UNCHANGED <<disk, logblk, buf, dirty, lh, outstanding, committing, pc, wrote, writing, tail, overrun>>

\* install_trans, for commit() and for recover_from_log(): the log block goes
\* through the cache to its home, and bwrite's transfer clears B_DIRTY.
install_trans ==
    /\ phase \in {"install_trans", "recover"} /\ tail < Len(lh)
    /\ LET v == LogBlock(tail + 1, bread(AfterLog)) IN
       /\ disk' = [disk EXCEPT ![lh[tail + 1]] = v]
       /\ buf' = [buf EXCEPT ![lh[tail + 1]] = v]
    /\ dirty' = dirty \ {lh[tail + 1]}
    /\ tail' = tail + 1
    /\ UNCHANGED <<logblk, head, lh, outstanding, committing, pc, wrote, writing, phase, overrun>>

\* Mutant: the header is cleared in memory only.
clear_lh ==
    /\ phase \in {"install_trans", "recover"} /\ tail = Len(lh)
    /\ lh' = <<>>
    /\ phase' = (IF phase = "recover" THEN "none" ELSE "done")
    /\ tail' = 0
    /\ UNCHANGED <<disks, buf, dirty, outstanding, committing, pc, wrote, writing, overrun>>

\* log.lh.n = 0; write_head().  After recovery the system is up.
clear_head ==
    /\ phase \in {"install_trans", "recover"} /\ tail = Len(lh)
    /\ lh' = <<>> /\ head' = <<>>
    /\ phase' = (IF phase = "recover" THEN "none" ELSE "done")
    /\ tail' = 0
    /\ UNCHANGED <<disk, logblk, buf, dirty, outstanding, committing, pc, wrote, writing, overrun>>

\* The end of end_op, after commit().
end_commit ==
    /\ phase = "done"
    /\ committing' = FALSE
    /\ pc' = wakeup([t \in Ops |-> IF pc[t] = "commit" THEN "idle" ELSE pc[t]])
    /\ phase' = "none"
    /\ UNCHANGED <<disks, buf, dirty, lh, outstanding, wrote, writing, tail, overrun>>

Commit == write_log \/ write_head \/ install_trans \/ clear_head \/ end_commit

Next ==
    \/ \E t \in Ops : begin_op(t) \/ log_append(t) \/ end_op(t)
    \/ \E t \in Ops, b \in Blocks, v \in Vals : log_write(t, b, v)
    \/ \E b \in Blocks : bget(b)
    \/ Commit
    \/ Crash

Spec == Init /\ [][Next]_vars

\* A system call makes finitely many writes and then ends (it waits for disk
\* blocks only), and the process in commit() goes on: kernel code between two
\* sleeps always does.
Fairness ==
    /\ WF_vars(Commit)
    /\ \A t \in Ops : WF_vars(log_append(t)) /\ SF_vars(end_op(t))

FairSpec == Spec /\ Fairness

-----------------------------------------------------------------------------
\* What recovery makes of a disk: the logged blocks come from the log.
Redo(h) ==
    [b \in Blocks |-> IF b \in Logged(h)
                      THEN LogBlock(CHOOSE i \in 1 .. Len(h) : h[i] = b, disk[AfterLog])
                      ELSE disk[b]]

\* The blocks of the transaction that is not committed yet.
Uncommitted ==
    IF phase \in {"none", "write_log", "write_head"}
    THEN Logged(lh) \cup {b \in Blocks : Locked(b)}
    ELSE {}

\* log.c implements the atomic disk: whatever step a crash interrupts, in
\* commit() or in recovery itself, the reboot finds the image of the last
\* commit, and no commit takes in half of a system call.  This ends only with
\* a transaction of LOGSIZE different blocks, one more than the log holds,
\* and not before its commit runs: the atomic disk then promises nothing.
Atomic == INSTANCE AtomicDisk WITH
    Fits <- {B \in SUBSET Blocks : Cardinality(B) <= LOGSIZE - 1},
    durable <- Redo(head),
    current <- IF phase = "recover" THEN Redo(head) ELSE [b \in Blocks |-> bread(b)],
    active <- {t \in Ops : pc[t] = "in"},
    pending <- Uncommitted,
    intact <- ~overrun

AtomicSpec == Atomic!Spec

\* When end_op has returned to the last caller, everything is on disk: with no
\* call under way and no commit running, a reboot finds what the callers see.
QuiescentIsDurable ==
    outstanding = 0 /\ phase = "none" => head = <<>> /\ \A b \in Blocks : bread(b) = disk[b]

\* A begin_op that sleeps is woken: by the commit, or by a call that ends
\* without committing.  The one exception is a commit that waits for the
\* block behind the log, which it has locked itself.
SleeperWoken == \A t \in Ops : pc[t] = "asleep" ~> pc[t] # "asleep" \/ phase = "stuck"

\* begin_op admits a call only if the log has room for all it may write
\* ("this op might exhaust log space; wait for commit"): log_write does not
\* panic.
AdmittedFits == \A t \in Ops : pc[t] = "in" /\ Cardinality(wrote[t]) < MAXOPBLOCKS => ~TooBig

\* log_write panics before a transaction outgrows the log ("too big a
\* transaction").
LogHolds == Len(lh) <= LOGSIZE - 1
=============================================================================
