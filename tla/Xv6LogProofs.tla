---------------------------- MODULE Xv6LogProofs ----------------------------
(***************************************************************************)
(* log.c implements the atomic disk, for any number of blocks and of       *)
(* concurrent system calls and for any size of the log: it keeps the       *)
(* promise until a transaction of LOGSIZE different blocks commits.        *)
(***************************************************************************)
EXTENDS Xv6Log, FiniteSetTheorems, TLAPS

\* The calls under way.
In == {t \in Ops : pc[t] = "in"}

\* Types of the variables.
Types ==
    /\ disk \in [Blocks -> Vals] /\ buf \in [Blocks -> Vals \cup {NoBuf}]
    /\ dirty \subseteq Blocks
    /\ logblk \in [LogBlocks -> Vals]
    /\ head \in Seq(Blocks) /\ lh \in Seq(Blocks)
    /\ outstanding \in Nat /\ committing \in BOOLEAN
    /\ pc \in [Ops -> {"idle", "asleep", "in", "commit"}]
    /\ wrote \in [Ops -> SUBSET Blocks]
    /\ writing \in [Ops -> Blocks \cup {NoBuf}]
    /\ phase \in {"none", "write_log", "write_head", "install_trans", "done", "recover", "stuck"}
    /\ tail \in Nat /\ overrun \in BOOLEAN

Injective(h) == \A i, j \in 1 .. Len(h) : h[i] = h[j] => i = j

\* How the phases of commit() and recovery relate to the callers and to the
\* two headers.
Control ==
    /\ Injective(lh)
    /\ outstanding = Cardinality(In)
    /\ \A t \in Ops : writing[t] # NoBuf => pc[t] = "in"
    /\ phase \notin {"none", "recover"} => committing
    /\ phase # "none" => In = {}
    /\ phase \in {"install_trans", "recover"} => head = lh
    /\ phase \notin {"install_trans", "recover"} => head = <<>>
    /\ phase = "done" => lh = <<>>
    /\ phase = "none" /\ In = {} => lh = <<>>
    /\ phase = "write_log" => tail < Len(lh)
    /\ phase \in {"install_trans", "recover"} => tail <= Len(lh)
    /\ phase \notin {"write_log", "install_trans", "recover", "stuck"} => tail = 0
    /\ phase = "stuck" => overrun

\* Where the contents of a block are: what is neither pinned by B_DIRTY nor
\* locked is on disk.
Data ==
    /\ \A b \in Blocks : b \notin dirty /\ ~Locked(b) => bread(b) = disk[b]
    /\ phase \notin {"install_trans", "recover"} => dirty \subseteq Logged(lh)
    /\ phase = "install_trans" =>
         \A b \in dirty : \E i \in 1 .. Len(lh) : i > tail /\ lh[i] = b
    /\ phase = "recover" => dirty = {}

\* Until write_log runs out of the log, the entries it has dealt with fit, and
\* the log holds what the phase has written to it.
Log ==
    /\ phase = "write_log" => tail < LOGSIZE /\ \A i \in 1 .. tail : logblk[i] = bread(lh[i])
    /\ phase \in {"write_head", "install_trans", "recover"} => Len(lh) < LOGSIZE
    /\ phase \in {"write_head", "install_trans"} =>
         \A i \in 1 .. Len(lh) : logblk[i] = bread(lh[i])
    /\ phase \in {"install_trans", "recover"} =>
         \A i \in 1 .. tail : disk[lh[i]] = logblk[i]

\* The inductive invariant.
Inv == Types /\ Control /\ Data /\ (~overrun => Log)

-----------------------------------------------------------------------------
\* The calls under way are finitely many (the code keeps them in a counter).
LEMMA InFinite == IsFiniteSet(In) /\ Cardinality(In) \in Nat /\ (Cardinality(In) = 0 <=> In = {})
  <1>1. IsFiniteSet(In)
    BY SizeAssumption, FS_Subset DEF In
  <1> QED
    BY <1>1, FS_CardinalityType, FS_EmptySet

\* The log is empty when the system starts (initlog after mkfs).
LEMMA InitInv == Init => Inv
  <1> SUFFICES ASSUME Init PROVE Inv
    BY Zenon
  <1>1. Types
    <2>1. disk \in [Blocks -> Vals] /\ buf \in [Blocks -> Vals \cup {NoBuf}]
          /\ logblk \in [LogBlocks -> Vals]
      BY SizeAssumption, Zenon DEF Init, FirstImage
    <2>2. pc \in [Ops -> {"idle", "asleep", "in", "commit"}] /\ wrote \in [Ops -> SUBSET Blocks]
          /\ writing \in [Ops -> Blocks \cup {NoBuf}]
      BY Zenon DEF Init
    <2>3. head \in Seq(Blocks) /\ lh \in Seq(Blocks)
      BY DEF Init
    <2> QED
      BY <2>1, <2>2, <2>3, Zenon DEF Init, Types
  <1>2. In = {}
    BY Zenon DEF Init, In
  <1>3. Control
    BY <1>2, SizeAssumption, FS_EmptySet DEF Init, Control, Injective
  <1>4. Data
    BY Zenon DEF Init, Data, bread
  <1>5. Log
    BY Zenon DEF Init, Log
  <1> QED
    BY <1>1, <1>3, <1>4, <1>5, Zenon DEF Inv

\* A reboot reads the header back and starts with an empty cache (read_head).
LEMMA RebootInv == Inv /\ Reboot => Inv'
  <1> SUFFICES ASSUME Inv, Reboot PROVE Inv'
    BY Zenon
  <1>1. Types'
    BY Zenon DEF Inv, Types, Reboot, disks
  <1>2. In' = {}
    BY Zenon DEF Reboot, In
  <1>3. lh' = <<>> \/ lh' = lh
    BY Zenon DEF Inv, Control, Reboot, Types
  <1>4. Control'
    BY <1>2, <1>3, SizeAssumption, FS_EmptySet DEF Inv, Types, Control, Reboot, disks, Injective
  <1>5. Data'
    BY DEF Inv, Types, Data, Reboot, disks, bread
  <1>6. (~overrun => Log)'
    <2> SUFFICES ASSUME ~overrun PROVE Log'
      BY Zenon DEF Reboot
    <2>1. lh' = <<>> \/ (lh' = lh /\ phase \in {"install_trans", "recover"})
      BY Zenon DEF Inv, Control, Reboot
    <2>2. Len(lh') < LOGSIZE
      BY <2>1, SizeAssumption DEF Inv, Log
    <2> QED
      BY <2>2 DEF Reboot, Log
  <1> QED
    BY <1>1, <1>4, <1>5, <1>6, Zenon DEF Inv

\* begin_op admits a call only outside commit().
LEMMA BeginInv == ASSUME NEW t \in Ops, Inv, begin_op(t) PROVE Inv'
  <1>1. Types'
    BY DEF Inv, Types, begin_op, disks
  <1>a. UNCHANGED <<disk, logblk, head, buf, dirty, lh, committing, writing, phase, tail, overrun>>
    BY Zenon DEF begin_op, disks
  <1>b. Data'
    BY <1>a DEF Inv, Data, bread, Logged, Locked
  <1>c. (~overrun => Log)'
    BY <1>a DEF Inv, Log, bread
  <1>2. CASE pc' = [pc EXCEPT ![t] = "asleep"] /\ UNCHANGED outstanding
    <2>1. In' = In
      BY <1>2, Zenon DEF begin_op, In, Inv, Types
    <2>2. \A u \in Ops : writing'[u] # NoBuf => pc'[u] = "in"
      BY <1>a, <1>2, Zenon DEF begin_op, Inv, Types, Control
    <2>3. Control'
      BY <1>a, <1>2, <2>1, <2>2 DEF Inv, Control, Injective
    <2> QED
      BY <1>1, <1>b, <1>c, <2>3, Zenon DEF Inv
  <1>3. CASE ~committing /\ pc' = [pc EXCEPT ![t] = "in"] /\ outstanding' = outstanding + 1
    <2>1. In' = In \cup {t} /\ t \notin In
      BY <1>3, Zenon DEF begin_op, In, Inv, Types
    <2>2. Cardinality(In') = Cardinality(In) + 1
      BY <2>1, InFinite, FS_AddElement, Zenon
    <2>3. phase = "none"
      BY <1>3 DEF Inv, Control, begin_op
    <2>4. \A u \in Ops : writing'[u] # NoBuf => pc'[u] = "in"
      BY <1>a, <1>3, Zenon DEF Inv, Types, Control
    <2>5. Control'
      BY <1>a, <1>3, <2>1, <2>2, <2>3, <2>4 DEF Inv, Control, Injective
    <2> QED
      BY <1>1, <1>b, <1>c, <2>5, Zenon DEF Inv
  <1> QED
    BY <1>2, <1>3, Zenon DEF begin_op

\* end_op of the last call starts commit().
LEMMA EndInv == ASSUME NEW t \in Ops, Inv, end_op(t) PROVE Inv'
  <1>0. t \in In /\ phase = "none"
    BY Zenon DEF Inv, Control, end_op, In
  <1>1. In' = In \ {t}
    BY Zenon DEF end_op, In, Inv, Types, wakeup
  <1>2. Cardinality(In') = Cardinality(In) - 1
    BY <1>0, <1>1, InFinite, FS_RemoveElement, Zenon
  <1>3. IsFiniteSet(In') /\ (Cardinality(In') = 0 <=> In' = {})
    BY <1>1, InFinite, FS_Subset, FS_EmptySet, Zenon
  <1>4. outstanding' \in Nat /\ outstanding' = Cardinality(In')
    <2>1. outstanding' = outstanding - 1 /\ outstanding = Cardinality(In)
      BY Zenon DEF Inv, Control, end_op
    <2>2. Cardinality(In') \in Nat
      BY <1>3, FS_CardinalityType, Zenon
    <2> QED
      BY <1>2, <2>1, <2>2, Zenon
  <1>5. Types'
    BY <1>4, Zenon DEF Inv, Types, end_op, disks, wakeup
  <1>a. \A u \in Ops : writing'[u] # NoBuf => pc'[u] = "in"
    <2> SUFFICES ASSUME NEW u \in Ops, writing'[u] # NoBuf PROVE u \in In'
      BY Zenon DEF In
    <2>1. writing' = writing /\ writing[t] = NoBuf
      BY Zenon DEF end_op
    <2> QED
      BY <1>1, <2>1, Zenon DEF Inv, Control, In
  <1>6. Control'
    BY <1>0, <1>3, <1>4, <1>a, SizeAssumption DEF Inv, Types, Control, end_op, disks
  <1>b. UNCHANGED <<disk, buf, dirty, lh, writing, tail>> /\ phase' \in {"none", "done", "write_log"}
    BY <1>0, Zenon DEF end_op, disks
  <1>7. Data'
    BY <1>0, <1>b DEF Inv, Data, bread, Logged, Locked
  <1>8. Log'
    BY <1>0, <1>b, SizeAssumption DEF Inv, Types, Control, Log
  <1> QED
    BY <1>5, <1>6, <1>7, <1>8, Zenon DEF Inv

\* log_write up to the lock: the caller keeps the modified buffer locked.
LEMMA WriteInv == ASSUME NEW t \in Ops, NEW b \in Blocks, NEW v \in Vals, Inv, log_write(t, b, v)
                  PROVE Inv'
  <1>0. t \in In /\ phase = "none"
    BY Zenon DEF Inv, Control, log_write, In
  <1>1. CASE TooBig \/ outstanding < 1
    BY <1>1, RebootInv, Zenon DEF log_write
  <1>2. CASE ~(TooBig \/ outstanding < 1)
    <2>1. buf' = [buf EXCEPT ![b] = v] /\ writing' = [writing EXCEPT ![t] = b]
          /\ wrote' = [wrote EXCEPT ![t] = @ \cup {b}]
          /\ UNCHANGED <<disk, logblk, head, dirty, lh, outstanding, committing, pc, phase, tail, overrun>>
      BY <1>2, Zenon DEF log_write, disks
    <2>2. In' = In
      BY <2>1, Zenon DEF In
    <2>3. Types'
      BY <2>1 DEF Inv, Types
    <2>4. \A u \in Ops : writing'[u] # NoBuf => pc'[u] = "in"
      BY <1>0, <2>1, Zenon DEF Inv, Types, Control, In
    <2>5. Control'
      BY <2>1, <2>2, <2>4 DEF Inv, Control, Injective
    <2>6. \A c \in Blocks : Locked(c) \/ c = b => Locked(c)'
      <3>1. \A u \in Ops : writing'[u] = IF u = t THEN b ELSE writing[u]
        BY <2>1, Zenon DEF Inv, Types
      <3>2. \A c \in Blocks : c # writing[t]
        BY SizeAssumption, Zenon DEF log_write
      <3> QED
        BY <3>1, <3>2, Zenon DEF Locked
    <2>7. \A c \in Blocks : c \notin dirty' /\ ~Locked(c)' => bread(c)' = disk'[c]
      BY <2>1, <2>6, Zenon DEF Inv, Types, Data, bread
    <2>8. Data' /\ Log'
      BY <1>0, <2>1, <2>7 DEF Inv, Data, Log, Logged
    <2> QED
      BY <2>3, <2>5, <2>8, Zenon DEF Inv
  <1> QED
    BY <1>1, <1>2, Zenon

\* log_write notes the block once in the header.
LEMMA AppendLogs == ASSUME NEW t \in Ops, Inv, log_append(t)
                    PROVE  /\ writing[t] \in Blocks
                           /\ lh' \in Seq(Blocks) /\ Injective(lh')
                           /\ Logged(lh') = Logged(lh) \cup {writing[t]}
  <1> DEFINE b == writing[t]
  <1>1. b \in Blocks
    BY Zenon DEF Inv, Types, log_append
  <1>2. CASE b \in Logged(lh)
    BY <1>1, <1>2 DEF log_append, Inv, Types, Control, Logged
  <1>3. CASE b \notin Logged(lh)
    <2>1. lh' = Append(lh, b)
      BY <1>3, Zenon DEF log_append
    <2>2. Len(lh') = Len(lh) + 1 /\ lh'[Len(lh) + 1] = b
          /\ \A i \in 1 .. Len(lh) : lh'[i] = lh[i]
      BY <1>1, <2>1 DEF Inv, Types
    <2>3. Len(lh) \in Nat /\ lh' \in Seq(Blocks)
      BY <1>1, <2>1 DEF Inv, Types
    <2> HIDE DEF b
    <2>4. Injective(lh')
      BY <1>3, <2>2, <2>3 DEF Inv, Control, Logged, Injective
    <2>5. Logged(lh') = Logged(lh) \cup {b}
      BY <2>2, <2>3 DEF Logged
    <2> QED
      BY <1>1, <2>3, <2>4, <2>5 DEF b
  <1> QED
    BY <1>2, <1>3, Zenon

\* The rest of log_write pins the buffer and notes the block.
LEMMA AppendInv == ASSUME NEW t \in Ops, Inv, log_append(t) PROVE Inv'
  <1> DEFINE b == writing[t]
  <1>0. t \in In /\ phase = "none"
    BY Zenon DEF Inv, Control, log_append, In
  <1>1. dirty' = dirty \cup {b} /\ writing' = [writing EXCEPT ![t] = NoBuf]
        /\ UNCHANGED <<disk, logblk, head, buf, outstanding, committing, pc, wrote, phase, tail, overrun>>
    BY Zenon DEF log_append, disks
  <1>2. In' = In
    BY <1>1, Zenon DEF In
  <1>3. Types'
    BY <1>1, AppendLogs DEF Inv, Types
  <1>4. \A u \in Ops : writing'[u] # NoBuf => pc'[u] = "in"
    BY <1>1, Zenon DEF Inv, Types, Control
  <1>5. Control'
    BY <1>0, <1>1, <1>2, <1>4, AppendLogs DEF Inv, Control
  <1>6. \A c \in Blocks : Locked(c) /\ c # b => Locked(c)'
    BY <1>1, Zenon DEF Inv, Types, Locked
  <1>7. \A c \in Blocks : c \notin dirty' /\ ~Locked(c)' => bread(c)' = disk'[c]
    BY <1>1, <1>6, Zenon DEF Inv, Data, bread
  <1>8. dirty' \subseteq Logged(lh')
    BY <1>0, <1>1, AppendLogs DEF Inv, Data
  <1>9. Data' /\ Log'
    BY <1>0, <1>1, <1>7, <1>8 DEF Data, Log
  <1> QED
    BY <1>3, <1>5, <1>9, Zenon DEF Inv

\* The contents the kernel sees do not depend on which clean buffers are kept.
LEMMA BgetSees == ASSUME NEW b \in Blocks, Inv, bget(b)
                  PROVE \A c \in Blocks : bread(c)' = bread(c)
  <1>1. bread(b) = disk[b] /\ buf' = [buf EXCEPT ![b] = NoBuf] /\ disk' = disk
    BY Zenon DEF Inv, Data, bget, disks
  <1> QED
    BY <1>1, Zenon DEF Inv, Types, bread

\* bget() reads or recycles a clean buffer.
LEMMA BgetInv == ASSUME NEW b \in Blocks, Inv, bget(b) PROVE Inv'
  <1>1. Types'
    BY Zenon DEF Inv, Types, bget, disks
  <1>2. In' = In
    BY Zenon DEF bget, In
  <1>3. Control'
    BY <1>2, Zenon DEF Inv, Control, bget, disks
  <1>4. \A i \in 1 .. Len(lh) : lh[i] \in Blocks
    BY DEF Inv, Types
  <1>5. phase \in {"write_log", "install_trans", "recover"} => tail <= Len(lh)
    BY DEF Inv, Types, Control
  <1> DEFINE Same(i) == bread(lh[i])' = bread(lh[i])
  <1>6. \A i \in 1 .. Len(lh) : Same(i)
    BY <1>4, BgetSees, Zenon DEF bget, bread
  <1>7. UNCHANGED <<lh, dirty, disk, logblk, writing, phase, tail, overrun>>
    BY Zenon DEF bget, disks
  <1>8. (\A c \in Blocks : c \notin dirty /\ ~Locked(c) => bread(c) = disk[c])'
    BY <1>7, BgetSees, Zenon DEF Inv, Data, Locked
  <1>9. Data'
    BY <1>7, <1>8 DEF Inv, Data, Logged
  <1>10. (~overrun => Log)'
    BY <1>5, <1>6, <1>7 DEF Inv, Types, Log
  <1> QED
    BY <1>1, <1>3, <1>9, <1>10, Zenon DEF Inv

\* write_log copies one more block of the transaction to the log.
LEMMA WriteLogInv == ASSUME Inv, write_log PROVE Inv'
  <1> DEFINE k == tail + 1
  <1> DEFINE v == bread(lh[k])
  <1>0. k \in 1 .. Len(lh) /\ lh[k] \in Blocks
    BY DEF Inv, Types, Control, write_log
  <1>1. v \in Vals /\ AfterLog \in Blocks
    BY <1>0, SizeAssumption, Zenon DEF Inv, Types, bread
  <1>2. UNCHANGED <<head, lh, outstanding, committing, pc, wrote, writing>> /\ phase = "write_log"
    BY Zenon DEF write_log
  <1>3. In' = In
    BY <1>2, Zenon DEF In
  <1>4. CASE SelfLocked
    <2>1. UNCHANGED <<disk, logblk, buf, dirty, tail>> /\ phase' = "stuck" /\ overrun' = TRUE
      BY <1>4, Zenon DEF write_log
    <2>2. Types'
      BY <1>2, <2>1, Zenon DEF Inv, Types
    <2>3. Control'
      BY <1>2, <1>3, <2>1 DEF Inv, Control, Injective
    <2>4. Data'
      BY <1>2, <2>1 DEF Inv, Data, bread, Logged, Locked
    <2> QED
      BY <2>1, <2>2, <2>3, <2>4, Zenon DEF Inv
  <1>5. CASE ~SelfLocked
    <2>0. /\ WriteLogBlock(k, v)
          /\ IF k = Len(lh) THEN phase' = "write_head" /\ tail' = 0 ELSE tail' = k /\ phase' = phase
      BY <1>5, Zenon DEF write_log
    <2>1. phase' \in {"write_log", "write_head"} /\ tail' \in Nat
      BY <1>2, <2>0 DEF Inv, Types
    <2>2. Control'
      BY <1>0, <1>2, <1>3, <2>0 DEF Inv, Types, Control, Injective
    <2>3. CASE k \in LogBlocks
      <3>1. logblk' = [logblk EXCEPT ![k] = v] /\ UNCHANGED <<disk, buf, dirty, overrun>>
        BY <2>0, <2>3, Zenon DEF WriteLogBlock
      <3>2. Types'
        BY <1>1, <1>2, <2>1, <3>1, Zenon DEF Inv, Types
      <3>3. Data'
        BY <1>2, <2>1, <3>1 DEF Inv, Data, bread, Logged, Locked
      <3>4. ~overrun => \A i \in 1 .. k : logblk'[i] = bread(lh[i])'
        <4> SUFFICES ASSUME ~overrun, NEW i \in 1 .. k PROVE logblk'[i] = bread(lh[i])'
          BY Zenon
        <4>1. i \in LogBlocks /\ (i # k => i \in 1 .. tail)
          BY <2>3, SizeAssumption DEF Inv, Types, LogBlocks
        <4>2. logblk'[i] = IF i = k THEN v ELSE logblk[i]
          BY <3>1, <4>1, Zenon DEF Inv, Types
        <4>3. i \in 1 .. tail => logblk[i] = bread(lh[i])
          BY <1>2, Zenon DEF Inv, Log
        <4>4. bread(lh[i])' = bread(lh[i])
          BY <1>2, <3>1, Zenon DEF bread
        <4> QED
          BY <4>1, <4>2, <4>3, <4>4, Zenon
      <3>5. k < LOGSIZE
        BY <2>3, SizeAssumption DEF LogBlocks
      <3>6. (~overrun => Log)'
        BY <1>0, <1>2, <2>0, <3>1, <3>4, <3>5 DEF Log
      <3> QED
        BY <2>2, <3>2, <3>3, <3>6, Zenon DEF Inv
    <2>4. CASE k \notin LogBlocks
      <3>1. disk' = [disk EXCEPT ![AfterLog] = v] /\ buf' = [buf EXCEPT ![AfterLog] = v]
            /\ dirty' = dirty \ {AfterLog} /\ overrun' = TRUE /\ logblk' = logblk
        BY <2>0, <2>4, Zenon DEF WriteLogBlock
      <3>2. Types'
        BY <1>1, <1>2, <2>1, <3>1 DEF Inv, Types
      <3>3. \A c \in Blocks : c \notin dirty' /\ ~Locked(c)' => bread(c)' = disk'[c]
        <4> SUFFICES ASSUME NEW c \in Blocks, c \notin dirty', ~Locked(c)' PROVE bread(c)' = disk'[c]
          BY Zenon
        <4>1. CASE c = AfterLog
          BY <1>1, <3>1, <4>1, Zenon DEF Inv, Types, bread
        <4>2. CASE c # AfterLog
          BY <1>2, <3>1, <4>2, Zenon DEF Inv, Types, Data, bread, Locked
        <4> QED
          BY <4>1, <4>2, Zenon
      <3>4. Data'
        BY <1>2, <2>1, <3>1, <3>3 DEF Inv, Data, Logged
      <3> QED
        BY <2>2, <3>1, <3>2, <3>4, Zenon DEF Inv
    <2> QED
      BY <2>3, <2>4, Zenon
  <1> QED
    BY <1>4, <1>5, Zenon

\* write_head makes the header on disk that of the transaction.
LEMMA WriteHeadInv == ASSUME Inv, write_head PROVE Inv'
  <1>1. Types'
    BY Zenon DEF Inv, Types, write_head
  <1>2. In' = In
    BY Zenon DEF write_head, In
  <1>3. Control'
    BY <1>2 DEF Inv, Types, Control, write_head
  <1>4. Data'
    BY DEF Inv, Types, Control, Data, write_head, bread, Logged, Locked
  <1>5. (~overrun => Log)'
    BY DEF Inv, Types, Control, Log, write_head, bread
  <1> QED
    BY <1>1, <1>3, <1>4, <1>5, Zenon DEF Inv

\* install_trans brings one more block home.
LEMMA InstallInv == ASSUME Inv, install_trans PROVE Inv'
  <1> DEFINE k == tail + 1
  <1> DEFINE v == LogBlock(k, bread(AfterLog))
  <1>0. k \in 1 .. Len(lh) /\ lh[k] \in Blocks
    BY DEF Inv, Types, Control, install_trans
  <1>a. v \in Vals
    BY SizeAssumption, Zenon DEF Inv, Types, LogBlock, bread
  <1>b. /\ disk' = [disk EXCEPT ![lh[k]] = v] /\ buf' = [buf EXCEPT ![lh[k]] = v]
        /\ dirty' = dirty \ {lh[k]} /\ tail' = k /\ phase \in {"install_trans", "recover"}
        /\ UNCHANGED <<logblk, head, lh, outstanding, committing, pc, wrote, writing, phase, overrun>>
    BY Zenon DEF install_trans
  <1> HIDE DEF v
  <1>1. Types'
    BY <1>0, <1>a, <1>b DEF Inv, Types
  <1>2. In' = In
    BY <1>b, Zenon DEF In
  <1>3. Control'
    BY <1>0, <1>2, <1>b DEF Inv, Types, Control, Injective
  <1>4. \A c \in Blocks : IF c = lh[k] THEN bread(c)' = v /\ disk'[c] = v
                          ELSE bread(c)' = bread(c) /\ disk'[c] = disk[c]
    BY <1>0, <1>a, <1>b, SizeAssumption, Zenon DEF Inv, Types, bread
  <1>5. \A i \in 1 .. Len(lh) : lh[i] \in Blocks /\ (i # k => lh[i] # lh[k])
    BY <1>0 DEF Inv, Types, Control, Injective
  <1>6. (\A c \in Blocks : c \notin dirty /\ ~Locked(c) => bread(c) = disk[c])'
    BY <1>0, <1>4, <1>b, Zenon DEF Inv, Data, Locked
  <1>7. phase = "install_trans" => \A b \in dirty' : \E i \in 1 .. Len(lh) : i > k /\ lh[i] = b
    BY <1>0, <1>b DEF Inv, Types, Data
  <1>8. phase = "recover" => dirty' = {}
    BY <1>b, Zenon DEF Inv, Data
  <1>9. Data'
    BY <1>6, <1>7, <1>8, <1>b DEF Data
  <1>10. ASSUME ~overrun PROVE Log'
    <2>1. Len(lh) < LOGSIZE
      BY <1>10, <1>b, Zenon DEF Inv, Log
    <2>2. v = logblk[k]
      BY <1>0, <2>1, SizeAssumption DEF v, LogBlock, LogBlocks, Inv, Types
    <2>3. \A i \in 1 .. k : disk'[lh[i]] = logblk[i]
      <3> SUFFICES ASSUME NEW i \in 1 .. k PROVE disk'[lh[i]] = logblk[i]
        BY Zenon
      <3>1. i \in 1 .. Len(lh) /\ (i # k => i \in 1 .. tail)
        BY <1>0 DEF Inv, Types
      <3> QED
        BY <1>4, <1>5, <1>10, <1>b, <2>2, <3>1, Zenon DEF Inv, Log
    <2>4. phase = "install_trans" => \A i \in 1 .. Len(lh) : logblk[i] = bread(lh[i])'
      <3> SUFFICES ASSUME phase = "install_trans", NEW i \in 1 .. Len(lh)
                   PROVE  logblk[i] = bread(lh[i])'
        BY Zenon
      <3>1. logblk[i] = bread(lh[i])
        BY <1>10, Zenon DEF Inv, Log
      <3>2. \A c : bread(c)' = IF buf'[c] # NoBuf THEN buf'[c] ELSE disk'[c]
        BY Zenon DEF bread
      <3>3. bread(lh[i])' = IF buf'[lh[i]] # NoBuf THEN buf'[lh[i]] ELSE disk'[lh[i]]
        BY <1>b DEF bread
      <3> QED
        BY <1>4, <1>5, <2>2, <3>1, <3>2, <3>3, Zenon
    <2> QED
      BY <1>b, <2>1, <2>3, <2>4 DEF Log
  <1> QED
    BY <1>1, <1>3, <1>9, <1>10, <1>b, Zenon DEF Inv

\* Once every block is home, nothing is pinned and the header may go.
LEMMA AllHome == ASSUME Inv, clear_head
                 PROVE  /\ dirty = {} /\ \A b \in Blocks : ~Locked(b)
                        /\ ~overrun => \A i \in 1 .. Len(lh) : disk[lh[i]] = logblk[i]
  <1>1. dirty = {}
    BY DEF Inv, Types, Data, clear_head
  <1>2. \A b \in Blocks : ~Locked(b)
    BY SizeAssumption, Zenon DEF Inv, Control, clear_head, Locked, In
  <1>3. ~overrun => \A i \in 1 .. Len(lh) : disk[lh[i]] = logblk[i]
    BY Zenon DEF Inv, Log, clear_head
  <1> QED
    BY <1>1, <1>2, <1>3, Zenon

\* The log is emptied when all its blocks are home.
LEMMA ClearInv == ASSUME Inv, clear_head PROVE Inv'
  <1>1. Types'
    BY DEF Inv, Types, clear_head
  <1>2. In' = In
    BY Zenon DEF clear_head, In
  <1>3. Control'
    BY <1>2, SizeAssumption DEF Inv, Types, Control, clear_head, Injective
  <1>4. Data'
    BY AllHome DEF Inv, Types, Data, clear_head, bread
  <1>5. Log'
    BY Zenon DEF clear_head, Log
  <1> QED
    BY <1>1, <1>3, <1>4, <1>5, Zenon DEF Inv

\* commit() is over and the callers may come in.
LEMMA EndCommitInv == ASSUME Inv, end_commit PROVE Inv'
  <1>1. Types'
    BY Zenon DEF Inv, Types, end_commit, disks, wakeup
  <1>2. In' = In
    BY Zenon DEF end_commit, In, wakeup, Inv, Types
  <1>a. \A t \in Ops : writing'[t] # NoBuf => pc'[t] = "in"
    BY Zenon DEF Inv, Types, Control, end_commit, wakeup
  <1>3. Control'
    BY <1>2, <1>a, Zenon DEF Inv, Types, Control, end_commit, disks
  <1>4. Data'
    BY DEF Inv, Types, Control, Data, end_commit, disks, bread, Logged, Locked
  <1>5. Log'
    BY Zenon DEF end_commit, Log
  <1> QED
    BY <1>1, <1>3, <1>4, <1>5, Zenon DEF Inv

\* A step that changes nothing.
LEMMA StutterInv == Inv /\ UNCHANGED vars => Inv'
  BY DEF Inv, Types, Control, Data, Log, vars, In, bread, Logged, Locked, Injective

\* Every step keeps the invariant.
LEMMA NextInv == Inv /\ [Next]_vars => Inv'
  <1> SUFFICES ASSUME Inv, [Next]_vars PROVE Inv'
    BY Zenon
  <1>1. ASSUME NEW t \in Ops, begin_op(t) PROVE Inv'
    BY <1>1, BeginInv, Zenon
  <1>2. ASSUME NEW t \in Ops, end_op(t) PROVE Inv'
    BY <1>2, EndInv, Zenon
  <1>a. ASSUME NEW t \in Ops, log_append(t) PROVE Inv'
    BY <1>a, AppendInv, Zenon
  <1>3. ASSUME NEW t \in Ops, NEW b \in Blocks, NEW v \in Vals, log_write(t, b, v) PROVE Inv'
    BY <1>3, WriteInv, Zenon
  <1>4. ASSUME NEW b \in Blocks, bget(b) PROVE Inv'
    BY <1>4, BgetInv, Zenon
  <1>5. CASE Commit
    BY <1>5, WriteLogInv, WriteHeadInv, InstallInv, ClearInv, EndCommitInv, Zenon DEF Commit
  <1>6. CASE Crash
    BY <1>6, RebootInv, Zenon DEF Crash
  <1>7. CASE UNCHANGED vars
    BY <1>7, StutterInv
  <1> QED
    BY <1>1, <1>2, <1>3, <1>4, <1>5, <1>6, <1>7, <1>a, Zenon DEF Next

\* The inductive invariant holds in every reachable state.
THEOREM Invariance == Spec => []Inv
  BY InitInv, NextInv, PTL DEF Spec

\* When the last end_op has returned, what the callers wrote is on disk and the
\* log is empty (log.c: end_op commits before it returns to the last caller).
THEOREM QuiescentDurable == Spec => []QuiescentIsDurable
  <1>1. Inv => QuiescentIsDurable
    <2> SUFFICES ASSUME Inv, outstanding = 0, phase = "none"
                 PROVE  head = <<>> /\ \A b \in Blocks : bread(b) = disk[b]
      BY Zenon DEF QuiescentIsDurable
    <2>1. In = {}
      BY InFinite, Zenon DEF Inv, Control
    <2>2. \A b \in Blocks : ~Locked(b)
      BY <2>1, SizeAssumption, Zenon DEF Inv, Control, Locked, In
    <2>3. dirty = {}
      BY <2>1 DEF Inv, Control, Data, Logged
    <2> QED
      BY <2>2, <2>3, Zenon DEF Inv, Control, Data
  <1> QED
    BY <1>1, Invariance, PTL

-----------------------------------------------------------------------------
\* Refinement

Durable == Redo(head)
Current == IF phase = "recover" THEN Redo(head) ELSE [b \in Blocks |-> bread(b)]

\* The log block that recovery takes for a logged home block is unique.
LEMMA RedoOf == Inv /\ ~overrun =>
                \A b \in Blocks :
                  /\ \A i \in 1 .. Len(head) : head[i] = b => Redo(head)[b] = logblk[i]
                  /\ b \notin Logged(head) => Redo(head)[b] = disk[b]
  <1> SUFFICES ASSUME Inv, ~overrun, NEW b \in Blocks
               PROVE  /\ \A i \in 1 .. Len(head) : head[i] = b => Redo(head)[b] = logblk[i]
                      /\ b \notin Logged(head) => Redo(head)[b] = disk[b]
    BY Zenon
  <1>1. Injective(head) /\ Len(head) \in Nat
    BY DEF Inv, Types, Control, Injective
  <1>a. Len(head) < LOGSIZE
    BY SizeAssumption DEF Inv, Control, Log
  <1>2. ASSUME NEW i \in 1 .. Len(head), head[i] = b PROVE Redo(head)[b] = logblk[i]
    <2>1. b \in Logged(head)
      BY <1>2, Zenon DEF Logged
    <2>2. (CHOOSE j \in 1 .. Len(head) : head[j] = b) = i
      BY <1>1, <1>2, Zenon DEF Injective
    <2>3. i \in LogBlocks
      BY <1>1, <1>a, SizeAssumption DEF LogBlocks
    <2> QED
      BY <2>1, <2>2, <2>3, Zenon DEF Redo, LogBlock
  <1>3. b \notin Logged(head) => Redo(head)[b] = disk[b]
    BY Zenon DEF Redo
  <1> QED
    BY <1>2, <1>3, Zenon

\* With an empty header a reboot finds the disk as it is.
LEMMA RedoEmpty == ASSUME head = <<>> PROVE \A b \in Blocks : Redo(head)[b] = disk[b]
  BY DEF Redo, Logged

\* During install_trans the callers' view is what the log would restore.
LEMMA InstallCurrent ==
    Inv /\ ~overrun /\ phase = "install_trans" => \A b \in Blocks : bread(b) = Redo(head)[b]
  <1> SUFFICES ASSUME Inv, ~overrun, phase = "install_trans", NEW b \in Blocks
               PROVE  bread(b) = Redo(head)[b]
    BY Zenon
  <1>1. CASE b \in Logged(head)
    <2>1. PICK i \in 1 .. Len(head) : head[i] = b
      BY <1>1, Zenon DEF Logged
    <2> QED
      BY <2>1, RedoOf, Zenon DEF Inv, Control, Log
  <1>2. CASE b \notin Logged(head)
    <2>1. b \notin dirty
      BY <1>2 DEF Inv, Control, Data, Logged
    <2>2. ~Locked(b)
      BY SizeAssumption, Zenon DEF Inv, Control, Locked, In
    <2> QED
      BY <1>2, <2>1, <2>2, RedoOf, Zenon DEF Inv, Data
  <1> QED
    BY <1>1, <1>2, Zenon

\* Equal contents, equal disks.
LEMMA SameDurable == ASSUME \A b \in Blocks : Redo(head)'[b] = Redo(head)[b]
                     PROVE  Durable' = Durable
  BY Zenon DEF Durable, Redo

\* The callers see the same blocks if none of them reads differently.
LEMMA SameCurrent == ASSUME phase # "recover", phase' # "recover",
                            \A b \in Blocks : bread(b)' = bread(b)
                     PROVE  Current' = Current
  BY Zenon DEF Current

\* Outside a call no buffer is locked.
LEMMA NoneLocked == ASSUME Inv, In = {} PROVE \A b \in Blocks : ~Locked(b)
  BY SizeAssumption, Zenon DEF Inv, Control, Locked, In

\* With the same header and the same disk a reboot finds the same.
LEMMA DurableKept == ASSUME UNCHANGED <<head, logblk, disk>> PROVE Durable' = Durable
  BY DEF Durable, Redo, Logged, LogBlock

\* A reboot is a crash of the atomic disk: the callers are gone, and what is
\* read is what was durable.
LEMMA RebootCrash == ASSUME Inv, Reboot
                     PROVE  /\ Durable' = Durable /\ Current' = Durable /\ In' = {}
                            /\ Uncommitted' = {} /\ overrun' = overrun
  <1>1. Durable' = Durable
    BY DurableKept, Zenon DEF Reboot, disks
  <1>2. Current' = Durable'
    BY DEF Reboot, Current, Durable
  <1>3. In' = {}
    BY DEF Reboot, In
  <1>4. Uncommitted' = {} /\ overrun' = overrun
    BY DEF Reboot, Uncommitted
  <1> QED
    BY <1>1, <1>2, <1>3, <1>4, Zenon

\* A write changes the callers' view and nothing durable, and the block joins
\* the transaction.
LEMMA WriteStep == ASSUME NEW t \in Ops, NEW b \in Blocks, NEW v \in Vals, Inv,
                          log_write(t, b, v), ~(TooBig \/ outstanding < 1)
                   PROVE  /\ Durable' = Durable /\ In' = In /\ t \in In
                          /\ Current' = [Current EXCEPT ![b] = v]
                          /\ Uncommitted' = Uncommitted \cup {b} /\ overrun' = overrun
  <1>1. t \in In /\ In' = In /\ phase = "none" /\ phase' = "none"
    BY Zenon DEF Inv, Control, log_write, In
  <1>2. Durable' = Durable
    BY DurableKept, Zenon DEF log_write, disks
  <1>3. buf' = [buf EXCEPT ![b] = v] /\ disk' = disk /\ overrun' = overrun /\ lh' = lh
        /\ writing' = [writing EXCEPT ![t] = b] /\ writing[t] = NoBuf
    BY Zenon DEF log_write, disks
  <1>4. \A c \in Blocks : bread(c)' = IF c = b THEN v ELSE bread(c)
    BY <1>3, SizeAssumption, Zenon DEF bread, Inv, Types
  <1>5. Current' = [Current EXCEPT ![b] = v]
    BY <1>1, <1>4, Zenon DEF Current
  <1>6. \A c \in Blocks : Locked(c)' <=> Locked(c) \/ c = b
    <2>1. \A u \in Ops : writing'[u] = IF u = t THEN b ELSE writing[u]
      BY <1>3, Zenon DEF Inv, Types
    <2>2. \A c \in Blocks : c # writing[t]
      BY <1>3, SizeAssumption, Zenon
    <2> QED
      BY <2>1, <2>2, Zenon DEF Locked
  <1>7. Logged(lh)' = Logged(lh)
    BY <1>3 DEF Logged
  <1>8. Uncommitted' = Uncommitted \cup {b}
    BY <1>1, <1>6, <1>7, Zenon DEF Uncommitted
  <1> QED
    BY <1>1, <1>2, <1>3, <1>5, <1>8, Zenon

\* Noting the block in the header changes nothing of this.
LEMMA AppendStep == ASSUME NEW t \in Ops, Inv, log_append(t)
                    PROVE  /\ Durable' = Durable /\ Current' = Current /\ In' = In
                           /\ Uncommitted' = Uncommitted /\ overrun' = overrun
  <1>0. phase = "none" /\ writing' = [writing EXCEPT ![t] = NoBuf]
        /\ UNCHANGED <<disk, logblk, head, buf, pc, phase, overrun>>
    BY Zenon DEF Inv, Control, log_append, disks, In
  <1>1. Durable' = Durable /\ In' = In
    BY <1>0, DurableKept, Zenon DEF In
  <1>2. Current' = Current
    BY <1>0, SameCurrent DEF bread
  <1>3. \A c \in Blocks : c # writing[t] => (Locked(c)' <=> Locked(c))
    <2>1. \A u \in Ops : writing'[u] = IF u = t THEN NoBuf ELSE writing[u]
      BY <1>0, Zenon DEF Inv, Types
    <2> QED
      BY <2>1, SizeAssumption, Zenon DEF Locked
  <1>4. Locked(writing[t]) /\ Logged(lh)' = Logged(lh) \cup {writing[t]} /\ writing[t] \in Blocks
    BY AppendLogs, Zenon DEF Locked
  <1>5. Uncommitted' = Uncommitted
    BY <1>0, <1>3, <1>4 DEF Uncommitted
  <1> QED
    BY <1>0, <1>1, <1>2, <1>5, Zenon

\* write_head is the commit: nobody is in a call, and the log holds what the
\* callers see ("the true point at which the current transaction commits").
LEMMA CommitStep == ASSUME Inv, Inv', ~overrun, write_head
                    PROVE  /\ In = {} /\ In' = In /\ Durable' = Current /\ Current' = Current
                           /\ Uncommitted' = {} /\ overrun' = overrun
  <1>1. In = {} /\ In' = In /\ overrun' = overrun
    BY Zenon DEF Inv, Control, write_head, In
  <1>2. \A b \in Blocks : bread(b)' = bread(b)
    BY Zenon DEF write_head, bread
  <1>3. Current' = Current
    BY <1>2, SameCurrent DEF write_head
  <1>4. (Inv /\ ~overrun /\ phase = "install_trans" => \A b \in Blocks : bread(b) = Redo(head)[b])'
    BY InstallCurrent, PTL
  <1>5. Durable' = Current'
    <2>1. phase' = "install_trans" /\ ~overrun'
      BY <1>1 DEF write_head
    <2>2. \A b \in Blocks : bread(b)' = Redo(head)'[b]
      BY <1>4, <2>1, Zenon
    <2> QED
      BY <2>1, <2>2, Zenon DEF Durable, Current, Redo
  <1>6. Uncommitted' = {}
    BY DEF write_head, Uncommitted
  <1> QED
    BY <1>1, <1>3, <1>5, <1>6, Zenon

\* Bringing blocks home changes neither what a reboot finds nor what callers see.
LEMMA InstallStep == ASSUME Inv, Inv', ~overrun, install_trans
                     PROVE  /\ Durable' = Durable /\ Current' = Current /\ In' = In
                            /\ Uncommitted' = Uncommitted /\ overrun' = overrun
  <1> DEFINE k == tail + 1
  <1>0. k \in 1 .. Len(lh) /\ lh[k] \in Blocks /\ head = lh
    BY DEF Inv, Types, Control, install_trans
  <1>1. In' = In /\ UNCHANGED <<head, logblk, phase, overrun>> /\ phase \in {"install_trans", "recover"}
    BY Zenon DEF install_trans, In
  <1>2. \A b \in Blocks : b \notin Logged(head) => disk'[b] = disk[b]
    BY <1>0, Zenon DEF install_trans, Logged, Inv, Types
  <1>a. (Inv /\ ~overrun =>
           \A b \in Blocks :
             /\ \A i \in 1 .. Len(head) : head[i] = b => Redo(head)[b] = logblk[i]
             /\ b \notin Logged(head) => Redo(head)[b] = disk[b])'
    BY RedoOf, PTL
  <1>b. ASSUME NEW b \in Blocks PROVE Redo(head)'[b] = Redo(head)[b]
    <2>1. CASE b \in Logged(head)
      <3>1. PICK i \in 1 .. Len(head) : head[i] = b
        BY <2>1, Zenon DEF Logged
      <3>2. Redo(head)[b] = logblk[i]
        BY <3>1, RedoOf, Zenon
      <3>3. Redo(head)'[b] = logblk[i]
        BY <1>1, <1>a, <3>1, Zenon
      <3> QED
        BY <3>2, <3>3, Zenon
    <2>2. CASE b \notin Logged(head)
      <3>1. b \notin Logged(head)'
        BY <1>1, <2>2 DEF Logged
      <3> QED
        BY <1>1, <1>2, <1>a, <2>2, <3>1, RedoOf, Zenon
    <2> QED
      BY <2>1, <2>2, Zenon
  <1>3. Durable' = Durable
    BY <1>b, SameDurable, Zenon
  <1>c. Uncommitted' = Uncommitted
    BY <1>1 DEF Uncommitted
  <1>4. CASE phase = "recover"
    BY <1>1, <1>3, <1>c, <1>4, Zenon DEF Current, Durable
  <1>5. CASE phase = "install_trans"
    <2>1. (Inv /\ ~overrun /\ phase = "install_trans" => \A b \in Blocks : bread(b) = Redo(head)[b])'
      BY InstallCurrent, PTL
    <2>2. \A b \in Blocks : bread(b)' = bread(b)
      BY <1>1, <1>5, <1>b, <2>1, InstallCurrent, Zenon
    <2> QED
      BY <1>1, <1>3, <1>c, <1>5, <2>2, SameCurrent
  <1> QED
    BY <1>1, <1>4, <1>5, Zenon

\* Clearing the header changes nothing either: every block is home.
LEMMA ClearStep == ASSUME Inv, ~overrun, clear_head
                   PROVE  /\ Durable' = Durable /\ Current' = Current /\ In' = In
                          /\ Uncommitted' = Uncommitted /\ overrun' = overrun
  <1>1. In' = In /\ disk' = disk /\ buf' = buf /\ head' = <<>> /\ head = lh /\ overrun' = overrun
        /\ phase' # "recover" /\ phase \in {"install_trans", "recover"} /\ lh' = <<>>
        /\ writing' = writing
    BY Zenon DEF Inv, Control, clear_head, In
  <1>2. \A b \in Blocks : Redo(head)[b] = disk[b]
    <2> SUFFICES ASSUME NEW b \in Blocks PROVE Redo(head)[b] = disk[b]
      BY Zenon
    <2>1. CASE b \in Logged(head)
      <3>1. PICK i \in 1 .. Len(head) : head[i] = b
        BY <2>1, Zenon DEF Logged
      <3> QED
        BY <1>1, <3>1, RedoOf, AllHome
    <2>2. CASE b \notin Logged(head)
      BY <2>2, RedoOf, Zenon
    <2> QED
      BY <2>1, <2>2, Zenon
  <1>3. \A b \in Blocks : Redo(head)'[b] = disk[b]
    BY <1>1 DEF Redo, Logged
  <1>4. Durable' = Durable
    BY <1>2, <1>3, SameDurable, Zenon
  <1>5. \A b \in Blocks : bread(b) = disk[b] /\ bread(b)' = disk[b]
    BY <1>1, AllHome, Zenon DEF Inv, Data, bread
  <1>6. Current' = Current
    BY <1>1, <1>2, <1>5, Zenon DEF Current, Redo
  <1>7. \A b \in Blocks : ~Locked(b)'
    BY <1>1, AllHome, Zenon DEF Locked
  <1>8. Logged(lh)' = {}
    BY <1>1 DEF Logged
  <1>9. Uncommitted' = {} /\ Uncommitted = {}
    BY <1>1, <1>7, <1>8 DEF Uncommitted
  <1> QED
    BY <1>1, <1>4, <1>6, <1>9, Zenon

\* Writing a block of the log, recycling a clean buffer and leaving commit()
\* change nothing that the atomic disk shows.
LEMMA QuietSteps == ASSUME Inv, ~overrun', write_log \/ end_commit \/ (\E b \in Blocks : bget(b))
                    PROVE  /\ Durable' = Durable /\ Current' = Current /\ In' = In
                           /\ Uncommitted' = Uncommitted
  <1>1. CASE write_log
    <2>0. WriteLogBlock(tail + 1, bread(lh[tail + 1])) /\ tail + 1 \in LogBlocks
      BY <1>1, Zenon DEF write_log, WriteLogBlock
    <2>1. In' = In /\ head = <<>> /\ head' = <<>> /\ phase = "write_log"
          /\ phase' \in {"write_log", "write_head"} /\ UNCHANGED <<lh, writing>>
      BY <1>1, Zenon DEF Inv, Control, write_log, In, WriteLogBlock
    <2>2. disk' = disk /\ buf' = buf
      BY <2>0, Zenon DEF WriteLogBlock
    <2>3. Durable' = Durable
      BY <2>1, <2>2 DEF Durable, Redo, Logged
    <2>4. Uncommitted' = Uncommitted
      BY <2>1 DEF Uncommitted, Logged, Locked
    <2> QED
      BY <2>1, <2>2, <2>3, <2>4, SameCurrent DEF bread
  <1>2. CASE end_commit
    <2>1. UNCHANGED <<disk, logblk, head, buf, lh, writing>> /\ phase = "done" /\ phase' = "none"
      BY <1>2, Zenon DEF end_commit, disks
    <2>2. In' = In
      BY <1>2, Zenon DEF end_commit, In, wakeup, Inv, Types
    <2>3. lh = <<>> /\ In = {}
      BY <2>1 DEF Inv, Control
    <2>4. Durable' = Durable
      BY <2>1, DurableKept, Zenon
    <2>5. Current' = Current
      BY <2>1, SameCurrent DEF bread
    <2>6. \A b \in Blocks : ~Locked(b)'
      BY <2>1, <2>3, NoneLocked, Zenon DEF Locked
    <2>7. Uncommitted' = Uncommitted
      BY <2>1, <2>3, <2>6 DEF Uncommitted, Logged
    <2> QED
      BY <2>2, <2>4, <2>5, <2>7, Zenon
  <1>3. ASSUME NEW b \in Blocks, bget(b)
        PROVE  Durable' = Durable /\ Current' = Current /\ In' = In /\ Uncommitted' = Uncommitted
    <2>1. UNCHANGED <<disk, logblk, head, pc, phase, lh, writing>>
      BY <1>3, Zenon DEF bget, disks
    <2>2. Durable' = Durable /\ In' = In
      BY <2>1, DurableKept, Zenon DEF In
    <2>a. Uncommitted' = Uncommitted
      BY <2>1 DEF Uncommitted, Logged, Locked
    <2>3. CASE phase = "recover"
      BY <2>1, <2>2, <2>3, <2>a, Zenon DEF Current, Durable
    <2>4. CASE phase # "recover"
      BY <1>3, <2>1, <2>2, <2>4, <2>a, BgetSees, SameCurrent
    <2> QED
      BY <2>2, <2>3, <2>4, <2>a, Zenon
  <1> QED
    BY <1>1, <1>2, <1>3, Zenon

\* A call enters (or falls asleep).
LEMMA BeginStep == ASSUME NEW t \in Ops, Inv, begin_op(t)
                   PROVE  /\ Durable' = Durable /\ Current' = Current
                          /\ Uncommitted' = Uncommitted /\ overrun' = overrun
                          /\ In' = In \/ (t \notin In /\ In' = In \cup {t})
  <1>0. UNCHANGED <<disk, logblk, head, buf, lh, writing, phase, overrun>>
    BY Zenon DEF begin_op, disks
  <1>1. Durable' = Durable /\ Uncommitted' = Uncommitted
    BY <1>0, DurableKept DEF Uncommitted, Logged, Locked
  <1>2. Current' = Current
    BY <1>0, <1>1 DEF Current, Durable, bread
  <1>3. In' = In \/ (t \notin In /\ In' = In \cup {t})
    BY Zenon DEF begin_op, In, Inv, Types
  <1> QED
    BY <1>0, <1>1, <1>2, <1>3, Zenon

\* end_op() is a step of the atomic disk: the call ends, and commits nothing yet.
LEMMA EndStep == ASSUME NEW t \in Ops, Inv, end_op(t)
                 PROVE  /\ Durable' = Durable /\ Current' = Current /\ t \in In /\ In' = In \ {t}
                        /\ Uncommitted' = Uncommitted /\ overrun' = overrun
  <1>0. UNCHANGED <<disk, logblk, head, buf, lh, writing, overrun>>
    BY Zenon DEF end_op, disks
  <1>1. Durable' = Durable
    BY <1>0, DurableKept, Zenon
  <1>2. t \in In /\ In' = In \ {t}
    BY Zenon DEF end_op, In, Inv, Types, wakeup
  <1>3. phase = "none" /\ phase' # "recover"
    BY <1>2, Zenon DEF Inv, Control, end_op
  <1>4. Current' = Current
    BY <1>0, <1>3, SameCurrent DEF bread
  <1>5. CASE phase' \in {"none", "write_log"}
    BY <1>0, <1>1, <1>2, <1>3, <1>4, <1>5 DEF Uncommitted, Logged, Locked
  <1>6. CASE phase' = "done"
    <2>1. lh = <<>> /\ outstanding = 1
      BY <1>3, <1>6, Zenon DEF end_op
    <2>2. In = {t}
      <3>1. Cardinality(In) = 1
        BY <2>1, Zenon DEF Inv, Control
      <3>2. IsFiniteSet(In)
        BY InFinite, Zenon
      <3>3. \E x : In = {x}
        BY <3>1, <3>2, FS_Singleton, Zenon
      <3> QED
        BY <1>2, <3>3, Zenon
    <2>3. writing[t] = NoBuf
      BY Zenon DEF end_op
    <2>4. \A b \in Blocks : ~Locked(b)
      BY <2>2, <2>3, SizeAssumption, Zenon DEF Inv, Control, Locked, In
    <2>5. Logged(lh) = {}
      BY <2>1 DEF Logged
    <2>6. Uncommitted = {} /\ Uncommitted' = {}
      BY <1>3, <1>6, <2>4, <2>5 DEF Uncommitted
    <2> QED
      BY <1>0, <1>1, <1>2, <1>4, <2>6, Zenon
  <1> QED
    BY <1>3, <1>5, <1>6, Zenon DEF end_op

\* write_log leaves the log only with LOGSIZE or more different blocks.
LEMMA BreakStep == ASSUME Inv, ~overrun, overrun', write_log
                   PROVE  In = {} /\ ~(Cardinality(Uncommitted) <= LOGSIZE - 1)
  <1>1. In = {} /\ phase = "write_log"
    BY Zenon DEF Inv, Control, write_log
  <1>2. tail + 1 \notin LogBlocks
    BY Zenon DEF write_log, SelfLocked, WriteLogBlock
  <1>3. Len(lh) \in Nat /\ Len(lh) >= LOGSIZE
    BY <1>1, <1>2, SizeAssumption DEF Inv, Types, Control, LogBlocks
  <1>4. IsFiniteSet(Uncommitted) /\ Logged(lh) \subseteq Uncommitted
    <2>1. Logged(lh) \subseteq Uncommitted
      BY <1>1, Zenon DEF Uncommitted
    <2>2. Logged(lh) \subseteq Blocks
      BY DEF Inv, Types, Logged
    <2>3. Uncommitted \subseteq Blocks
      BY <2>2, Zenon DEF Uncommitted
    <2> QED
      BY <2>1, <2>3, FS_Subset, SizeAssumption, Zenon
  <1>5. lh \in Injection(1 .. Len(lh), Uncommitted)
    <2>1. lh \in [1 .. Len(lh) -> Logged(lh)]
      BY DEF Inv, Types, Logged
    <2>2. lh \in [1 .. Len(lh) -> Uncommitted]
      BY <1>4, <2>1
    <2> QED
      BY <2>2, Zenon DEF Injection, Inv, Control, Injective, IsInjective
  <1>6. Cardinality(1 .. Len(lh)) <= Cardinality(Uncommitted)
    BY <1>4, <1>5, FS_Injection, Zenon
  <1>7. Cardinality(1 .. Len(lh)) = Len(lh)
    <2>1. Cardinality(1 .. Len(lh)) = IF 1 > Len(lh) THEN 0 ELSE Len(lh) - 1 + 1
      BY <1>3, FS_Interval
    <2> QED
      BY <1>3, <2>1, SizeAssumption
  <1>8. Cardinality(Uncommitted) \in Nat
    BY <1>4, FS_CardinalityType, Zenon
  <1> QED
    BY <1>1, <1>3, <1>6, <1>7, <1>8, SizeAssumption

\* Only write_log leaves the log, and what it did stays done.
LEMMA OverrunStays == Inv /\ [Next]_vars => (overrun => overrun') /\ (overrun' => overrun \/ write_log)
  <1> SUFFICES ASSUME Inv, [Next]_vars
               PROVE  (overrun => overrun') /\ (overrun' => overrun \/ write_log)
    BY Zenon
  <1>1. write_log => overrun' = overrun \/ overrun' = TRUE
    BY Zenon DEF write_log, WriteLogBlock
  <1>2. write_log \/ overrun' = overrun
    BY Zenon DEF Next, Commit, Crash, Reboot, begin_op, log_append, end_op, log_write, bget,
       write_head, install_trans, clear_head, end_commit, vars
  <1> QED
    BY <1>1, <1>2

\* Every step of log.c is a step of the atomic disk or changes nothing there.
LEMMA StepRefines == Inv /\ Inv' /\ [Next]_vars => [Atomic!Next]_(Atomic!vars)
  <1> SUFFICES ASSUME Inv, Inv', [Next]_vars PROVE [Atomic!Next]_(Atomic!vars)
    OBVIOUS
  <1>a. Atomic!vars = <<Durable, Current, In, Uncommitted, ~overrun>>
    BY DEF Atomic!vars, Durable, Current, In
  <1>b. Atomic!vars' = <<Durable', Current', In', Uncommitted', ~overrun'>>
    BY DEF Atomic!vars, Durable, Current, In
  <1>c. Durable' = Durable /\ Current' = Current /\ In' = In /\ Uncommitted' = Uncommitted
        /\ overrun' = overrun => UNCHANGED Atomic!vars
    BY <1>a, <1>b
  <1>d. CASE overrun
    <2>1. Atomic!Void
      BY <1>d, OverrunStays DEF Atomic!Void
    <2> QED
      BY <2>1, Zenon DEF Atomic!Next
  <1>e. CASE ~overrun /\ overrun'
    <2>0. write_log
      BY <1>e, OverrunStays, Zenon
    <2>a. In = {} /\ ~(Cardinality(Uncommitted) <= LOGSIZE - 1)
      BY <1>e, <2>0, BreakStep, Zenon
    <2>b. Uncommitted \notin {B \in SUBSET Blocks : Cardinality(B) <= LOGSIZE - 1}
      BY <2>a, Zenon
    <2>c. (~overrun)' = FALSE
      BY <1>e
    <2>1. Atomic!Break
      BY <2>a, <2>b, <2>c, Zenon DEF Atomic!Break, In
    <2> QED
      BY <1>e, <2>1, Zenon DEF Atomic!Next
  <1>f. CASE ~overrun /\ ~overrun'
    <2>0. overrun' = overrun
      BY <1>f DEF Inv, Types
    <2>1. ASSUME NEW t \in Ops, begin_op(t) PROVE [Atomic!Next]_(Atomic!vars)
      <3>1. CASE In' = In
        BY <1>c, <2>1, <3>1, BeginStep, Zenon
      <3>2. CASE t \notin In /\ In' = In \cup {t}
        <4>1. Atomic!Begin(t)
          BY <2>0, <2>1, <3>2, BeginStep, Zenon DEF Atomic!Begin, Durable, Current, In
        <4> QED
          BY <1>f, <4>1, Zenon DEF Atomic!Next
      <3> QED
        BY <2>1, <3>1, <3>2, BeginStep, Zenon
    <2>2. ASSUME NEW t \in Ops, end_op(t) PROVE [Atomic!Next]_(Atomic!vars)
      <3>1. Atomic!End(t)
        BY <2>0, <2>2, EndStep, Zenon DEF Atomic!End, Durable, Current, In
      <3> QED
        BY <1>f, <3>1, Zenon DEF Atomic!Next
    <2>3. CASE Reboot
      <3>1. Atomic!Crash
        BY <2>0, <2>3, RebootCrash, Zenon DEF Atomic!Crash, Durable, Current, In
      <3> QED
        BY <1>f, <3>1, Zenon DEF Atomic!Next
    <2>4. ASSUME NEW t \in Ops, NEW b \in Blocks, NEW v \in Vals, log_write(t, b, v)
          PROVE  [Atomic!Next]_(Atomic!vars)
      <3>1. CASE TooBig \/ outstanding < 1
        BY <2>3, <2>4, <3>1, Zenon DEF log_write
      <3>2. CASE ~(TooBig \/ outstanding < 1)
        <4>1. Atomic!Write(t, b, v)
          BY <2>0, <2>4, <3>2, WriteStep, Zenon DEF Atomic!Write, Durable, Current, In
        <4> QED
          BY <1>f, <4>1, Zenon DEF Atomic!Next
      <3> QED
        BY <3>1, <3>2, Zenon
    <2>5. CASE write_head
      <3>1. Atomic!Commit
        BY <1>f, <2>0, <2>5, CommitStep, Zenon DEF Atomic!Commit, Durable, Current, In
      <3> QED
        BY <1>f, <3>1, Zenon DEF Atomic!Next
    <2>6. ASSUME NEW t \in Ops, log_append(t) PROVE [Atomic!Next]_(Atomic!vars)
      BY <1>c, <2>6, AppendStep, Zenon
    <2>7. CASE install_trans \/ clear_head
      BY <1>c, <1>f, <2>7, InstallStep, ClearStep, Zenon
    <2>8. CASE write_log \/ end_commit \/ \E b \in Blocks : bget(b)
      BY <1>c, <1>f, <2>0, <2>8, QuietSteps, Zenon
    <2>9. CASE UNCHANGED vars
      <3>1. UNCHANGED <<disk, logblk, head, buf, lh, writing, phase, pc>>
        BY <2>9, Zenon DEF vars
      <3>2. Durable' = Durable /\ In' = In /\ Uncommitted' = Uncommitted
        BY <3>1, DurableKept DEF In, Uncommitted, Logged, Locked
      <3>3. Current' = Current
        BY <3>1, <3>2 DEF Current, Durable, bread
      <3> QED
        BY <1>c, <2>0, <3>2, <3>3, Zenon
    <2> QED
      BY <2>1, <2>2, <2>3, <2>4, <2>5, <2>6, <2>7, <2>8, <2>9, Zenon DEF Next, Commit, Crash
  <1> QED
    BY <1>d, <1>e, <1>f, Zenon

\* log.c implements the atomic disk: whatever write a crash interrupts, in
\* commit() or in recovery, a reboot finds the image of the last commit, and no
\* commit takes in part of a system call.  Only a transaction of LOGSIZE
\* different blocks ends this, when write_log runs past the log.
THEOREM LogIsAtomic == Spec => AtomicSpec
  <1>1. Init => Atomic!Init
    <2> SUFFICES ASSUME Init PROVE Atomic!Init
      OBVIOUS
    <2>1. Durable = FirstImage
      BY DEF Init, Durable, Redo, Logged, FirstImage
    <2>2. Current = FirstImage
      BY Zenon DEF Init, Current, bread, FirstImage
    <2>3. In = {}
      BY DEF Init, In
    <2>4. Uncommitted = {}
      <3>1. Logged(lh) = {}
        BY DEF Init, Logged
      <3>2. \A b \in Blocks : ~Locked(b)
        BY SizeAssumption, Zenon DEF Init, Locked
      <3> QED
        BY <3>1, <3>2, Zenon DEF Uncommitted
    <2>5. (~overrun) = TRUE
      BY DEF Init
    <2> QED
      BY <2>1, <2>2, <2>3, <2>4, <2>5 DEF Atomic!Init, Durable, Current, In
  <1> QED
    BY <1>1, StepRefines, Invariance, PTL DEF Spec, AtomicSpec, Atomic!Spec
=============================================================================
