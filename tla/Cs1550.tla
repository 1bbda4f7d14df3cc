------------------------------- MODULE Cs1550 -------------------------------
(***************************************************************************)
(* The file system of proj4/cs1550.c: a root block of directories,         *)
(* directory blocks of files, and files as chains of data blocks, on a     *)
(* disk whose last blocks are a bitmap of the blocks in use.               *)
(*                                                                         *)
(* FUSE runs each request in a thread of its own, so a handler is a        *)
(* sequence of steps, one per group of disk accesses between which another *)
(* thread can get in.  The kernel lets no two requests change the same     *)
(* inode at once (external).  A request that the handler refuses changes   *)
(* nothing and is not a step.  Remount stands for killing cs1550 at any    *)
(* point and starting it again.                                            *)
(*                                                                         *)
(* MarkNext, MarkNothing, LinkKeepsOffset and RemountAtZero are mutated    *)
(* forms of the operators they precede, used to see that a property can    *)
(* fail.                                                                   *)
(***************************************************************************)
EXTENDS Integers, Sequences, FiniteSets, SequencesExt

CONSTANTS Threads,
          Dirs, Files,          \* names of directories, names of files in them
          Bufs,                 \* bound: what is written, sequences of bytes other than 0
          DiskBlocks,           \* bound: blocks before the bitmap; never filled up
          MAX_DIRS_IN_ROOT, MAX_FILES_IN_DIR, MAX_DATA_IN_BLOCK,
          MaxSize,              \* bound: largest file
          MaxOverwrite          \* bound: how far before its end a file is written to

ASSUME BoundsAssumption ==
    /\ DiskBlocks \in Nat \ {0} /\ MAX_DATA_IN_BLOCK \in Nat \ {0}
    /\ MAX_DIRS_IN_ROOT \in Nat /\ MAX_FILES_IN_DIR \in Nat
    /\ Cardinality(Files) <= MAX_FILES_IN_DIR   \* no directory overflows
    /\ Bufs \subseteq Seq(Nat \ {0}) \ {<<>>} /\ MaxSize \in Nat /\ MaxOverwrite \in Nat

Blocks == 1..DiskBlocks - 1

VARIABLES
    root,                   \* block 0: sequence of [dname, nStartBlock]
    block,                  \* the other blocks
    bitmap,                 \* the blocks whose bit is set
    next_free_block_index,  \* static variable of the cs1550 process
    th,                     \* the request each thread works on
    content                 \* history: what has been written to each file

disk == <<root, block, bitmap>>
vars == <<disk, next_free_block_index, th, content>>

Idle == [op |-> "idle"]

-----------------------------------------------------------------------------
(***************************************************************************)
(* Blocks.  .disk starts out as zeroes, which read as an empty directory   *)
(* and as an empty data block without successor.                           *)
(***************************************************************************)
Zero == [kind |-> "zero"]

DirBlock(files) == [kind |-> "dir", files |-> files]

DataBlock(data, next) == [kind |-> "data", data |-> data, next |-> next]

open_dir(b) == IF block[b].kind = "dir" THEN block[b].files ELSE <<>>

open_block(b) ==
    IF block[b].kind = "data" THEN block[b]
    ELSE DataBlock([i \in 0..MAX_DATA_IN_BLOCK - 1 |-> 0], 0)

memcpy(data, offset, buf) ==
    [i \in DOMAIN data |->
       IF i \in offset..offset + Len(buf) - 1 THEN buf[i - offset + 1] ELSE data[i]]

\* The position of a name in a directory, 0 if it is not there.
Find(seq, name) ==
    IF \E i \in 1..Len(seq) : seq[i].name = name
    THEN CHOOSE i \in 1..Len(seq) : seq[i].name = name ELSE 0

StartOf(seq, name) == seq[Find(seq, name)].nStartBlock

\* TOTAL_BLOCKS is beyond the end of the disk, where bits read as 0, so that the
\* search always ends at a block, past the last one when the disk is full.
find_next_free_block_index ==
    CHOOSE i \in next_free_block_index..DiskBlocks :
        i \notin bitmap /\ \A j \in next_free_block_index..i - 1 : j \in bitmap

-----------------------------------------------------------------------------
(***************************************************************************)
(* The first step of a request: look the path up and decide.               *)
(***************************************************************************)
Lock(r) == CASE r.op = "idle"  -> {}
             [] r.op = "mkdir" -> {<<"root">>}
             [] r.op = "mknod" -> {<<r.dir>>}
             [] r.op = "write" -> {<<r.dir, r.file>>}

Start(t, r) ==
    /\ th[t] = Idle
    /\ \A u \in Threads : Lock(th[u]) \cap Lock(r) = {}
    /\ th' = [th EXCEPT ![t] = r]
    /\ UNCHANGED <<disk, next_free_block_index, content>>

cs1550_mkdir(t, d) ==
    /\ Find(root, d) = 0
    /\ Len(root) < MAX_DIRS_IN_ROOT
    /\ Start(t, [op |-> "mkdir", at |-> "alloc", dir |-> d, found |-> root, new |-> 0])

cs1550_mknod(t, d, f) ==
    /\ Find(root, d) # 0
    /\ LET found == open_dir(StartOf(root, d)) IN
         /\ Find(found, f) = 0
         /\ Len(found) <= MAX_FILES_IN_DIR
         /\ Start(t, [op |-> "mknod", at |-> "alloc", dir |-> d, file |-> f,
                      dirBlock |-> StartOf(root, d), found |-> found, new |-> 0])

\* The block n links after start, 0 if the chain ends before.
Nth(start, n) ==
    LET next(b) == IF b = 0 THEN 0 ELSE open_block(b).next
        nth[k \in 0..n] == IF k = 0 THEN start ELSE next(nth[k - 1])
    IN  nth[n]

\* The block that offset falls into, and the offset in it.  An offset on a
\* border is the end of a block and not the start of the next one.  The walk
\* stops early where the chain ends.
Seek(start, offset) ==
    LET wanted == IF offset = 0 THEN 0 ELSE (offset - 1) \div MAX_DATA_IN_BLOCK
        hops   == CHOOSE h \in 0..wanted :
                    /\ Nth(start, h) # 0
                    /\ h < wanted => Nth(start, h + 1) = 0
    IN  [blk |-> Nth(start, hops), offset |-> offset - hops * MAX_DATA_IN_BLOCK]

cs1550_write(t, d, f, buf, offset) ==
    /\ Find(root, d) # 0
    /\ LET found == open_dir(StartOf(root, d)) IN
         /\ Find(found, f) # 0
         /\ offset <= found[Find(found, f)].fsize
         /\ LET pos == Seek(StartOf(found, f), offset) IN
              Start(t, [op |-> "write", dir |-> d, file |-> f, buf |-> buf,
                        at |-> IF pos.offset + Len(buf) > MAX_DATA_IN_BLOCK
                               THEN "alloc" ELSE "loop",
                        dirBlock |-> StartOf(root, d), found |-> found,
                        blk |-> pos.blk, offset |-> pos.offset,
                        total_fsize |-> offset + Len(buf), all |-> buf, new |-> 0])

-----------------------------------------------------------------------------
(***************************************************************************)
(* The later steps.                                                        *)
(***************************************************************************)
At(t, step) == th[t].op # "idle" /\ th[t].at = step

\* The model ends where the disk is full.
Alloc(t) ==
    /\ At(t, "alloc")
    /\ find_next_free_block_index < DiskBlocks
    /\ next_free_block_index' = find_next_free_block_index
    /\ th' = [th EXCEPT ![t].at = "mark", ![t].new = find_next_free_block_index]
    /\ UNCHANGED <<disk, content>>

MarkNext(t) ==
    /\ At(t, "mark")
    /\ bitmap' = bitmap \cup {th[t].new + 1}
    /\ th' = [th EXCEPT ![t].at = IF th[t].op = "write" THEN "link" ELSE "save"]
    /\ UNCHANGED <<root, block, next_free_block_index, content>>

MarkNothing(t) ==
    /\ At(t, "mark")
    /\ th' = [th EXCEPT ![t].at = IF th[t].op = "write" THEN "link" ELSE "save"]
    /\ UNCHANGED <<disk, next_free_block_index, content>>

set_bitmap(t) ==
    /\ At(t, "mark")
    /\ bitmap' = bitmap \cup {th[t].new}
    /\ th' = [th EXCEPT ![t].at = IF th[t].op = "write" THEN "link" ELSE "save"]
    /\ UNCHANGED <<root, block, next_free_block_index, content>>

\* Part of cs1550_write: put buf[1..n] into the current block, link block nb to it and
\* go on with that one at the given offset.
FillAndLink(t, n, nb, offset) ==
    LET r == th[t] IN
    /\ block' = [block EXCEPT ![r.blk] =
                   DataBlock(memcpy(open_block(r.blk).data, r.offset, SubSeq(r.buf, 1, n)), nb)]
    /\ th' = [th EXCEPT ![t].at = "loop", ![t].blk = nb, ![t].offset = offset,
                        ![t].buf = SubSeq(r.buf, n + 1, Len(r.buf))]
    /\ UNCHANGED <<root, bitmap, content>>

LinkKeepsOffset(t) ==
    /\ At(t, "link")
    /\ FillAndLink(t, MAX_DATA_IN_BLOCK - th[t].offset, th[t].new,
                   th[t].offset % MAX_DATA_IN_BLOCK)
    /\ UNCHANGED next_free_block_index

\* The write bleeds into a new block.
Link(t) ==
    /\ At(t, "link")
    /\ FillAndLink(t, MAX_DATA_IN_BLOCK - th[t].offset, th[t].new, 0)
    /\ UNCHANGED next_free_block_index

\* Each further block: found free but not marked in the bitmap.
MoreBlocks(t) ==
    /\ At(t, "loop")
    /\ Len(th[t].buf) > MAX_DATA_IN_BLOCK
    /\ find_next_free_block_index < DiskBlocks
    /\ next_free_block_index' = find_next_free_block_index
    /\ FillAndLink(t, MAX_DATA_IN_BLOCK, find_next_free_block_index, th[t].offset)

LastBlock(t) ==
    /\ At(t, "loop")
    /\ Len(th[t].buf) <= MAX_DATA_IN_BLOCK
    /\ LET r == th[t]  b == open_block(r.blk) IN
         block' = [block EXCEPT ![r.blk] = DataBlock(memcpy(b.data, r.offset, r.buf), b.next)]
    /\ th' = [th EXCEPT ![t].at = "save"]
    /\ UNCHANGED <<root, bitmap, next_free_block_index, content>>

-----------------------------------------------------------------------------
(***************************************************************************)
(* The last step: save the root or the directory as it was read in the     *)
(* first step, with the change.                                            *)
(***************************************************************************)
Finish(t) == th' = [th EXCEPT ![t] = Idle] /\ UNCHANGED <<bitmap, next_free_block_index>>

save_root(t) ==
    /\ At(t, "save") /\ th[t].op = "mkdir"
    /\ root' = Append(th[t].found, [name |-> th[t].dir, nStartBlock |-> th[t].new])
    /\ Finish(t)
    /\ UNCHANGED <<block, content>>

NewFile(r) == [name |-> r.file, fsize |-> 0, nStartBlock |-> r.new]

SaveNew(t) ==
    /\ At(t, "save") /\ th[t].op = "mknod"
    /\ LET r == th[t] IN
         /\ block' = [block EXCEPT ![r.dirBlock] = DirBlock(Append(r.found, NewFile(r)))]
         /\ content' = [content EXCEPT ![r.dir, r.file] = <<>>]
    /\ Finish(t)
    /\ UNCHANGED root

\* What POSIX makes of a file when buf is written up to position total.
Written(old, buf, total) ==
    SubSeq(old, 1, total - Len(buf)) \o buf \o SubSeq(old, total + 1, Len(old))

SaveSize(t) ==
    /\ At(t, "save") /\ th[t].op = "write"
    /\ LET r == th[t] IN
         /\ block' = [block EXCEPT ![r.dirBlock] = DirBlock(
                        [r.found EXCEPT ![Find(r.found, r.file)].fsize = r.total_fsize])]
         /\ content' = [content EXCEPT ![r.dir, r.file] = Written(@, r.all, r.total_fsize)]
    /\ Finish(t)
    /\ UNCHANGED root

RemountAtZero ==
    /\ th' = [t \in Threads |-> Idle]
    /\ next_free_block_index' = 0
    /\ UNCHANGED <<disk, content>>

Remount ==
    /\ th' = [t \in Threads |-> Idle]
    /\ next_free_block_index' = 1
    /\ UNCHANGED <<disk, content>>

Init ==
    /\ root = <<>>
    /\ block = [b \in Blocks |-> Zero]
    /\ bitmap = {}
    /\ next_free_block_index = 1
    /\ th = [t \in Threads |-> Idle]
    /\ content = [p \in Dirs \X Files |-> <<>>]

Request(t) ==
    \E d \in Dirs :
        \/ cs1550_mkdir(t, d)
        \/ \E f \in Files :
             \/ cs1550_mknod(t, d, f)
             \/ \E buf \in Bufs :
                  \E offset \in {n \in 0..MaxSize - Len(buf) : n + MaxOverwrite >= Len(content[d, f])} :
                     cs1550_write(t, d, f, buf, offset)

\* All steps but the ones of writes that need two new blocks or more.
ShortNext ==
    \/ Remount
    \/ \E t \in Threads :
         \/ Request(t)
         \/ Alloc(t) \/ set_bitmap(t) \/ Link(t) \/ LastBlock(t)
         \/ save_root(t) \/ SaveNew(t) \/ SaveSize(t)

Next == ShortNext \/ \E t \in Threads : MoreBlocks(t)

Spec == Init /\ [][Next]_vars

-----------------------------------------------------------------------------
(***************************************************************************)
(* Reading: what cs1550_read returns, and the bytes it copies to where the *)
(* caller's buffer starts, for a request of at least one byte that starts  *)
(* inside the file (the kernel makes no other, external).  A byte taken    *)
(* from beyond the data of a block is Junk.                                *)
(***************************************************************************)
ENOENT == -2
Junk == -1

Copy(b, offset, n) ==
    [i \in 1..n |-> IF offset + i <= MAX_DATA_IN_BLOCK
                    THEN open_block(b).data[offset + i - 1] ELSE Junk]

\* The loop at the end: it copies all that is left of the file, whatever size
\* was asked for, at the same offset of every block, and stops where the chain
\* ends.
RECURSIVE CopyLeft(_, _, _)
CopyLeft(b, offset, left) ==
    LET next == open_block(b).next IN
    IF left <= MAX_DATA_IN_BLOCK THEN Copy(b, offset, left)
    ELSE Copy(b, offset, MAX_DATA_IN_BLOCK)
         \o IF next = 0 THEN <<>> ELSE CopyLeft(next, offset, left - MAX_DATA_IN_BLOCK)

cs1550_read(d, f, offset, size) ==
    LET files   == open_dir(StartOf(root, d))
        file    == files[Find(files, f)]
        left    == file.fsize - offset
        total   == IF offset + size > file.fsize THEN left ELSE size
        pos     == Seek(file.nStartBlock, offset)
        inFirst == MAX_DATA_IN_BLOCK - pos.offset
        first   == Copy(pos.blk, pos.offset, inFirst)
        next    == open_block(pos.blk).next
        Result(ret, buf) == [ret |-> ret, buf |-> buf]
    IN  IF Find(root, d) = 0 \/ Find(files, f) = 0 \/ pos.offset > MAX_DATA_IN_BLOCK
        THEN Result(ENOENT, <<>>)
        ELSE IF pos.offset + total <= MAX_DATA_IN_BLOCK
        THEN Result(total, CopyLeft(pos.blk, pos.offset, left))
        ELSE IF next = 0 THEN Result(ENOENT, first)
        ELSE Result(total, first \o CopyLeft(next, 0, left - inFirst))

cs1550_getattr(d, f) ==
    LET files == open_dir(StartOf(root, d)) IN files[Find(files, f)].fsize

\* The names that cs1550_readdir lists for the root and for a directory.
ReaddirRoot == {root[i].name : i \in 1..Len(root)}

Readdir(d) ==
    LET files == open_dir(StartOf(root, d)) IN {files[i].name : i \in 1..Len(files)}

-----------------------------------------------------------------------------
(***************************************************************************)
(* Properties.                                                             *)
(***************************************************************************)
\* All references to blocks, as <<what refers, the block>>: from the root, from
\* the directories, and from every data block to its successor.
References ==
    {<<<<"dir", root[i].name>>, root[i].nStartBlock>> : i \in 1..Len(root)}
    \cup UNION {LET files == open_dir(root[i].nStartBlock) IN
                {<<<<"file", root[i].name, files[j].name>>, files[j].nStartBlock>> :
                   j \in 1..Len(files)} : i \in 1..Len(root)}
    \cup {<<<<"next", b>>, block[b].next>> :
            b \in {c \in Blocks : block[c].kind = "data" /\ block[c].next # 0}}

DirEntries == [name : Dirs, nStartBlock : Blocks]

FileEntries == [name : Files, fsize : 0..MaxSize, nStartBlock : Blocks]

(***************************************************************************)
(* The disk holds well-formed blocks, the free-block cursor never points   *)
(* at the root block, and every reference is to a block of the disk.       *)
(***************************************************************************)
TypeOK ==
    /\ root \in Seq(DirEntries) /\ Len(root) <= MAX_DIRS_IN_ROOT
    /\ \A b \in Blocks :
         \/ block[b] = Zero
         \/ block[b].kind = "dir" /\ block[b].files \in Seq(FileEntries)
         \/ /\ block[b].kind = "data" /\ block[b].next \in 0..DiskBlocks - 1
            /\ block[b].data \in [0..MAX_DATA_IN_BLOCK - 1 -> Nat]
    /\ bitmap \subseteq Blocks
    /\ next_free_block_index \in Blocks
    /\ \A t \in Threads :
         \/ th[t] = Idle
         \/ /\ th[t].op \in {"mkdir", "mknod", "write"}
            /\ th[t].at \in {"alloc", "mark", "link", "loop", "save"}
            /\ th[t].new \in Blocks \cup {0}
    /\ content \in [Dirs \X Files -> Seq(Nat)]

(***************************************************************************)
(* No block has two owners: what mkdir, mknod and write take from          *)
(* find_next_free_block_index is never part of another directory or file,  *)
(* also after cs1550 was killed between any two disk accesses.             *)
(***************************************************************************)
NoSharedBlocks == \A r, s \in References : r[2] = s[2] => r = s

(***************************************************************************)
(* "the bitmap that contains which blocks are in use or not": the bit of   *)
(* every block that a directory, a file or another block refers to is set, *)
(* whichever of mkdir, mknod and write took it.                            *)
(***************************************************************************)
UsedBlocksMarked == \A r \in References : r[2] \in bitmap

(***************************************************************************)
(* cs1550_getattr reports the size of what cs1550_write has written.       *)
(* cs1550_read returns the size asked for or what there is up to the end   *)
(* of the file, and that many bytes at the start of the buffer are the     *)
(* ones written: from every offset, across blocks, in the middle of        *)
(* another write and after one that was killed half-way.  A read up to the *)
(* end of the file copies no byte more.                                    *)
(***************************************************************************)
ReadsBack ==
    \A d \in ReaddirRoot : \A f \in Readdir(d) :
        LET len == Len(content[d, f]) IN
        /\ cs1550_getattr(d, f) = len
        /\ \A offset \in 0..len, size \in 1..MaxSize :
             LET end  == IF offset + size > len THEN len ELSE offset + size
                 read == cs1550_read(d, f, offset, size)
             IN  /\ read.ret = end - offset
                 /\ SubSeq(read.buf, 1, read.ret) = SubSeq(content[d, f], offset + 1, end)
                 /\ end = len => Len(read.buf) = read.ret

(***************************************************************************)
(* "Read size bytes from file into buf": a read copies no more bytes than  *)
(* its caller asked for.  (A read that ends before the end of the file     *)
(* copies the rest of the file too.)                                       *)
(***************************************************************************)
ReadFits ==
    \A d \in ReaddirRoot : \A f \in Readdir(d) :
        \A offset \in 0..Len(content[d, f]), size \in 1..MaxSize :
            Len(cs1550_read(d, f, offset, size).buf) <= size

(***************************************************************************)
(* A directory or a file that was once created stays there: no step of any *)
(* handler that saves the root or a directory loses an entry.  (A mknod    *)
(* and a write to another file of the directory share no lock, and each    *)
(* saves the directory as it read it at its start.)                        *)
(***************************************************************************)
NamesPersist ==
    [][/\ ReaddirRoot \subseteq ReaddirRoot'
       /\ \A d \in ReaddirRoot : Readdir(d) \subseteq Readdir(d)']_vars

(***************************************************************************)
(* "Write size bytes from buf into file starting from offset": a write     *)
(* that ends inside a file leaves the file as long as it was.              *)
(***************************************************************************)
WriteKeepsSize ==
    [][\A d \in ReaddirRoot : \A f \in Readdir(d) :
         cs1550_getattr(d, f)' >= cs1550_getattr(d, f)]_vars
=============================================================================
