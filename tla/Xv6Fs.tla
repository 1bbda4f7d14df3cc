------------------------------- MODULE Xv6Fs --------------------------------
(***************************************************************************)
(* Files and directories of xv6: the inode layer of fs.c (iget, ilock,     *)
(* iput, ialloc, itrunc, bmap), path lookup (namex), directories, and the  *)
(* system calls of sysfile.c and file.c that several processes make at     *)
(* once.                                                                   *)
(*                                                                         *)
(* A step runs from one point where the code may block on an inode's sleep *)
(* lock to the next; a lock held across such a point is in lock.  The      *)
(* in-memory copy of an inode and its dinode are one record: every change  *)
(* is followed by iupdate under the same lock ("i-node cache is            *)
(* write-through").  Each system call is one transaction of the log, whose *)
(* atomicity Xv6Log shows.                                                 *)
(***************************************************************************)
EXTENDS Integers, FiniteSets, Sequences

CONSTANTS
    Procs,
    Inums,          \* inode numbers of the disk, 1 among them
    Names,          \* names of path elements
    Blocks,         \* data blocks of the disk
    MAXFILE,        \* blocks of the largest file
    Calls           \* the system calls processes make (op, path, for link: new)

None == 0
Root == 1

ASSUME FsAssumption ==
    /\ Root \in Inums /\ Inums \subseteq Nat \ {0} /\ None \notin Procs /\ MAXFILE \in Nat
    /\ IsFiniteSet(Procs) /\ IsFiniteSet(Inums) /\ IsFiniteSet(Names) /\ IsFiniteSet(Blocks)

Ops == {"creat", "mkdir", "open", "chdir", "link", "unlink"}
Path == Seq(Names) \ {<<>>}

ASSUME CallAssumption ==
    \A c \in Calls : c.op \in Ops /\ c.path \in Path /\ (c.op = "link" => c.new \in Path)

VARIABLES
    inode,          \* type, nlink, directory entries and blocks of each inode
    ref, valid,     \* of the inode cache entry
    lock,           \* holder of ip->lock
    bitmap,         \* blocks marked in use
    cwd, fd,        \* per process: current directory and open file
    th              \* per process: where its system call is

disk == <<inode, bitmap>>
vars == <<inode, ref, valid, lock, bitmap, cwd, fd, th>>

NoEntries == [n \in Names |-> None]
Free == [type |-> "none", nlink |-> 0, ent |-> NoEntries, blocks |-> {}]
Linked(type) == [type |-> type, nlink |-> 1, ent |-> NoEntries, blocks |-> {}]

NoCall == [op |-> "none", path |-> <<>>]
Idle == [pc |-> "idle", call |-> NoCall, path |-> <<>>, dp |-> None, ip |-> None,
         put |-> None, then |-> "idle"]

Init ==
    /\ inode = [i \in Inums |-> IF i = Root THEN Linked("dir") ELSE Free]
    /\ ref = [i \in Inums |-> IF i = Root THEN Cardinality(Procs) ELSE 0]
    /\ valid = [i \in Inums |-> FALSE]
    /\ lock = [i \in Inums |-> None]
    /\ bitmap = {}
    /\ cwd = [p \in Procs |-> Root]
    /\ fd = [p \in Procs |-> None]
    /\ th = [p \in Procs |-> Idle]

At(p, pc) == th[p].pc = pc

-----------------------------------------------------------------------------
\* Inodes

\* iget and idup: one more pointer.  A fresh cache entry is not valid.
iget(i) ==
    /\ ref' = [ref EXCEPT ![i] = @ + 1]
    /\ valid' = IF ref[i] = 0 THEN [valid EXCEPT ![i] = FALSE] ELSE valid

\* ilock, where the lock is free: reads the inode if it is not valid.
CanLock(i) == lock[i] = None
ilock(i) == CanLock(i) /\ valid' = [valid EXCEPT ![i] = TRUE]

\* itrunc: the bitmap without the blocks of i (bfree).
itrunc(i) == bitmap \ inode[i].blocks

\* balloc and ialloc find the first free one.  With none left the kernel panics,
\* which ends the run.
balloc(b) == b \in Blocks \ bitmap /\ \A c \in Blocks \ bitmap : b <= c
ialloc(i) == inode[i].type = "none" /\ \A j \in Inums : inode[j].type = "none" => i <= j

\* bmap enters a new block in the inode.
bmap(i, b) == [inode EXCEPT ![i].blocks = @ \cup {b}]

\* The inode that directory d has under name n, or None.
dirlookup(d, n) == inode[d].ent[n]

\* The inode record r of a directory with name n entered for i (None: removed),
\* its links changed by k.
WithEntry(r, n, i, k) ==
    [type |-> r.type, nlink |-> r.nlink + k, ent |-> [r.ent EXCEPT ![n] = i], blocks |-> r.blocks]

\* The call t goes on at pc with the pointers dp and ip.
GoOn(t, dp, ip, pc) ==
    [pc |-> pc, call |-> t.call, path |-> t.path, dp |-> dp, ip |-> ip,
     put |-> None, then |-> "idle"]

\* The call c starts to look up path in directory d.
LookUp(c, path, d, ip) ==
    [pc |-> "namex", call |-> c, path |-> path, dp |-> d, ip |-> ip,
     put |-> None, then |-> "idle"]

\* The call t puts inode i, then goes on at pc with the pointers dp and ip.
PutThen(t, path, dp, ip, i, pc) ==
    [pc |-> "put", call |-> t.call, path |-> path, dp |-> dp, ip |-> ip,
     put |-> i, then |-> pc]
PutDp(t, ip, pc) == PutThen(t, t.path, None, ip, t.dp, pc)

\* The last pointer of the call: put it and return.
PutReturn(i) == PutThen(Idle, <<>>, None, None, i, "idle")

\* Mutant: frees without looking at the reference count.
iputEager(p) ==
    LET i == th[p].put
        dead == valid[i] /\ inode[i].nlink = 0
    IN
    /\ At(p, "put") /\ CanLock(i)
    /\ inode' = IF dead THEN [inode EXCEPT ![i] = Free] ELSE inode
    /\ bitmap' = IF dead THEN itrunc(i) ELSE bitmap
    /\ valid' = [valid EXCEPT ![i] = @ /\ ~dead]
    /\ th' = [th EXCEPT ![p].pc = "unref"]
    /\ UNCHANGED <<ref, lock, cwd, fd>>

\* Mutant: frees the inode and not its blocks.
iputNoTrunc(p) ==
    LET i == th[p].put
        dead == valid[i] /\ inode[i].nlink = 0 /\ ref[i] = 1
    IN
    /\ At(p, "put") /\ CanLock(i)
    /\ inode' = IF dead THEN [inode EXCEPT ![i] = Free] ELSE inode
    /\ bitmap' = bitmap
    /\ valid' = [valid EXCEPT ![i] = @ /\ ~dead]
    /\ th' = [th EXCEPT ![p].pc = "unref"]
    /\ UNCHANGED <<ref, lock, cwd, fd>>

\* iput, with ip->lock: the last pointer to an inode without links frees it,
\* itrunc and all.
iput(p) ==
    LET i == th[p].put
        dead == valid[i] /\ inode[i].nlink = 0 /\ ref[i] = 1
    IN
    /\ At(p, "put") /\ CanLock(i)
    /\ inode' = IF dead THEN [inode EXCEPT ![i] = Free] ELSE inode
    /\ bitmap' = IF dead THEN itrunc(i) ELSE bitmap
    /\ valid' = [valid EXCEPT ![i] = @ /\ ~dead]
    /\ th' = [th EXCEPT ![p].pc = "unref"]
    /\ UNCHANGED <<ref, lock, cwd, fd>>

\* iput, after releasesleep: the pointer goes.
unref(p) ==
    /\ At(p, "unref")
    /\ ref' = [ref EXCEPT ![th[p].put] = @ - 1]
    /\ th' = [th EXCEPT ![p] = GoOn(@, @.dp, @.ip, @.then)]
    /\ UNCHANGED <<disk, valid, lock, cwd, fd>>

-----------------------------------------------------------------------------
\* Paths

\* Calls that want the parent of the last element.
WantsParent(t) == t.call.op \in {"creat", "mkdir", "unlink"} \/ t.ip # None

\* begin_op, and namex starts at the current directory.
Start(p, c) ==
    /\ At(p, "idle")
    /\ th' = [th EXCEPT ![p] = LookUp(c, c.path, cwd[p], None)]
    /\ iget(cwd[p])
    /\ UNCHANGED <<disk, lock, cwd, fd>>

\* One turn of namex's loop, ip locked and unlocked again: stop at the parent,
\* give up, or go on with the next inode; then iput.
namex(p) ==
    LET t == th[p]
        d == t.dp
        next == dirlookup(d, Head(t.path))
    IN
    /\ At(p, "namex") /\ CanLock(d)
    /\ IF inode[d].type = "dir" /\ WantsParent(t) /\ Len(t.path) = 1
       THEN /\ ilock(d)
            /\ th' = [th EXCEPT ![p].pc = "parent"]
            /\ UNCHANGED ref
       ELSE IF inode[d].type # "dir" \/ next = None
       THEN /\ ilock(d)
            /\ th' = [th EXCEPT ![p] = IF t.ip = None THEN PutReturn(d) ELSE PutDp(t, t.ip, "bad")]
            /\ UNCHANGED ref
       ELSE /\ ref' = [ref EXCEPT ![next] = @ + 1]
            /\ valid' = [valid EXCEPT ![d] = TRUE, ![next] = @ /\ ref[next] > 0]
            /\ th' = [th EXCEPT ![p] =
                        PutThen(t, Tail(t.path), next, t.ip, d,
                                IF Len(t.path) = 1 THEN "inode" ELSE "namex")]
    /\ UNCHANGED <<disk, lock, cwd, fd>>

-----------------------------------------------------------------------------
\* open, chdir, close, write

\* filealloc and fdalloc for inode i, which the process has locked or could
\* lock: without a free descriptor the inode is put back.
OpenFile(p, i) ==
    IF fd[p] = None
    THEN fd' = [fd EXCEPT ![p] = i] /\ th' = [th EXCEPT ![p] = Idle]
    ELSE fd' = fd /\ th' = [th EXCEPT ![p] = PutReturn(i)]

\* sys_open without O_CREATE, for writing: not a directory.
sys_open(p) ==
    LET i == th[p].dp IN
    /\ At(p, "inode") /\ th[p].call.op = "open" /\ ilock(i)
    /\ IF inode[i].type = "dir"
       THEN th' = [th EXCEPT ![p] = PutReturn(i)] /\ UNCHANGED fd
       ELSE OpenFile(p, i)
    /\ UNCHANGED <<disk, ref, lock, cwd>>

sys_chdir(p) ==
    LET i == th[p].dp IN
    /\ At(p, "inode") /\ th[p].call.op = "chdir" /\ ilock(i)
    /\ IF inode[i].type # "dir"
       THEN th' = [th EXCEPT ![p] = PutReturn(i)] /\ UNCHANGED cwd
       ELSE /\ th' = [th EXCEPT ![p] = PutReturn(cwd[p])]
            /\ cwd' = [cwd EXCEPT ![p] = i]
    /\ UNCHANGED <<disk, ref, lock, fd>>

sys_close(p) ==
    /\ At(p, "idle") /\ fd[p] # None
    /\ th' = [th EXCEPT ![p] = PutReturn(fd[p])]
    /\ fd' = [fd EXCEPT ![p] = None]
    /\ UNCHANGED <<disk, ref, valid, lock, cwd>>

\* Mutant: does not compare with MAXFILE.
sys_writePast(p) ==
    LET i == fd[p] IN
    /\ At(p, "idle") /\ i # None /\ ilock(i)
    /\ \E b \in Blocks :
         /\ balloc(b) /\ bitmap' = bitmap \cup {b}
         /\ inode' = bmap(i, b)
    /\ UNCHANGED <<ref, lock, cwd, fd, th>>

\* filewrite of one more block: writei, bmap and balloc under the inode's lock.
sys_write(p) ==
    LET i == fd[p] IN
    /\ At(p, "idle") /\ i # None /\ ilock(i)
    /\ Cardinality(inode[i].blocks) < MAXFILE
    /\ \E b \in Blocks :
         /\ balloc(b) /\ bitmap' = bitmap \cup {b}
         /\ inode' = bmap(i, b)
    /\ UNCHANGED <<ref, lock, cwd, fd, th>>

-----------------------------------------------------------------------------
\* create, for open(O_CREATE) and mkdir

Type(t) == IF t.call.op = "mkdir" THEN "dir" ELSE "file"

\* The name exists: its inode is locked only after the directory is put.
createExisting(p) ==
    LET t == th[p]
        i == dirlookup(t.dp, Head(t.path))
    IN
    /\ At(p, "parent") /\ t.call.op \in {"creat", "mkdir"} /\ CanLock(t.dp)
    /\ i # None
    /\ iget(i)
    /\ th' = [th EXCEPT ![p] = PutDp(t, i, "exists")]
    /\ UNCHANGED <<disk, lock, cwd, fd>>

exists(p) ==
    LET i == th[p].ip IN
    /\ At(p, "exists") /\ ilock(i)
    /\ IF inode[i].type = "file" /\ Type(th[p]) = "file"
       THEN OpenFile(p, i)
       ELSE th' = [th EXCEPT ![p] = PutReturn(i)] /\ UNCHANGED fd
    /\ UNCHANGED <<disk, ref, lock, cwd>>

\* ialloc, and the new inode is locked, linked and entered in the directory.
\* The directory is put with the new inode still locked.
createNew(p) ==
    LET t == th[p] IN
    /\ At(p, "parent") /\ t.call.op \in {"creat", "mkdir"} /\ CanLock(t.dp)
    /\ dirlookup(t.dp, Head(t.path)) = None
    /\ \E i \in Inums :
         /\ ialloc(i) /\ CanLock(i)
         /\ inode' = [inode EXCEPT
                        ![i] = Linked(Type(t)),
                        ![t.dp] = WithEntry(@, Head(t.path), i, IF Type(t) = "dir" THEN 1 ELSE 0)]
         /\ ref' = [ref EXCEPT ![i] = @ + 1]
         /\ valid' = [valid EXCEPT ![i] = TRUE, ![t.dp] = TRUE]
         /\ lock' = [lock EXCEPT ![i] = p]
         /\ th' = [th EXCEPT ![p] = PutDp(t, i, "created")]
    /\ UNCHANGED <<bitmap, cwd, fd>>

\* Back in sys_open or sys_mkdir with the new inode locked.
created(p) ==
    LET i == th[p].ip IN
    /\ At(p, "created")
    /\ lock' = [lock EXCEPT ![i] = None]
    /\ IF Type(th[p]) = "file"
       THEN OpenFile(p, i)
       ELSE th' = [th EXCEPT ![p] = PutReturn(i)] /\ UNCHANGED fd
    /\ UNCHANGED <<disk, ref, valid, cwd>>

-----------------------------------------------------------------------------
\* link

\* Mutant: the link is not counted.
sys_linkUncounted(p) ==
    LET i == th[p].dp IN
    /\ At(p, "inode") /\ th[p].call.op = "link" /\ CanLock(i)
    /\ IF inode[i].type = "dir"
       THEN /\ th' = [th EXCEPT ![p] = PutReturn(i)]
            /\ valid' = [valid EXCEPT ![i] = TRUE]
            /\ UNCHANGED <<inode, ref>>
       ELSE /\ UNCHANGED inode
            /\ th' = [th EXCEPT ![p] = LookUp(@.call, @.call.new, cwd[p], i)]
            /\ ref' = [ref EXCEPT ![cwd[p]] = @ + 1]
            /\ valid' = [valid EXCEPT ![i] = TRUE]
    /\ UNCHANGED <<bitmap, lock, cwd, fd>>

\* The old name's inode gets its link first.
sys_link(p) ==
    LET i == th[p].dp IN
    /\ At(p, "inode") /\ th[p].call.op = "link" /\ CanLock(i)
    /\ IF inode[i].type = "dir"
       THEN /\ th' = [th EXCEPT ![p] = PutReturn(i)]
            /\ valid' = [valid EXCEPT ![i] = TRUE]
            /\ UNCHANGED <<inode, ref>>
       ELSE /\ inode' = [inode EXCEPT ![i].nlink = @ + 1]
            /\ th' = [th EXCEPT ![p] = LookUp(@.call, @.call.new, cwd[p], i)]
            /\ ref' = [ref EXCEPT ![cwd[p]] = @ + 1]
            /\ valid' = [valid EXCEPT ![i] = TRUE]
    /\ UNCHANGED <<bitmap, lock, cwd, fd>>

\* Mutant: the inode of a name that exists is not put.
dirlinkKeeps(p) ==
    LET t == th[p]
        other == dirlookup(t.dp, Head(t.path))
    IN
    /\ At(p, "parent") /\ t.call.op = "link" /\ CanLock(t.dp)
    /\ IF other = None
       THEN /\ inode' = [inode EXCEPT ![t.dp] = WithEntry(@, Head(t.path), t.ip, 0)]
            /\ th' = [th EXCEPT ![p] = PutDp(t, t.ip, "linked")]
            /\ valid' = [valid EXCEPT ![t.dp] = TRUE]
            /\ UNCHANGED <<ref, lock>>
       ELSE /\ ref' = [ref EXCEPT ![other] = @ + 1]
            /\ valid' = [valid EXCEPT ![t.dp] = TRUE, ![other] = @ /\ ref[other] > 0]
            /\ lock' = [lock EXCEPT ![t.dp] = p]
            /\ th' = [th EXCEPT ![p].pc = "taken"]
            /\ UNCHANGED inode
    /\ UNCHANGED <<bitmap, cwd, fd>>

\* dirlink in the new name's directory.  A name that exists is put while the
\* directory is locked.
dirlink(p) ==
    LET t == th[p]
        other == dirlookup(t.dp, Head(t.path))
    IN
    /\ At(p, "parent") /\ t.call.op = "link" /\ CanLock(t.dp)
    /\ IF other = None
       THEN /\ inode' = [inode EXCEPT ![t.dp] = WithEntry(@, Head(t.path), t.ip, 0)]
            /\ th' = [th EXCEPT ![p] = PutDp(t, t.ip, "linked")]
            /\ valid' = [valid EXCEPT ![t.dp] = TRUE]
            /\ UNCHANGED <<ref, lock>>
       ELSE /\ ref' = [ref EXCEPT ![other] = @ + 1]
            /\ valid' = [valid EXCEPT ![t.dp] = TRUE, ![other] = @ /\ ref[other] > 0]
            /\ lock' = [lock EXCEPT ![t.dp] = p]
            /\ th' = [th EXCEPT ![p] = PutThen(t, t.path, t.dp, t.ip, other, "taken")]
            /\ UNCHANGED inode
    /\ UNCHANGED <<bitmap, cwd, fd>>

\* The name was taken: unlock and put the directory, then undo the link.
taken(p) ==
    /\ At(p, "taken")
    /\ lock' = [lock EXCEPT ![th[p].dp] = None]
    /\ th' = [th EXCEPT ![p] = PutDp(@, @.ip, "bad")]
    /\ UNCHANGED <<disk, ref, valid, cwd, fd>>

bad(p) ==
    LET i == th[p].ip IN
    /\ At(p, "bad") /\ ilock(i)
    /\ inode' = [inode EXCEPT ![i].nlink = @ - 1]
    /\ th' = [th EXCEPT ![p] = PutReturn(i)]
    /\ UNCHANGED <<ref, lock, bitmap, cwd, fd>>

linked(p) ==
    /\ At(p, "linked")
    /\ th' = [th EXCEPT ![p] = PutReturn(th[p].ip)]
    /\ UNCHANGED <<disk, ref, valid, lock, cwd, fd>>

-----------------------------------------------------------------------------
\* unlink

\* dirlookup with the directory locked, which it stays.
sys_unlink(p) ==
    LET t == th[p]
        i == dirlookup(t.dp, Head(t.path))
    IN
    /\ At(p, "parent") /\ t.call.op = "unlink" /\ CanLock(t.dp)
    /\ IF i = None
       THEN /\ th' = [th EXCEPT ![p] = PutReturn(t.dp)]
            /\ valid' = [valid EXCEPT ![t.dp] = TRUE]
            /\ UNCHANGED <<ref, lock>>
       ELSE /\ lock' = [lock EXCEPT ![t.dp] = p]
            /\ th' = [th EXCEPT ![p] = GoOn(t, t.dp, i, "found")]
            /\ ref' = [ref EXCEPT ![i] = @ + 1]
            /\ valid' = [valid EXCEPT ![t.dp] = TRUE, ![i] = @ /\ ref[i] > 0]
    /\ UNCHANGED <<disk, cwd, fd>>

\* ilock(ip): a directory must be empty; the entry goes, and the directory is
\* put with ip still locked.
removeEntry(p) ==
    LET t == th[p]
        i == t.ip
        d == t.dp
    IN
    /\ At(p, "found") /\ ilock(i)
    /\ IF inode[i].type = "dir" /\ inode[i].ent # NoEntries
       THEN /\ th' = [th EXCEPT ![p] = PutThen(t, t.path, d, None, i, "notempty")]
            /\ UNCHANGED <<inode, lock>>
       ELSE /\ inode' = [inode EXCEPT ![d] =
                           WithEntry(@, Head(t.path), None, IF inode[i].type = "dir" THEN -1 ELSE 0)]
            /\ lock' = [lock EXCEPT ![d] = None, ![i] = p]
            /\ th' = [th EXCEPT ![p] = PutDp(t, i, "unlinked")]
    /\ UNCHANGED <<bitmap, ref, cwd, fd>>

notempty(p) ==
    /\ At(p, "notempty")
    /\ lock' = [lock EXCEPT ![th[p].dp] = None]
    /\ th' = [th EXCEPT ![p] = PutReturn(th[p].dp)]
    /\ UNCHANGED <<disk, ref, valid, cwd, fd>>

unlinked(p) ==
    LET i == th[p].ip IN
    /\ At(p, "unlinked")
    /\ inode' = [inode EXCEPT ![i].nlink = @ - 1]
    /\ lock' = [lock EXCEPT ![i] = None]
    /\ th' = [th EXCEPT ![p] = PutReturn(i)]
    /\ UNCHANGED <<bitmap, ref, valid, cwd, fd>>

-----------------------------------------------------------------------------
\* The steps of a system call under way.
Proceed(p) ==
    \/ iput(p) \/ unref(p) \/ namex(p) \/ sys_open(p) \/ sys_chdir(p)
    \/ createExisting(p) \/ exists(p) \/ createNew(p) \/ created(p)
    \/ sys_link(p) \/ dirlink(p) \/ taken(p) \/ bad(p) \/ linked(p)
    \/ sys_unlink(p) \/ removeEntry(p) \/ notempty(p) \/ unlinked(p)

Next ==
    \E p \in Procs :
      \/ Proceed(p) \/ sys_close(p) \/ sys_write(p)
      \/ \E c \in Calls : Start(p, c)

Spec == Init /\ [][Next]_vars

\* A process whose sleep lock is free again and again gets it, and a process in
\* the kernel goes on running.
FairSpec == Spec /\ \A p \in Procs : SF_vars(Proceed(p))

-----------------------------------------------------------------------------
\* Properties

PCs == {"idle", "put", "unref", "namex", "parent", "inode", "exists", "created", "linked",
        "taken", "bad", "found", "notempty", "unlinked"}

Ptr == Inums \cup {None}
Inode == [type : {"none", "file", "dir"}, nlink : Nat, ent : [Names -> Ptr],
          blocks : SUBSET Blocks]
Thread == [pc : PCs, call : Calls \cup {NoCall}, path : Seq(Names), dp : Ptr, ip : Ptr,
           put : Ptr, then : PCs]

\* Every variable has its type, and no file is larger than it may be.
TypeOK ==
    /\ inode \in [Inums -> Inode]
    /\ \A i \in Inums : Cardinality(inode[i].blocks) <= MAXFILE
    /\ ref \in [Inums -> Nat] /\ valid \in [Inums -> BOOLEAN]
    /\ lock \in [Inums -> Procs \cup {None}] /\ bitmap \subseteq Blocks
    /\ cwd \in [Procs -> Inums] /\ fd \in [Procs -> Ptr] /\ th \in [Procs -> Thread]

\* The reference count of an inode cache entry is the number of pointers to it:
\* every path through the system calls, the failing ones included, pairs iget
\* with iput (fs.c: "ip->ref tracks the number of in-memory pointers").
RefsExact ==
    \A i \in Inums :
      ref[i] = Cardinality({p \in Procs : cwd[p] = i}) + Cardinality({p \in Procs : fd[p] = i})
               + Cardinality({p \in Procs : th[p].dp = i}) + Cardinality({p \in Procs : th[p].ip = i})
               + Cardinality({p \in Procs : th[p].put = i})

\* The names of inode i, and the names of directories in it.
NamesOf(i) == {x \in Inums \X Names : inode[x[1]].ent[x[2]] = i}
SubDirs(i) ==
    {n \in Names : inode[i].ent[n] # None /\ inode[inode[i].ent[n]].type = "dir"}

\* The links of an inode are at least the names it has, a directory's also the
\* subdirectories whose ".." names it: while link, unlink, mkdir and iput of
\* several processes interleave, no name is left without an inode behind it.
LinksCoverNames ==
    \A i \in Inums : Cardinality(NamesOf(i)) + Cardinality(SubDirs(i)) <= inode[i].nlink

\* A file or directory that is open, current, or about to be used by a system
\* call that has locked it once is never freed under its user, whatever the
\* others unlink (fs.c, iput: freed only with the last reference).
InUseAllocated ==
    \A p \in Procs :
      /\ inode[cwd[p]].type = "dir"
      /\ fd[p] # None => inode[fd[p]].type = "file"
      /\ \A i \in {th[p].dp, th[p].ip} \ {None} : inode[i].type # "none"

\* The bitmap marks exactly the blocks of the inodes, each block of one inode:
\* itrunc of a file on its last iput neither loses nor shares a block.
BlocksExact ==
    /\ bitmap = UNION {inode[i].blocks : i \in Inums}
    /\ \A i, j \in Inums : i # j => inode[i].blocks \cap inode[j].blocks = {}

\* An inode without links and without pointers has been freed (fs.c:328: "If
\* that was the last reference and the inode has no links to it, free the inode
\* (and its content) on disk.").
FreedWithLastReference ==
    \A i \in Inums : inode[i].nlink = 0 /\ ref[i] = 0 => inode[i].type = "none"

\* Every system call returns (fs.c:150: "The separation also helps avoid
\* deadlock and races during pathname lookup").
SyscallReturns == \A p \in Procs : (th[p].pc # "idle") ~> (th[p].pc = "idle")
=============================================================================
