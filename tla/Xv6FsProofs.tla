----------------------------- MODULE Xv6FsProofs ----------------------------
(***************************************************************************)
(* Proofs about xv6's inodes and the system calls on files, for any number *)
(* of processes, inodes, names and blocks and any set of calls.            *)
(***************************************************************************)
EXTENDS Xv6Fs, TLAPS

\* Where a call is, or will be when the iput under way has returned.
Stage(t) == IF t.pc \in {"put", "unref"} THEN t.then ELSE t.pc

\* Which pointers a call has at each stage.
Shape(t) ==
    /\ t.then \notin {"put", "unref"}
    /\ IF t.pc \in {"put", "unref"} THEN t.put # None ELSE t.put = None /\ t.then = "idle"
    /\ (t.dp # None) <=> Stage(t) \in {"namex", "parent", "inode", "taken", "found", "notempty"}
    /\ Stage(t) \notin {"namex", "parent"} =>
         ((t.ip # None) <=> Stage(t) \in {"exists", "created", "linked", "taken", "bad",
                                          "found", "unlinked"})
    /\ Stage(t) # "idle" => t.call \in Calls
    /\ Stage(t) = "idle" => t.call = NoCall /\ t.path = <<>>
    /\ Stage(t) \in {"namex", "parent", "found"} => t.path # <<>>
    /\ Stage(t) \in {"namex", "parent"} /\ t.ip # None => t.call.op = "link"
    /\ Stage(t) = "parent" /\ t.ip = None => t.call.op \in {"creat", "mkdir", "unlink"}

Shapes == \A p \in Procs : Shape(th[p])

\* The locks a call keeps from one step to the next, and what unlink found in
\* the directory that it keeps locked.
LockOf(p) ==
    /\ Stage(th[p]) \in {"taken", "found", "notempty"} => lock[th[p].dp] = p
    /\ Stage(th[p]) \in {"created", "unlinked"} => lock[th[p].ip] = p
    /\ Stage(th[p]) = "found" => inode[th[p].dp].ent[Head(th[p].path)] = th[p].ip

Locks == \A p \in Procs : LockOf(p)

\* What is behind the pointers of a process.
KindOf(p) ==
    /\ inode[cwd[p]].type = "dir"
    /\ fd[p] # None => inode[fd[p]].type = "file"
    /\ th[p].dp # None => inode[th[p].dp].type # "none"
    /\ th[p].ip # None => inode[th[p].ip].type # "none"
    /\ Stage(th[p]) \in {"namex", "parent", "taken", "bad"} /\ th[p].ip # None =>
         inode[th[p].ip].type = "file"
    /\ Stage(th[p]) = "created" => inode[th[p].ip].type = Type(th[p])

Kinds == \A p \in Procs : KindOf(p)

\* A free inode is blank.
Blank == \A i \in Inums : inode[i].type = "none" => inode[i] = Free

\* The inode that has a link for the call and no name yet, or no longer.
Owes(t) ==
    IF Stage(t) \in {"namex", "parent", "taken", "bad", "unlinked"} THEN t.ip ELSE None

Owners(i) == {p \in Procs : Owes(th[p]) = i}

Links ==
    \A i \in Inums :
      Cardinality(NamesOf(i)) + Cardinality(SubDirs(i)) + Cardinality(Owners(i)) <= inode[i].nlink

FsInv == TypeOK /\ RefsExact /\ Shapes /\ Locks /\ Kinds /\ Blank /\ Links /\ BlocksExact

-----------------------------------------------------------------------------
\* Finite sets

SubsetFinite ==
    \A S, T : IsFiniteSet(S) /\ T \subseteq S =>
      IsFiniteSet(T) /\ Cardinality(T) <= Cardinality(S)

CardinalityNat == \A S : IsFiniteSet(S) => Cardinality(S) \in Nat
ProductFinite == \A S, T : IsFiniteSet(S) /\ IsFiniteSet(T) => IsFiniteSet(S \X T)

OneMore ==
    \A S, x : IsFiniteSet(S) =>
      Cardinality(S \cup {x}) = IF x \in S THEN Cardinality(S) ELSE Cardinality(S) + 1

OneLess ==
    \A S, x : IsFiniteSet(S) =>
      Cardinality(S \ {x}) = IF x \in S THEN Cardinality(S) - 1 ELSE Cardinality(S)

EmptyCounts ==
    /\ IsFiniteSet({}) /\ Cardinality({}) = 0
    /\ \A S : IsFiniteSet(S) => (Cardinality(S) = 0 <=> S = {})

\* What is used of finite sets below.  The lemmas take it as a hypothesis, which
\* is discharged at the end (CountsFinite) from the library's theorems.
FiniteFacts ==
    SubsetFinite /\ CardinalityNat /\ ProductFinite /\ OneMore /\ OneLess /\ EmptyCounts

-----------------------------------------------------------------------------
\* Counting

One(b) == IF b THEN 1 ELSE 0

\* How many members of S the function F maps to i.
Count(S, F, i) == Cardinality({q \in S : F[q] = i})

\* When a function changes at one argument, the number of arguments with value i
\* changes by what happens there.
LEMMA CountChange ==
    ASSUME FiniteFacts, NEW S, IsFiniteSet(S), NEW p \in S, NEW F, NEW G, NEW i,
           \A q \in S \ {p} : G[q] = F[q]
    PROVE  /\ Count(S, F, i) \in Nat /\ Count(S, G, i) \in Nat
           /\ Count(S, G, i) + One(F[p] = i) = Count(S, F, i) + One(G[p] = i)
<1> DEFINE A == {q \in S \ {p} : F[q] = i}
<1>1. IsFiniteSet(A) /\ p \notin A
  <2>1. A \subseteq S
    BY Zenon
  <2> QED
    BY <2>1, Zenon DEF FiniteFacts, SubsetFinite
<1>2. Cardinality(A) \in Nat /\ Cardinality(A \cup {p}) = Cardinality(A) + 1
  BY <1>1, Zenon DEF FiniteFacts, OneMore, CardinalityNat
<1>3. {q \in S : F[q] = i} = IF F[p] = i THEN A \cup {p} ELSE A
  BY Zenon
<1>4. {q \in S : G[q] = i} = IF G[p] = i THEN A \cup {p} ELSE A
  BY Zenon
<1> HIDE DEF A
<1> QED
  BY <1>2, <1>3, <1>4 DEF One, Count

\* The part of a state that a step of p may change, of what processes have.
Alone(p) ==
    /\ th' \in [Procs -> Thread] /\ cwd' \in [Procs -> Inums] /\ fd' \in [Procs -> Ptr]
    /\ \A q \in Procs \ {p} : th'[q] = th[q] /\ cwd'[q] = cwd[q] /\ fd'[q] = fd[q]

\* The pointers to i among those of p.
Uses(p, i) ==
    One(cwd[p] = i) + One(fd[p] = i) + One(th[p].dp = i) + One(th[p].ip = i) + One(th[p].put = i)

\* The reference counts stay exact if each moves by what p's pointers do.
LEMMA RefsStep ==
    ASSUME FiniteFacts, RefsExact, NEW p \in Procs, Alone(p), ref \in [Inums -> Nat],
           \A i \in Inums : ref'[i] + Uses(p, i) = ref[i] + Uses(p, i)', ref' \in [Inums -> Nat]
    PROVE  RefsExact'
<1> SUFFICES ASSUME NEW i \in Inums
             PROVE  ref'[i] = Cardinality({q \in Procs : cwd'[q] = i})
                      + Cardinality({q \in Procs : fd'[q] = i})
                      + Cardinality({q \in Procs : th'[q].dp = i})
                      + Cardinality({q \in Procs : th'[q].ip = i})
                      + Cardinality({q \in Procs : th'[q].put = i})
  BY Zenon DEF RefsExact
<1> DEFINE dp == [q \in Procs |-> th[q].dp]
           ip == [q \in Procs |-> th[q].ip]
           put == [q \in Procs |-> th[q].put]
           dpN == [q \in Procs |-> th'[q].dp]
           ipN == [q \in Procs |-> th'[q].ip]
           putN == [q \in Procs |-> th'[q].put]
           N(F) == Count(Procs, F, i)
<1>0. IsFiniteSet(Procs)
  BY FsAssumption, Zenon
<1>1. /\ N(cwd) \in Nat /\ N(cwd') \in Nat
      /\ N(cwd') + One(cwd[p] = i) = N(cwd) + One(cwd'[p] = i)
  BY <1>0, CountChange DEF Alone
<1>2. /\ N(fd) \in Nat /\ N(fd') \in Nat
      /\ N(fd') + One(fd[p] = i) = N(fd) + One(fd'[p] = i)
  BY <1>0, CountChange DEF Alone
<1>3. /\ N(dp) \in Nat /\ N(dpN) \in Nat
      /\ N(dpN) + One(dp[p] = i) = N(dp) + One(dpN[p] = i)
  <2>1. \A q \in Procs \ {p} : dpN[q] = dp[q]
    BY Zenon DEF Alone
  <2> HIDE DEF dp, dpN
  <2> QED
    BY <1>0, <2>1, CountChange
<1>4. /\ N(ip) \in Nat /\ N(ipN) \in Nat
      /\ N(ipN) + One(ip[p] = i) = N(ip) + One(ipN[p] = i)
  <2>1. \A q \in Procs \ {p} : ipN[q] = ip[q]
    BY Zenon DEF Alone
  <2> HIDE DEF ip, ipN
  <2> QED
    BY <1>0, <2>1, CountChange
<1>5. /\ N(put) \in Nat /\ N(putN) \in Nat
      /\ N(putN) + One(put[p] = i) = N(put) + One(putN[p] = i)
  <2>1. \A q \in Procs \ {p} : putN[q] = put[q]
    BY Zenon DEF Alone
  <2> HIDE DEF put, putN
  <2> QED
    BY <1>0, <2>1, CountChange
<1>6. /\ N(dp) = Cardinality({q \in Procs : th[q].dp = i})
      /\ N(ip) = Cardinality({q \in Procs : th[q].ip = i})
      /\ N(put) = Cardinality({q \in Procs : th[q].put = i})
  <2>1. /\ {q \in Procs : dp[q] = i} = {q \in Procs : th[q].dp = i}
        /\ {q \in Procs : ip[q] = i} = {q \in Procs : th[q].ip = i}
        /\ {q \in Procs : put[q] = i} = {q \in Procs : th[q].put = i}
    BY Zenon
  <2> QED
    BY <2>1, Zenon DEF Count
<1>7. /\ N(dpN) = Cardinality({q \in Procs : th'[q].dp = i})
      /\ N(ipN) = Cardinality({q \in Procs : th'[q].ip = i})
      /\ N(putN) = Cardinality({q \in Procs : th'[q].put = i})
  <2>1. /\ {q \in Procs : dpN[q] = i} = {q \in Procs : th'[q].dp = i}
        /\ {q \in Procs : ipN[q] = i} = {q \in Procs : th'[q].ip = i}
        /\ {q \in Procs : putN[q] = i} = {q \in Procs : th'[q].put = i}
    BY Zenon
  <2> QED
    BY <2>1, Zenon DEF Count
<1>8. ref[i] = N(cwd) + N(fd) + N(dp) + N(ip) + N(put)
  BY <1>6, Zenon DEF RefsExact, Count
<1>9. Uses(p, i) = One(cwd[p] = i) + One(fd[p] = i) + One(dp[p] = i) + One(ip[p] = i)
                   + One(put[p] = i)
  BY Zenon DEF Uses
<1>10. Uses(p, i)' = One(cwd'[p] = i) + One(fd'[p] = i) + One(dpN[p] = i) + One(ipN[p] = i)
                    + One(putN[p] = i)
  BY Zenon DEF Uses
<1>11. /\ One(cwd[p] = i) \in Nat /\ One(fd[p] = i) \in Nat /\ One(dp[p] = i) \in Nat
       /\ One(ip[p] = i) \in Nat /\ One(put[p] = i) \in Nat
       /\ One(cwd'[p] = i) \in Nat /\ One(fd'[p] = i) \in Nat /\ One(dpN[p] = i) \in Nat
       /\ One(ipN[p] = i) \in Nat /\ One(putN[p] = i) \in Nat
  BY Zenon DEF One
<1>12. ref'[i] + Uses(p, i) = ref[i] + Uses(p, i)' /\ ref'[i] \in Nat
  BY Zenon
<1> HIDE DEF N, dp, ip, put, dpN, ipN, putN
<1>13. ref'[i] = N(cwd') + N(fd') + N(dpN) + N(ipN) + N(putN)
  BY <1>1, <1>2, <1>3, <1>4, <1>5, <1>8, <1>9, <1>10, <1>11, <1>12
<1> QED
  BY <1>7, <1>13, Zenon DEF N, Count
-----------------------------------------------------------------------------
\* What a step of p has to show of p itself, for each part of the invariant.

\* The shape of the other calls is untouched.
LEMMA ShapesStep ==
    ASSUME Shapes, NEW p \in Procs, Alone(p), Shape(th'[p])
    PROVE  Shapes'
BY Zenon DEF Shapes, Alone

\* A lock is taken when it is free and released by its holder, and the entries
\* of a directory are changed under its lock.
LEMMA LocksStep ==
    ASSUME Locks, NEW p \in Procs, Alone(p), LockOf(p)', TypeOK, Shapes,
           \A i \in Inums : lock[i] \in Procs \ {p} =>
             lock'[i] = lock[i] /\ inode'[i].ent = inode[i].ent
    PROVE  Locks'
<1> SUFFICES ASSUME NEW q \in Procs \ {p} PROVE LockOf(q)'
  BY Zenon DEF Locks
<1>1. th'[q] = th[q] /\ LockOf(q) /\ Shape(th[q]) /\ th[q] \in Thread
  BY Zenon DEF Alone, Locks, Shapes, TypeOK
<1>2. Stage(th[q]) \in {"taken", "found", "notempty"} =>
        th[q].dp \in Inums /\ lock[th[q].dp] = q
  BY <1>1, Zenon DEF LockOf, Shape, Thread, Ptr
<1>3. Stage(th[q]) \in {"created", "unlinked"} => th[q].ip \in Inums /\ lock[th[q].ip] = q
  BY <1>1, Zenon DEF LockOf, Shape, Thread, Ptr
<1>4. Stage(th[q]) = "found" => inode[th[q].dp].ent[Head(th[q].path)] = th[q].ip
  BY <1>1, Zenon DEF LockOf
<1> QED
  BY <1>1, <1>2, <1>3, <1>4, Zenon DEF LockOf

\* The pointers of the other processes keep what is behind them, if no inode
\* that they point to changes its type.
LEMMA KindsStep ==
    ASSUME Kinds, Shapes, NEW p \in Procs, Alone(p), KindOf(p)',
           \A q \in Procs \ {p} :
             /\ inode'[cwd[q]].type = inode[cwd[q]].type
             /\ fd[q] # None => inode'[fd[q]].type = inode[fd[q]].type
             /\ th[q].dp # None => inode'[th[q].dp].type = inode[th[q].dp].type
             /\ th[q].ip # None => inode'[th[q].ip].type = inode[th[q].ip].type
    PROVE  Kinds'
<1> SUFFICES ASSUME NEW q \in Procs \ {p} PROVE KindOf(q)'
  BY Zenon DEF Kinds
<1>1. th'[q] = th[q] /\ cwd'[q] = cwd[q] /\ fd'[q] = fd[q] /\ KindOf(q)
  BY Zenon DEF Alone, Kinds
<1>2. /\ inode'[cwd[q]].type = inode[cwd[q]].type
      /\ fd[q] # None => inode'[fd[q]].type = inode[fd[q]].type
      /\ th[q].dp # None => inode'[th[q].dp].type = inode[th[q].dp].type
      /\ th[q].ip # None => inode'[th[q].ip].type = inode[th[q].ip].type
  BY Zenon
<1>3. /\ inode'[cwd'[q]].type = "dir"
      /\ fd'[q] # None => inode'[fd'[q]].type = "file"
      /\ th'[q].dp # None => inode'[th'[q].dp].type # "none"
      /\ th'[q].ip # None => inode'[th'[q].ip].type # "none"
  BY <1>1, <1>2 DEF KindOf
<1>4. Stage(th'[q]) \in {"namex", "parent", "taken", "bad"} /\ th'[q].ip # None =>
         inode'[th'[q].ip].type = "file"
  BY <1>1, <1>2, Zenon DEF KindOf
<1>5. Stage(th'[q]) = "created" => inode'[th'[q].ip].type = Type(th'[q])
  <2>1. Stage(th[q]) = "created" => th[q].ip # None
    BY Zenon DEF Shapes, Shape
  <2> QED
    BY <1>1, <1>2, <2>1, Zenon DEF KindOf
<1> QED
  BY <1>3, <1>4, <1>5, Zenon DEF KindOf

\* The calls that owe inode i a name change by what p's call does.
LEMMA OwnersStep ==
    ASSUME FiniteFacts, NEW p \in Procs, Alone(p), NEW i \in Inums
    PROVE  /\ Cardinality(Owners(i)) \in Nat /\ Cardinality(Owners(i)') \in Nat
           /\ Cardinality(Owners(i)') + One(Owes(th[p]) = i)
                = Cardinality(Owners(i)) + One(Owes(th'[p]) = i)
<1> DEFINE F == [q \in Procs |-> Owes(th[q])]
           G == [q \in Procs |-> Owes(th'[q])]
<1>1. {q \in Procs : F[q] = i} = Owners(i) /\ {q \in Procs : G[q] = i} = Owners(i)'
  BY Zenon DEF Owners
<1>2. \A q \in Procs \ {p} : G[q] = F[q]
  BY Zenon DEF Alone
<1>3. F[p] = Owes(th[p]) /\ G[p] = Owes(th'[p]) /\ IsFiniteSet(Procs)
  BY FsAssumption, Zenon
<1> HIDE DEF F, G
<1>4. /\ Count(Procs, F, i) \in Nat /\ Count(Procs, G, i) \in Nat
      /\ Count(Procs, G, i) + One(F[p] = i) = Count(Procs, F, i) + One(G[p] = i)
  BY <1>2, <1>3, CountChange
<1> QED
  BY <1>1, <1>3, <1>4, Zenon DEF Count

\* The names of an inode and the directories in it are finitely many.
LEMMA NamesFinite ==
    ASSUME FiniteFacts, NEW i
    PROVE  /\ Cardinality(NamesOf(i)) \in Nat /\ Cardinality(NamesOf(i)') \in Nat
           /\ Cardinality(SubDirs(i)) \in Nat /\ Cardinality(SubDirs(i)') \in Nat
           /\ IsFiniteSet(NamesOf(i)) /\ IsFiniteSet(SubDirs(i))
<1>1. IsFiniteSet(Inums \X Names) /\ IsFiniteSet(Names)
  BY FsAssumption, Zenon DEF FiniteFacts, ProductFinite
<1>2. /\ NamesOf(i) \subseteq Inums \X Names /\ NamesOf(i)' \subseteq Inums \X Names
      /\ SubDirs(i) \subseteq Names /\ SubDirs(i)' \subseteq Names
  BY Zenon DEF NamesOf, SubDirs
<1>3. /\ IsFiniteSet(NamesOf(i)) /\ IsFiniteSet(NamesOf(i)')
      /\ IsFiniteSet(SubDirs(i)) /\ IsFiniteSet(SubDirs(i)')
  BY <1>1, <1>2, Zenon DEF FiniteFacts, SubsetFinite
<1> QED
  BY <1>3, Zenon DEF FiniteFacts, CardinalityNat

\* A step that changes no entry and no type keeps the names covered if it changes
\* the links of inodes by what its call comes to owe or pays.
LEMMA LinksSame ==
    ASSUME FiniteFacts, TypeOK, Links, NEW p \in Procs, Alone(p),
           \A i \in Inums :
             /\ inode'[i].ent = inode[i].ent /\ inode'[i].type = inode[i].type
             /\ inode'[i].nlink \in Nat
             /\ inode'[i].nlink + One(Owes(th[p]) = i) = inode[i].nlink + One(Owes(th'[p]) = i)
    PROVE  Links'
<1> SUFFICES ASSUME NEW i \in Inums
             PROVE  Cardinality(NamesOf(i)') + Cardinality(SubDirs(i)') + Cardinality(Owners(i)')
                      <= inode'[i].nlink
  BY Zenon DEF Links
<1> NamesOf(i)' = NamesOf(i)
  BY DEF NamesOf
<1> SubDirs(i)' = SubDirs(i)
  <2>1. \A n \in Names : inode[i].ent[n] # None => inode[i].ent[n] \in Inums
    BY DEF TypeOK, Inode, Ptr
  <2>2. inode'[i].ent = inode[i].ent
    BY Zenon
  <2>3. \A n \in Names : inode[i].ent[n] # None =>
          inode'[inode[i].ent[n]].type = inode[inode[i].ent[n]].type
    BY <2>1, Zenon
  <2> QED
    BY <2>2, <2>3 DEF SubDirs
<1> /\ Cardinality(Owners(i)) \in Nat /\ Cardinality(Owners(i)') \in Nat
    /\ Cardinality(Owners(i)') + One(Owes(th[p]) = i)
         = Cardinality(Owners(i)) + One(Owes(th'[p]) = i)
  BY OwnersStep, Zenon
<1> Cardinality(NamesOf(i)) \in Nat /\ Cardinality(SubDirs(i)) \in Nat
  BY NamesFinite, Zenon
<1> Cardinality(NamesOf(i)) + Cardinality(SubDirs(i)) + Cardinality(Owners(i)) <= inode[i].nlink
  BY Zenon DEF Links
<1> One(Owes(th[p]) = i) \in Nat /\ One(Owes(th'[p]) = i) \in Nat
  BY Zenon DEF One
<1> inode'[i].nlink + One(Owes(th[p]) = i) = inode[i].nlink + One(Owes(th'[p]) = i)
    /\ inode'[i].nlink \in Nat /\ inode[i].nlink \in Nat
  BY Zenon DEF TypeOK, Inode
<1> QED
  OBVIOUS

\* Entry n of directory d is set to v and no other entry changes.
Enters(d, n, v) ==
    /\ inode' \in [Inums -> Inode]
    /\ \A j \in Inums \ {d} : inode'[j].ent = inode[j].ent
    /\ inode'[d].ent = [inode[d].ent EXCEPT ![n] = v]

\* Whether entry n of i names a directory.
DirAt(i, n) == inode[i].ent[n] # None /\ inode[inode[i].ent[n]].type = "dir"

-----------------------------------------------------------------------------
\* What the counts say of single processes

\* Two arguments that a function maps to i count for two.
LEMMA CountPair ==
    ASSUME FiniteFacts, NEW S, IsFiniteSet(S), NEW p \in S, NEW q \in S, NEW F, NEW i
    PROVE  /\ Count(S, F, i) \in Nat
           /\ One(F[p] = i) + One(p # q /\ F[q] = i) <= Count(S, F, i)
<1> DEFINE C == {x \in S : F[x] = i}
           A == C \ {p}
           B == A \ {q}
<1>1. IsFiniteSet(C) /\ IsFiniteSet(A) /\ IsFiniteSet(B)
  <2>1. C \subseteq S /\ A \subseteq S /\ B \subseteq S
    BY Zenon
  <2> QED
    BY <2>1, Zenon DEF FiniteFacts, SubsetFinite
<1>2. Cardinality(C) \in Nat /\ Cardinality(A) \in Nat /\ Cardinality(B) \in Nat
  BY <1>1, Zenon DEF FiniteFacts, CardinalityNat
<1>3. /\ Cardinality(A) = IF p \in C THEN Cardinality(C) - 1 ELSE Cardinality(C)
      /\ Cardinality(B) = IF q \in A THEN Cardinality(A) - 1 ELSE Cardinality(A)
  BY <1>1, Zenon DEF FiniteFacts, OneLess
<1>4. (p \in C <=> F[p] = i) /\ (q \in A <=> p # q /\ F[q] = i)
  BY Zenon
<1>5. Count(S, F, i) = Cardinality(C)
  BY Zenon DEF Count
<1> HIDE DEF C, A, B
<1> QED
  BY <1>2, <1>3, <1>4, <1>5 DEF One

\* A pointer to an inode is counted, and the only one is nobody else's.
LEMMA Pointers ==
    ASSUME FiniteFacts, RefsExact, NEW p \in Procs, NEW i \in Inums, th[p].put = i, ref[i] \in Nat
    PROVE  /\ ref[i] >= 1
           /\ ref[i] = 1 =>
                /\ cwd[p] # i /\ fd[p] # i /\ th[p].dp # i /\ th[p].ip # i
                /\ \A q \in Procs \ {p} :
                     cwd[q] # i /\ fd[q] # i /\ th[q].dp # i /\ th[q].ip # i /\ th[q].put # i
\* The pointers of two processes to i are counted.
<1>a. ASSUME NEW q \in Procs
      PROVE  /\ Uses(p, i) \in Nat /\ Uses(q, i) \in Nat
             /\ Uses(p, i) <= ref[i]
             /\ p # q => Uses(p, i) + Uses(q, i) <= ref[i]
  <2> USE <1>a
  <2> DEFINE dp == [x \in Procs |-> th[x].dp]
             ip == [x \in Procs |-> th[x].ip]
             put == [x \in Procs |-> th[x].put]
             N(F) == Count(Procs, F, i)
             P(F) == One(F[p] = i)
             Q(F) == One(p # q /\ F[q] = i)
  <2>0. IsFiniteSet(Procs)
    BY FsAssumption, Zenon
  <2>1. \A F : N(F) \in Nat /\ P(F) + Q(F) <= N(F)
    BY <2>0, CountPair
  <2>2. {x \in Procs : dp[x] = i} = {x \in Procs : th[x].dp = i}
    BY Zenon
  <2>3. {x \in Procs : ip[x] = i} = {x \in Procs : th[x].ip = i}
    BY Zenon
  <2>4. {x \in Procs : put[x] = i} = {x \in Procs : th[x].put = i}
    BY Zenon
  <2> ref[i] = N(cwd) + N(fd) + N(dp) + N(ip) + N(put)
    BY <2>2, <2>3, <2>4, Zenon DEF RefsExact, Count
  <2> Uses(p, i) = P(cwd) + P(fd) + P(dp) + P(ip) + P(put)
    BY Zenon DEF Uses
  <2> p # q => Uses(q, i) = Q(cwd) + Q(fd) + Q(dp) + Q(ip) + Q(put)
    BY Zenon DEF Uses
  <2> Uses(p, i) \in Nat /\ Uses(q, i) \in Nat
    BY DEF Uses, One
  <2>9. \A F : P(F) \in Nat /\ Q(F) \in Nat
    BY Zenon DEF One
  <2> HIDE DEF dp, ip, put, N, P, Q
  <2> /\ P(cwd) + Q(cwd) <= N(cwd) /\ P(fd) + Q(fd) <= N(fd) /\ P(dp) + Q(dp) <= N(dp)
      /\ P(ip) + Q(ip) <= N(ip) /\ P(put) + Q(put) <= N(put)
      /\ N(cwd) \in Nat /\ N(fd) \in Nat /\ N(dp) \in Nat /\ N(ip) \in Nat /\ N(put) \in Nat
    BY <2>1, Zenon
  <2> /\ P(cwd) \in Nat /\ P(fd) \in Nat /\ P(dp) \in Nat /\ P(ip) \in Nat /\ P(put) \in Nat
      /\ Q(cwd) \in Nat /\ Q(fd) \in Nat /\ Q(dp) \in Nat /\ Q(ip) \in Nat /\ Q(put) \in Nat
    BY <2>9, Zenon
  <2> QED
    OBVIOUS
<1>1. Uses(p, i) <= ref[i] /\ Uses(p, i) \in Nat
  BY <1>a, Zenon
<1>2. Uses(p, i) >= 1 /\ (cwd[p] = i \/ fd[p] = i \/ th[p].dp = i \/ th[p].ip = i => Uses(p, i) >= 2)
  BY DEF Uses, One
<1>3. ASSUME NEW q \in Procs \ {p}, ref[i] = 1
      PROVE  cwd[q] # i /\ fd[q] # i /\ th[q].dp # i /\ th[q].ip # i /\ th[q].put # i
  <2>1. Uses(p, i) + Uses(q, i) <= ref[i] /\ Uses(q, i) \in Nat
    BY <1>a, Zenon
  <2>2. cwd[q] = i \/ fd[q] = i \/ th[q].dp = i \/ th[q].ip = i \/ th[q].put = i => Uses(q, i) >= 1
    BY DEF Uses, One
  <2> QED
    BY <1>1, <1>2, <1>3, <2>1, <2>2
<1>4. ref[i] >= 1
  BY <1>1, <1>2
<1>5. ref[i] = 1 => cwd[p] # i /\ fd[p] # i /\ th[p].dp # i /\ th[p].ip # i
  BY <1>1, <1>2
<1> QED
  BY <1>3, <1>4, <1>5, Zenon

\* An inode that has a name, a directory in it or a call that owes it a name has
\* a link, and so is allocated.
LEMMA Named ==
    ASSUME FiniteFacts, TypeOK, Links, Blank, NEW i \in Inums, inode[i].nlink = 0 \/ inode[i].type = "none"
    PROVE  /\ NamesOf(i) = {} /\ SubDirs(i) = {} /\ Owners(i) = {}
           /\ \A d \in Inums, n \in Names : inode[d].ent[n] # i
<1>1. inode[i].nlink = 0
  BY DEF Blank, Free
<1>2. IsFiniteSet(Owners(i)) /\ Cardinality(Owners(i)) \in Nat
  <2>1. Owners(i) \subseteq Procs
    BY Zenon DEF Owners
  <2> QED
    BY <2>1, FsAssumption, Zenon DEF FiniteFacts, SubsetFinite, CardinalityNat
<1>3. /\ Cardinality(NamesOf(i)) \in Nat /\ Cardinality(SubDirs(i)) \in Nat
      /\ IsFiniteSet(NamesOf(i)) /\ IsFiniteSet(SubDirs(i))
  BY NamesFinite, Zenon
<1>4. Cardinality(NamesOf(i)) + Cardinality(SubDirs(i)) + Cardinality(Owners(i)) <= inode[i].nlink
  BY Zenon DEF Links
<1>5. Cardinality(NamesOf(i)) = 0 /\ Cardinality(SubDirs(i)) = 0 /\ Cardinality(Owners(i)) = 0
  BY <1>1, <1>2, <1>3, <1>4
<1>6. NamesOf(i) = {} /\ SubDirs(i) = {} /\ Owners(i) = {}
  BY <1>2, <1>3, <1>5, Zenon DEF FiniteFacts, EmptyCounts
<1>7. \A d \in Inums, n \in Names : inode[d].ent[n] # i
  <2> SUFFICES ASSUME NEW d \in Inums, NEW n \in Names, inode[d].ent[n] = i PROVE FALSE
    BY Zenon
  <2>1. <<d, n>> \in NamesOf(i)
    BY Zenon DEF NamesOf
  <2> QED
    BY <1>6, <2>1, Zenon
<1> QED
  BY <1>6, <1>7, Zenon
-----------------------------------------------------------------------------
\* Steps that leave the disk alone

\* What is known of a process.
LEMMA Of ==
    ASSUME FsInv, NEW p \in Procs
    PROVE  /\ th[p] \in Thread /\ Shape(th[p]) /\ LockOf(p) /\ KindOf(p)
           /\ cwd[p] \in Inums /\ fd[p] \in Ptr
           /\ th[p].dp \in Ptr /\ th[p].ip \in Ptr /\ th[p].put \in Ptr
           /\ th[p].path \in Seq(Names) /\ th[p].call \in Calls \cup {NoCall}
           /\ th[p].pc \in PCs /\ th[p].then \in PCs
<1>1. th[p] \in Thread /\ cwd[p] \in Inums /\ fd[p] \in Ptr
  BY Zenon DEF FsInv, TypeOK
<1>2. Shape(th[p]) /\ LockOf(p) /\ KindOf(p)
  BY Zenon DEF FsInv, Shapes, Locks, Kinds
<1> QED
  BY <1>1, <1>2, Zenon DEF Thread

\* The types of the cache entries and of the locks after a step.
Cached ==
    /\ ref' \in [Inums -> Nat] /\ valid' \in [Inums -> BOOLEAN]
    /\ lock' \in [Inums -> Procs \cup {None}]

\* What p's step does to pointers and reference counts agrees.
Counted(p) == \A i \in Inums : ref'[i] + Uses(p, i) = ref[i] + Uses(p, i)'

\* A step of p that leaves the disk alone keeps the invariant if p's call is
\* where its pointers and locks allow it to be.
LEMMA Quiet ==
    ASSUME FiniteFacts, FsInv, NEW p \in Procs, Alone(p), UNCHANGED disk, Cached, Counted(p),
           Shape(th'[p]), LockOf(p)', KindOf(p)', Owes(th'[p]) = Owes(th[p]),
           \A i \in Inums : lock[i] \in Procs \ {p} => lock'[i] = lock[i]
    PROVE  FsInv'
<1>0. inode' = inode /\ bitmap' = bitmap
  BY Zenon DEF disk
<1> TypeOK'
  BY <1>0, Zenon DEF FsInv, TypeOK, Cached, Alone
<1> RefsExact'
  BY RefsStep, Zenon DEF FsInv, TypeOK, Cached, Counted
<1> Shapes'
  BY ShapesStep, Zenon DEF FsInv
<1> Locks'
  BY <1>0, LocksStep, Zenon DEF FsInv
<1> Kinds'
  BY <1>0, KindsStep, Zenon DEF FsInv
<1> Blank' /\ BlocksExact'
  BY <1>0, Zenon DEF FsInv, Blank, BlocksExact
<1> Links'
  <2>1. \A i \in Inums : inode[i].nlink \in Nat
    BY Zenon DEF FsInv, TypeOK, Inode
  <2> QED
    BY <1>0, <2>1, LinksSame, Zenon DEF FsInv
<1> QED
  BY Zenon DEF FsInv

\* The records of a call have the type of one.
LEMMA Records ==
    ASSUME NEW c \in Calls \cup {NoCall}, NEW t, t.call = c, NEW path \in Seq(Names),
           t.path = path, NEW dp \in Ptr, NEW ip \in Ptr, NEW i \in Ptr, NEW pc \in PCs
    PROVE  /\ GoOn(t, dp, ip, pc) \in Thread
           /\ LookUp(c, path, dp, ip) \in Thread
           /\ PutDp(t, ip, pc) \in Thread \/ t.dp \notin Ptr
           /\ PutReturn(i) \in Thread
           /\ Idle \in Thread
<1>1. None \in Ptr /\ "idle" \in PCs /\ "put" \in PCs /\ "namex" \in PCs /\ <<>> \in Seq(Names)
  BY DEF Ptr, PCs
<1>2. NoCall \in Calls \cup {NoCall} /\ Idle.call = NoCall
  BY Zenon DEF Idle
<1> QED
  BY <1>1, <1>2, Zenon DEF GoOn, LookUp, PutDp, PutThen, PutReturn, Idle, Thread

\* The same for the record of a call that puts an inode.
LEMMA PutRecord ==
    ASSUME NEW t, t.call \in Calls \cup {NoCall}, NEW path \in Seq(Names),
           NEW dp \in Ptr, NEW ip \in Ptr, NEW i \in Ptr, NEW pc \in PCs
    PROVE  PutThen(t, path, dp, ip, i, pc) \in Thread
BY Zenon DEF PutThen, Thread, PCs

\* One process's record changes.
LEMMA AloneTh ==
    ASSUME TypeOK, NEW p \in Procs, NEW u \in Thread, th' = [th EXCEPT ![p] = u],
           cwd' \in [Procs -> Inums], fd' \in [Procs -> Ptr],
           \A q \in Procs \ {p} : cwd'[q] = cwd[q] /\ fd'[q] = fd[q]
    PROVE  Alone(p) /\ th'[p] = u
BY Zenon DEF TypeOK, Alone

\* The end of iput keeps the invariant: the count and the pointer go together.
LEMMA UnrefKeeps ==
    ASSUME FiniteFacts, FsInv, NEW p \in Procs, unref(p)
    PROVE  FsInv'
<1> DEFINE t == th[p]
           u == GoOn(t, t.dp, t.ip, t.then)
           i == t.put
<1>0. /\ t \in Thread /\ Shape(t) /\ LockOf(p) /\ KindOf(p) /\ t.pc = "unref"
      /\ t.dp \in Ptr /\ t.ip \in Ptr /\ t.put \in Ptr /\ t.then \in PCs
      /\ t.call \in Calls \cup {NoCall} /\ t.path \in Seq(Names)
  BY Of, Zenon DEF unref, At
<1>1. u \in Thread
  BY <1>0, Records, Zenon
<1>2. th' = [th EXCEPT ![p] = u] /\ cwd' = cwd /\ fd' = fd /\ lock' = lock
      /\ valid' = valid /\ UNCHANGED disk /\ ref' = [ref EXCEPT ![i] = @ - 1]
  BY Zenon DEF unref
<1>3. Alone(p) /\ th'[p] = u
  BY <1>1, <1>2, AloneTh, Zenon DEF FsInv, TypeOK
<1>4. i \in Inums /\ ref[i] \in Nat /\ ref[i] >= 1
  <2>1. i \in Inums
    BY <1>0, Zenon DEF Shape, Ptr
  <2> QED
    BY <2>1, Pointers, Zenon DEF FsInv, TypeOK
<1> Cached
  BY <1>2, <1>4 DEF FsInv, TypeOK, Cached
<1>6. /\ u.dp = t.dp /\ u.ip = t.ip /\ u.put = None /\ u.call = t.call /\ u.path = t.path
      /\ u.pc = t.then /\ u.then = "idle"
  BY Zenon DEF GoOn
<1>7. Stage(u) = Stage(t)
  BY <1>0, <1>6, Zenon DEF Stage, Shape
<1> HIDE DEF u, t, i
<1> Counted(p)
  BY <1>2, <1>3, <1>4, <1>6, FsAssumption DEF FsInv, TypeOK, Counted, Uses, One, t, i, None
<1> Shape(u)
  BY <1>0, <1>6, <1>7, Zenon DEF Shape
<1> LockOf(p)'
  BY <1>0, <1>2, <1>3, <1>6, <1>7, Zenon DEF LockOf, disk, t
<1> KindOf(p)'
  BY <1>0, <1>2, <1>3, <1>6, <1>7, Zenon DEF KindOf, disk, t, Type
<1> Owes(u) = Owes(t)
  BY <1>6, <1>7, Zenon DEF Owes
<1> QED
  BY <1>2, <1>3, Quiet, Zenon DEF t

\* Locks that others hold stay theirs.
Polite(p) == \A i \in Inums : lock[i] \in Procs \ {p} => lock'[i] = lock[i]

\* A call that ends or puts its last pointer keeps the invariant.
LEMMA Ends ==
    ASSUME FiniteFacts, FsInv, NEW p \in Procs, NEW u \in Thread, Shape(u), Stage(u) = "idle",
           th' = [th EXCEPT ![p] = u],
           cwd' \in [Procs -> Inums], fd' \in [Procs -> Ptr],
           \A q \in Procs \ {p} : cwd'[q] = cwd[q] /\ fd'[q] = fd[q],
           UNCHANGED disk, Cached, Counted(p), Owes(th[p]) = None, Polite(p),
           inode[cwd'[p]].type = "dir", fd'[p] # None => inode[fd'[p]].type = "file"
    PROVE  FsInv'
<1>1. Alone(p) /\ th'[p] = u
  BY AloneTh, Zenon DEF FsInv
<1>2. u.dp = None /\ u.ip = None
  BY Zenon DEF Shape
<1>3. LockOf(p)' /\ Owes(th'[p]) = Owes(th[p])
  BY <1>1, Zenon DEF LockOf, Owes
<1>4. KindOf(p)'
  BY <1>1, <1>2, Zenon DEF KindOf, disk
<1> QED
  BY <1>1, <1>3, <1>4, Quiet, Zenon DEF Polite

\* The records of a call that ends or puts its last pointer.
LEMMA Last ==
    ASSUME NEW i \in Inums
    PROVE  /\ PutReturn(i) \in Thread /\ Shape(PutReturn(i)) /\ Stage(PutReturn(i)) = "idle"
           /\ PutReturn(i).put = i /\ PutReturn(i).dp = None /\ PutReturn(i).ip = None
           /\ Idle \in Thread /\ Shape(Idle) /\ Stage(Idle) = "idle"
           /\ Idle.put = None /\ Idle.dp = None /\ Idle.ip = None
<1>1. /\ PutReturn(i) \in Thread /\ Idle \in Thread
  <2>1. None \in Ptr /\ i \in Ptr /\ "idle" \in PCs /\ "put" \in PCs /\ <<>> \in Seq(Names)
    BY DEF Ptr, PCs
  <2> QED
    BY <2>1, Zenon DEF PutReturn, PutThen, Idle, Thread
<1>2. i # None
  BY FsAssumption, Zenon DEF None
<1>3. Stage(Idle) = "idle" /\ Stage(PutReturn(i)) = "idle"
  BY Zenon DEF Stage, Idle, PutReturn, PutThen
<1>4. Shape(PutReturn(i))
  BY <1>2, <1>3, Zenon DEF Shape, PutReturn, PutThen, Idle
<1>5. Shape(Idle)
  BY <1>3, Zenon DEF Shape, Idle
<1> QED
  BY <1>1, <1>3, <1>4, <1>5, Zenon DEF PutReturn, PutThen, Idle

\* The call of p has one pointer, to i.
Holds(p, i) ==
    /\ th[p].put = None
    /\ (th[p].dp = i /\ th[p].ip = None) \/ (th[p].ip = i /\ th[p].dp = None)

\* A call puts the only pointer it has.
LEMMA PutsBack ==
    ASSUME FiniteFacts, FsInv, NEW p \in Procs, NEW i \in Inums, Holds(p, i),
           th' = [th EXCEPT ![p] = PutReturn(i)], UNCHANGED <<disk, ref, cwd, fd>>,
           Cached, Owes(th[p]) = None, Polite(p)
    PROVE  FsInv'
<1>1. /\ PutReturn(i) \in Thread /\ Shape(PutReturn(i)) /\ Stage(PutReturn(i)) = "idle"
      /\ PutReturn(i).put = i /\ PutReturn(i).dp = None /\ PutReturn(i).ip = None
  BY Last, Zenon
<1>2. th'[p] = PutReturn(i) /\ cwd' = cwd /\ fd' = fd /\ ref' = ref
  BY Zenon DEF FsInv, TypeOK
<1>3. KindOf(p)
  BY Of, Zenon
<1> Counted(p)
  <2>1. \A j \in Inums : ref[j] \in Nat /\ j # None
    BY FsAssumption, Zenon DEF FsInv, TypeOK, None
  <2> QED
    BY <1>1, <1>2, <2>1 DEF Counted, Uses, One, Holds
<1> /\ cwd' \in [Procs -> Inums] /\ fd' \in [Procs -> Ptr]
    /\ \A q \in Procs \ {p} : cwd'[q] = cwd[q] /\ fd'[q] = fd[q]
  BY <1>2, Zenon DEF FsInv, TypeOK
<1> inode[cwd'[p]].type = "dir" /\ (fd'[p] # None => inode[fd'[p]].type = "file")
  BY <1>2, <1>3, Zenon DEF KindOf
<1> QED
  BY <1>1, Ends, Zenon

\* A call opens the file that it has the only pointer to.
LEMMA Opens ==
    ASSUME FiniteFacts, FsInv, NEW p \in Procs, NEW i \in Inums, Holds(p, i), inode[i].type = "file",
           OpenFile(p, i), UNCHANGED <<disk, ref, cwd>>,
           Cached, Owes(th[p]) = None, Polite(p)
    PROVE  FsInv'
<1>1. CASE fd[p] # None
  <2>1. th' = [th EXCEPT ![p] = PutReturn(i)] /\ fd' = fd
    BY <1>1, Zenon DEF OpenFile
  <2> QED
    BY <2>1, PutsBack, Zenon
<1>2. CASE fd[p] = None
  <2>1. th' = [th EXCEPT ![p] = Idle] /\ fd' = [fd EXCEPT ![p] = i]
    BY <1>2, Zenon DEF OpenFile
  <2>2. /\ Idle \in Thread /\ Shape(Idle) /\ Stage(Idle) = "idle"
        /\ Idle.put = None /\ Idle.dp = None /\ Idle.ip = None
    BY Last, Zenon
  <2>3. th'[p] = Idle /\ cwd' = cwd /\ ref' = ref /\ fd'[p] = i
    BY <2>1, Zenon DEF FsInv, TypeOK
  <2>4. KindOf(p)
    BY Of, Zenon
  <2> Counted(p)
    <3>1. \A j \in Inums : ref[j] \in Nat /\ j # None
      BY FsAssumption, Zenon DEF FsInv, TypeOK, None
    <3> QED
      BY <1>2, <2>2, <2>3, <3>1 DEF Counted, Uses, One, Holds
  <2> /\ cwd' \in [Procs -> Inums] /\ fd' \in [Procs -> Ptr]
      /\ \A q \in Procs \ {p} : cwd'[q] = cwd[q] /\ fd'[q] = fd[q]
    BY <2>1, <2>3, Zenon DEF FsInv, TypeOK, Ptr
  <2> inode[cwd'[p]].type = "dir" /\ (fd'[p] # None => inode[fd'[p]].type = "file")
    BY <2>3, <2>4, Zenon DEF KindOf
  <2> QED
    BY <2>1, <2>2, Ends, Zenon
<1> QED
  BY <1>1, <1>2, Zenon

\* ilock takes no lock from others: it is released in the same step.
LEMMA LocksIn ==
    ASSUME FsInv, NEW p \in Procs, NEW i \in Inums, ilock(i), ref' = ref, lock' = lock
    PROVE  Cached /\ Polite(p)
<1>1. valid' \in [Inums -> BOOLEAN]
  BY Zenon DEF FsInv, TypeOK, ilock
<1> QED
  BY <1>1, Zenon DEF FsInv, TypeOK, Cached, Polite

\* sys_open keeps the invariant, whether it opens the inode or puts it.
LEMMA OpenKeeps ==
    ASSUME FiniteFacts, FsInv, NEW p \in Procs, sys_open(p)
    PROVE  FsInv'
<1> DEFINE i == th[p].dp
<1>1. /\ th[p].pc = "inode" /\ ilock(i) /\ UNCHANGED <<disk, ref, cwd>> /\ lock' = lock
      /\ ref' = ref
      /\ IF inode[i].type = "dir"
         THEN th' = [th EXCEPT ![p] = PutReturn(i)] /\ UNCHANGED fd
         ELSE OpenFile(p, i)
  BY Zenon DEF sys_open, At
<1>2. i \in Inums /\ Holds(p, i) /\ Owes(th[p]) = None /\ inode[i].type # "none"
  <2>1. Shape(th[p]) /\ i \in Ptr /\ KindOf(p)
    BY Of, Zenon
  <2>2. Stage(th[p]) = "inode"
    BY <1>1, Zenon DEF Stage
  <2>3. th[p].put = None /\ i # None /\ th[p].ip = None
    BY <1>1, <2>1, <2>2, Zenon DEF Shape
  <2>4. Owes(th[p]) = None
    BY <2>2, Zenon DEF Owes
  <2>5. inode[i].type # "none"
    BY <2>1, <2>3, Zenon DEF KindOf
  <2>6. Holds(p, i)
    BY <2>3, Zenon DEF Holds
  <2> QED
    BY <2>1, <2>3, <2>4, <2>5, <2>6, Zenon DEF Ptr
<1>3. Cached /\ Polite(p)
  BY <1>1, <1>2, LocksIn, Zenon
<1>4. CASE inode[i].type = "dir"
  BY <1>1, <1>2, <1>3, <1>4, PutsBack, Zenon
<1>5. CASE inode[i].type # "dir"
  <2>1. inode[i].type = "file"
    BY <1>2, <1>5, Zenon DEF FsInv, TypeOK, Inode
  <2> QED
    BY <1>1, <1>2, <1>3, <1>5, <2>1, Opens, Zenon
<1> QED
  BY <1>4, <1>5, Zenon

\* sys_chdir keeps the invariant: the old directory is put, the new one kept.
LEMMA ChdirKeeps ==
    ASSUME FiniteFacts, FsInv, NEW p \in Procs, sys_chdir(p)
    PROVE  FsInv'
<1> DEFINE i == th[p].dp
<1>1. /\ th[p].pc = "inode" /\ ilock(i) /\ UNCHANGED <<disk, ref, fd>> /\ lock' = lock
      /\ ref' = ref /\ fd' = fd
      /\ IF inode[i].type # "dir"
         THEN th' = [th EXCEPT ![p] = PutReturn(i)] /\ UNCHANGED cwd
         ELSE /\ th' = [th EXCEPT ![p] = PutReturn(cwd[p])]
              /\ cwd' = [cwd EXCEPT ![p] = i]
  BY Zenon DEF sys_chdir, At
<1>2. i \in Inums /\ Holds(p, i) /\ Owes(th[p]) = None
  <2>1. Shape(th[p]) /\ i \in Ptr
    BY Of, Zenon
  <2>2. Stage(th[p]) = "inode"
    BY <1>1, Zenon DEF Stage
  <2>3. th[p].put = None /\ i # None /\ th[p].ip = None
    BY <1>1, <2>1, <2>2, Zenon DEF Shape
  <2>4. Owes(th[p]) = None
    BY <2>2, Zenon DEF Owes
  <2> QED
    BY <2>1, <2>3, <2>4, Zenon DEF Holds, Ptr
<1>3. Cached /\ Polite(p)
  BY <1>1, <1>2, LocksIn, Zenon
<1>4. CASE inode[i].type # "dir"
  BY <1>1, <1>2, <1>3, <1>4, PutsBack, Zenon
<1>5. CASE inode[i].type = "dir"
  <2>1. th' = [th EXCEPT ![p] = PutReturn(cwd[p])] /\ cwd' = [cwd EXCEPT ![p] = i]
    BY <1>1, <1>5, Zenon
  <2>2. KindOf(p) /\ cwd[p] \in Inums
    BY Of, Zenon
  <2> DEFINE u == PutReturn(cwd[p])
  <2>3. /\ u \in Thread /\ Shape(u) /\ Stage(u) = "idle"
        /\ u.put = cwd[p] /\ u.dp = None /\ u.ip = None
    BY <2>2, Last, Zenon
  <2> HIDE DEF u, i
  <2>4. th'[p] = u /\ cwd'[p] = i
    BY <2>1, Zenon DEF FsInv, TypeOK, u
  <2> Counted(p)
    <3>1. \A j \in Inums : ref[j] \in Nat /\ j # None
      BY FsAssumption, Zenon DEF FsInv, TypeOK, None
    <3> QED
      BY <1>1, <1>2, <2>3, <2>4, <3>1 DEF Counted, Uses, One, Holds
  <2> /\ cwd' \in [Procs -> Inums] /\ fd' \in [Procs -> Ptr]
      /\ \A q \in Procs \ {p} : cwd'[q] = cwd[q] /\ fd'[q] = fd[q]
    BY <1>1, <1>2, <2>1, Zenon DEF FsInv, TypeOK
  <2> inode[cwd'[p]].type = "dir" /\ (fd'[p] # None => inode[fd'[p]].type = "file")
    BY <1>1, <1>5, <2>2, <2>4, Zenon DEF KindOf
  <2> th' = [th EXCEPT ![p] = u] /\ UNCHANGED disk
    BY <1>1, <2>1, Zenon DEF u
  <2> QED
    BY <1>2, <1>3, <2>3, Ends, Zenon
<1> QED
  BY <1>4, <1>5, Zenon

\* A process that is in no call has no pointers but its directory and file.
LEMMA AtRest ==
    ASSUME FsInv, NEW p \in Procs, th[p].pc = "idle"
    PROVE  /\ th[p].dp = None /\ th[p].ip = None /\ th[p].put = None
           /\ Stage(th[p]) = "idle" /\ Owes(th[p]) = None
<1>1. Shape(th[p])
  BY Of, Zenon
<1>2. Stage(th[p]) = "idle"
  BY Zenon DEF Stage
<1>3. th[p].dp = None /\ th[p].ip = None /\ th[p].put = None
  BY <1>1, <1>2, Zenon DEF Shape
<1> QED
  BY <1>2, <1>3, Zenon DEF Owes

\* sys_close keeps the invariant: the pointer of the file is the one put.
LEMMA CloseKeeps ==
    ASSUME FiniteFacts, FsInv, NEW p \in Procs, sys_close(p)
    PROVE  FsInv'
<1>1. /\ th[p].pc = "idle" /\ fd[p] # None /\ UNCHANGED <<disk, ref, lock, valid, cwd>>
      /\ ref' = ref /\ lock' = lock /\ valid' = valid /\ cwd' = cwd /\ UNCHANGED disk
      /\ th' = [th EXCEPT ![p] = PutReturn(fd[p])] /\ fd' = [fd EXCEPT ![p] = None]
  BY Zenon DEF sys_close, At
<1>2. /\ th[p].dp = None /\ th[p].ip = None /\ th[p].put = None /\ Owes(th[p]) = None
  BY <1>1, AtRest, Zenon
<1>3. KindOf(p) /\ fd[p] \in Inums
  BY <1>1, Of, Zenon DEF Ptr
<1> DEFINE u == PutReturn(fd[p])
<1>4. /\ u \in Thread /\ Shape(u) /\ Stage(u) = "idle"
      /\ u.put = fd[p] /\ u.dp = None /\ u.ip = None
  BY <1>3, Last, Zenon
<1> HIDE DEF u
<1>5. th'[p] = u /\ fd'[p] = None
  BY <1>1, Zenon DEF FsInv, TypeOK, u
<1> Counted(p)
  <2>1. \A j \in Inums : ref[j] \in Nat /\ j # None
    BY FsAssumption, Zenon DEF FsInv, TypeOK, None
  <2> QED
    BY <1>1, <1>2, <1>4, <1>5, <2>1 DEF Counted, Uses, One
<1> /\ cwd' \in [Procs -> Inums] /\ fd' \in [Procs -> Ptr]
    /\ \A q \in Procs \ {p} : cwd'[q] = cwd[q] /\ fd'[q] = fd[q]
  BY <1>1, Zenon DEF FsInv, TypeOK, Ptr
<1> inode[cwd'[p]].type = "dir" /\ (fd'[p] # None => inode[fd'[p]].type = "file")
  BY <1>1, <1>3, <1>5, Zenon DEF KindOf
<1> Cached /\ Polite(p)
  BY <1>1, Zenon DEF FsInv, TypeOK, Cached, Polite
<1> th' = [th EXCEPT ![p] = u]
  BY <1>1, Zenon DEF u
<1> QED
  BY <1>1, <1>2, <1>4, Ends, Zenon

\* create keeps the invariant when it finds the name, opening or refusing it.
LEMMA ExistsKeeps ==
    ASSUME FiniteFacts, FsInv, NEW p \in Procs, exists(p)
    PROVE  FsInv'
<1> DEFINE i == th[p].ip
<1>1. /\ th[p].pc = "exists" /\ ilock(i) /\ UNCHANGED <<disk, ref, cwd>> /\ lock' = lock
      /\ ref' = ref
      /\ IF inode[i].type = "file" /\ Type(th[p]) = "file"
         THEN OpenFile(p, i)
         ELSE th' = [th EXCEPT ![p] = PutReturn(i)] /\ UNCHANGED fd
  BY Zenon DEF exists, At
<1>2. i \in Inums /\ Holds(p, i) /\ Owes(th[p]) = None
  <2>1. Shape(th[p]) /\ i \in Ptr
    BY Of, Zenon
  <2>2. Stage(th[p]) = "exists"
    BY <1>1, Zenon DEF Stage
  <2>3. th[p].put = None /\ i # None /\ th[p].dp = None
    BY <1>1, <2>1, <2>2, Zenon DEF Shape
  <2>4. Owes(th[p]) = None
    BY <2>2, Zenon DEF Owes
  <2> QED
    BY <2>1, <2>3, <2>4, Zenon DEF Holds, Ptr
<1>3. Cached /\ Polite(p)
  BY <1>1, <1>2, LocksIn, Zenon
<1>4. CASE inode[i].type = "file" /\ Type(th[p]) = "file"
  BY <1>1, <1>2, <1>3, <1>4, Opens, Zenon
<1>5. CASE ~(inode[i].type = "file" /\ Type(th[p]) = "file")
  BY <1>1, <1>2, <1>3, <1>5, PutsBack, Zenon
<1> QED
  BY <1>4, <1>5, Zenon

\* A holder gives a lock back.
LEMMA LockBack ==
    ASSUME FsInv, NEW p \in Procs, NEW i \in Inums, lock[i] = p,
           lock' = [lock EXCEPT ![i] = None], ref' = ref, valid' = valid
    PROVE  Cached /\ Polite(p)
BY Zenon DEF FsInv, TypeOK, Cached, Polite

\* The end of create keeps the invariant: the new inode is unlocked and used.
LEMMA CreatedKeeps ==
    ASSUME FiniteFacts, FsInv, NEW p \in Procs, created(p)
    PROVE  FsInv'
<1> DEFINE i == th[p].ip
<1>1. /\ th[p].pc = "created" /\ UNCHANGED <<disk, ref, cwd>> /\ ref' = ref /\ valid' = valid
      /\ lock' = [lock EXCEPT ![i] = None]
      /\ IF Type(th[p]) = "file"
         THEN OpenFile(p, i)
         ELSE th' = [th EXCEPT ![p] = PutReturn(i)] /\ UNCHANGED fd
  BY Zenon DEF created, At
<1>2. /\ i \in Inums /\ Holds(p, i) /\ Owes(th[p]) = None
      /\ lock[i] = p /\ inode[i].type = Type(th[p])
  <2>1. Shape(th[p]) /\ i \in Ptr /\ LockOf(p) /\ KindOf(p)
    BY Of, Zenon
  <2>2. Stage(th[p]) = "created"
    BY <1>1, Zenon DEF Stage
  <2>3. th[p].put = None /\ i # None /\ th[p].dp = None
    BY <1>1, <2>1, <2>2, Zenon DEF Shape
  <2>4. Owes(th[p]) = None
    BY <2>2, Zenon DEF Owes
  <2>5. lock[i] = p /\ inode[i].type = Type(th[p])
    BY <2>1, <2>2, Zenon DEF LockOf, KindOf
  <2> QED
    BY <2>1, <2>3, <2>4, <2>5, Zenon DEF Holds, Ptr
<1>3. Cached /\ Polite(p)
  BY <1>1, <1>2, LockBack, Zenon
<1>4. CASE Type(th[p]) = "file"
  BY <1>1, <1>2, <1>3, <1>4, Opens, Zenon
<1>5. CASE Type(th[p]) # "file"
  BY <1>1, <1>2, <1>3, <1>5, PutsBack, Zenon
<1> QED
  BY <1>4, <1>5, Zenon

\* The end of sys_link keeps the invariant.
LEMMA LinkedKeeps ==
    ASSUME FiniteFacts, FsInv, NEW p \in Procs, linked(p)
    PROVE  FsInv'
<1> DEFINE i == th[p].ip
<1>1. /\ th[p].pc = "linked" /\ UNCHANGED <<disk, ref, cwd, fd>>
      /\ ref' = ref /\ valid' = valid /\ lock' = lock
      /\ th' = [th EXCEPT ![p] = PutReturn(i)]
  BY Zenon DEF linked, At
<1>2. i \in Inums /\ Holds(p, i) /\ Owes(th[p]) = None
  <2>1. Shape(th[p]) /\ i \in Ptr
    BY Of, Zenon
  <2>2. Stage(th[p]) = "linked"
    BY <1>1, Zenon DEF Stage
  <2>3. th[p].put = None /\ i # None /\ th[p].dp = None
    BY <1>1, <2>1, <2>2, Zenon DEF Shape
  <2>4. Owes(th[p]) = None
    BY <2>2, Zenon DEF Owes
  <2> QED
    BY <2>1, <2>3, <2>4, Zenon DEF Holds, Ptr
<1>3. Cached /\ Polite(p)
  BY <1>1, Zenon DEF FsInv, TypeOK, Cached, Polite
<1> QED
  BY <1>1, <1>2, <1>3, PutsBack, Zenon

\* sys_unlink of a directory in use keeps the invariant: it unlocks and puts.
LEMMA NotEmptyKeeps ==
    ASSUME FiniteFacts, FsInv, NEW p \in Procs, notempty(p)
    PROVE  FsInv'
<1> DEFINE i == th[p].dp
<1>1. /\ th[p].pc = "notempty" /\ UNCHANGED <<disk, ref, cwd, fd>>
      /\ ref' = ref /\ valid' = valid /\ lock' = [lock EXCEPT ![i] = None]
      /\ th' = [th EXCEPT ![p] = PutReturn(i)]
  BY Zenon DEF notempty, At
<1>2. i \in Inums /\ Holds(p, i) /\ Owes(th[p]) = None /\ lock[i] = p
  <2>1. Shape(th[p]) /\ i \in Ptr /\ LockOf(p)
    BY Of, Zenon
  <2>2. Stage(th[p]) = "notempty"
    BY <1>1, Zenon DEF Stage
  <2>3. th[p].put = None /\ i # None /\ th[p].ip = None
    BY <1>1, <2>1, <2>2, Zenon DEF Shape
  <2>4. Owes(th[p]) = None /\ lock[i] = p
    BY <2>1, <2>2, Zenon DEF Owes, LockOf
  <2> QED
    BY <2>1, <2>3, <2>4, Zenon DEF Holds, Ptr
<1>3. Cached /\ Polite(p)
  BY <1>1, <1>2, LockBack, Zenon
<1> QED
  BY <1>1, <1>2, <1>3, PutsBack, Zenon

\* A directory entry names an inode that is allocated.
LEMMA EntryAllocated ==
    ASSUME FiniteFacts, FsInv, NEW d \in Inums, NEW n \in Names, inode[d].ent[n] # None
    PROVE  /\ inode[d].ent[n] \in Inums
           /\ inode[inode[d].ent[n]].type # "none" /\ inode[inode[d].ent[n]].nlink # 0
<1>1. inode[d].ent[n] \in Inums
  BY DEF FsInv, TypeOK, Inode, Ptr
<1> QED
  BY <1>1, Named, Zenon DEF FsInv

\* The name that a call looks up.
LEMMA FirstName ==
    ASSUME NEW path \in Seq(Names), path # <<>>
    PROVE  Head(path) \in Names /\ Tail(path) \in Seq(Names) /\ (Len(path) # 1 => Tail(path) # <<>>)
<1>1. Len(path) \in Nat /\ Len(path) # 0
  OBVIOUS
<1>2. Head(path) \in Names /\ Tail(path) \in Seq(Names) /\ Len(Tail(path)) = Len(path) - 1
  BY <1>1
<1>3. Len(<<>>) = 0
  BY Zenon
<1> QED
  BY <1>1, <1>2, <1>3

\* sys_link keeps the invariant when the new name is taken.
LEMMA TakenKeeps ==
    ASSUME FiniteFacts, FsInv, NEW p \in Procs, taken(p)
    PROVE  FsInv'
<1> DEFINE t == th[p]
           u == PutDp(t, t.ip, "bad")
<1>0. /\ t \in Thread /\ Shape(t) /\ LockOf(p) /\ KindOf(p) /\ t.pc = "taken"
      /\ t.dp \in Ptr /\ t.ip \in Ptr
      /\ t.call \in Calls \cup {NoCall} /\ t.path \in Seq(Names)
  BY Of, Zenon DEF taken, At
<1>1. u \in Thread
  BY <1>0, Records, Zenon DEF PCs
<1>2. /\ th' = [th EXCEPT ![p] = u] /\ cwd' = cwd /\ fd' = fd
      /\ lock' = [lock EXCEPT ![t.dp] = None]
      /\ valid' = valid /\ UNCHANGED disk /\ inode' = inode /\ ref' = ref
  BY Zenon DEF taken, disk
<1>3. Alone(p) /\ th'[p] = u
  BY <1>1, <1>2, AloneTh, Zenon DEF FsInv, TypeOK
<1>4. /\ u.dp = None /\ u.ip = t.ip /\ u.put = t.dp /\ u.call = t.call /\ u.path = t.path
      /\ u.pc = "put" /\ u.then = "bad"
  BY Zenon DEF PutDp, PutThen
<1>5. Stage(u) = "bad" /\ Stage(t) = "taken"
  BY <1>0, <1>4, Zenon DEF Stage
<1>6. t.dp \in Inums /\ t.ip # None /\ t.put = None /\ t.call \in Calls /\ t.dp # None
  BY <1>0, <1>5, Zenon DEF Shape, Ptr
<1> HIDE DEF u
<1>7. lock[t.dp] = p
  BY <1>0, <1>5, Zenon DEF LockOf
<1> Cached /\ Polite(p)
  BY <1>2, <1>6, <1>7, LockBack, Zenon
<1> Counted(p)
  <2>1. \A j \in Inums : ref[j] \in Nat /\ j # None
    BY FsAssumption, Zenon DEF FsInv, TypeOK, None
  <2> QED
    BY <1>2, <1>3, <1>4, <1>6, <2>1 DEF Counted, Uses, One
<1> Shape(u)
  BY <1>4, <1>5, <1>6, Zenon DEF Shape
<1> LockOf(p)'
  BY <1>3, <1>5, Zenon DEF LockOf
<1> KindOf(p)'
  BY <1>0, <1>2, <1>3, <1>4, <1>5, Zenon DEF KindOf
<1> Owes(u) = Owes(t)
  BY <1>4, <1>5, Zenon DEF Owes
<1> QED
  BY <1>2, <1>3, Quiet, Zenon DEF Polite

\* iget counts one pointer more.
LEMMA Gets ==
    ASSUME FsInv, NEW p \in Procs, NEW i \in Inums, iget(i), lock' = lock
    PROVE  Cached /\ Polite(p) /\ ref' = [ref EXCEPT ![i] = @ + 1]
<1>1. ref' = [ref EXCEPT ![i] = @ + 1] /\ ref' \in [Inums -> Nat]
  BY DEF FsInv, TypeOK, iget
<1>2. valid' \in [Inums -> BOOLEAN]
  BY Zenon DEF FsInv, TypeOK, iget
<1> QED
  BY <1>1, <1>2, Zenon DEF FsInv, TypeOK, Cached, Polite

\* The same after dirlookup has found i in the directory d, which was locked.
LEMMA Finds ==
    ASSUME FsInv, NEW d \in Inums, NEW i \in Inums,
           valid' = [valid EXCEPT ![d] = TRUE, ![i] = @ /\ ref[i] > 0]
    PROVE  valid' \in [Inums -> BOOLEAN]
<1>1. valid \in [Inums -> BOOLEAN]
  BY Zenon DEF FsInv, TypeOK
<1> QED
  BY <1>1, Zenon

\* What one more pointer does to the counts.
LEMMA CountsUp ==
    ASSUME FsInv, NEW i \in Inums, ref' = [ref EXCEPT ![i] = @ + 1]
    PROVE  ref' \in [Inums -> Nat] /\ \A j \in Inums : ref'[j] = ref[j] + One(i = j)
BY DEF FsInv, TypeOK, One

\* create keeps the invariant when dirlookup finds the name.
LEMMA CreateExistingKeeps ==
    ASSUME FiniteFacts, FsInv, NEW p \in Procs, createExisting(p)
    PROVE  FsInv'
<1> DEFINE t == th[p]
           i == dirlookup(t.dp, Head(t.path))
           u == PutDp(t, i, "exists")
<1>0. /\ t \in Thread /\ Shape(t) /\ KindOf(p) /\ t.pc = "parent"
      /\ t.dp \in Ptr /\ t.ip \in Ptr /\ t.path \in Seq(Names)
      /\ t.call \in Calls \cup {NoCall} /\ t.call.op \in {"creat", "mkdir"}
  BY Of, Zenon DEF createExisting, At
<1>1. Stage(t) = "parent"
  BY <1>0, Zenon DEF Stage
<1>2. /\ t.dp \in Inums /\ t.dp # None /\ t.ip = None /\ t.put = None /\ t.call \in Calls
      /\ t.path # <<>>
  BY <1>0, <1>1, Zenon DEF Shape, Ptr
<1>3. i \in Inums /\ i # None /\ inode[i].type # "none"
  <2>1. Head(t.path) \in Names
    BY <1>0, <1>2, FirstName, Zenon
  <2>2. i # None
    BY Zenon DEF createExisting
  <2> QED
    BY <1>2, <2>1, <2>2, EntryAllocated, Zenon DEF dirlookup
<1> HIDE DEF i
<1>4. /\ th' = [th EXCEPT ![p] = u] /\ cwd' = cwd /\ fd' = fd /\ lock' = lock
      /\ iget(i) /\ UNCHANGED disk /\ inode' = inode
  BY Zenon DEF createExisting, disk, i
<1>5. u \in Thread
  <2>1. i \in Ptr /\ "exists" \in PCs
    BY <1>3, Zenon DEF Ptr, PCs
  <2> QED
    BY <1>0, <2>1, Records, Zenon
<1>6. Alone(p) /\ th'[p] = u
  BY <1>4, <1>5, AloneTh, Zenon DEF FsInv, TypeOK
<1>7. /\ u.dp = None /\ u.ip = i /\ u.put = t.dp /\ u.call = t.call /\ u.path = t.path
      /\ u.pc = "put" /\ u.then = "exists"
  BY Zenon DEF PutDp, PutThen
<1>8. Stage(u) = "exists"
  BY <1>7, Zenon DEF Stage
<1> HIDE DEF u
<1>9. Cached /\ Polite(p) /\ ref' = [ref EXCEPT ![i] = @ + 1]
  BY <1>3, <1>4, Gets, Zenon
<1> Counted(p)
  <2>1. \A j \in Inums : ref[j] \in Nat /\ j # None
    BY FsAssumption, Zenon DEF FsInv, TypeOK, None
  <2>2. \A j \in Inums : ref'[j] = ref[j] + One(i = j)
    BY <1>3, <1>9, <2>1 DEF FsInv, TypeOK, One
  <2> QED
    BY <1>2, <1>3, <1>4, <1>6, <1>7, <2>1, <2>2 DEF Counted, Uses, One
<1> Shape(u)
  BY <1>2, <1>3, <1>7, <1>8, Zenon DEF Shape
<1> LockOf(p)'
  BY <1>6, <1>8, Zenon DEF LockOf
<1> KindOf(p)'
  BY <1>0, <1>3, <1>4, <1>6, <1>7, <1>8, Zenon DEF KindOf
<1> Owes(u) = Owes(t)
  BY <1>1, <1>2, <1>8, Zenon DEF Owes
<1> QED
  BY <1>4, <1>6, <1>9, Quiet, Zenon DEF Polite

\* The start of a system call keeps the invariant: namex counts its pointer.
LEMMA StartKeeps ==
    ASSUME FiniteFacts, FsInv, NEW p \in Procs, NEW c \in Calls, Start(p, c)
    PROVE  FsInv'
<1> DEFINE t == th[p]
           d == cwd[p]
           u == LookUp(c, c.path, d, None)
<1>1. /\ t.pc = "idle" /\ th' = [th EXCEPT ![p] = u] /\ cwd' = cwd /\ fd' = fd /\ lock' = lock
      /\ iget(d) /\ UNCHANGED disk /\ inode' = inode
  BY Zenon DEF Start, At, disk
<1>2. t.dp = None /\ t.ip = None /\ t.put = None /\ Stage(t) = "idle" /\ Owes(t) = None
  BY <1>1, AtRest, Zenon
<1>3. d \in Inums /\ KindOf(p) /\ d # None
  BY Of, FsAssumption, Zenon DEF None
<1>4. c.path \in Seq(Names) /\ c.path # <<>>
  BY CallAssumption, Zenon DEF Path
<1>5. u \in Thread
  <2>1. d \in Ptr /\ None \in Ptr /\ "namex" \in PCs /\ "idle" \in PCs
    BY <1>3, Zenon DEF Ptr, PCs
  <2> QED
    BY <1>4, <2>1, Zenon DEF LookUp, Thread
<1>6. Alone(p) /\ th'[p] = u
  BY <1>1, <1>5, AloneTh, Zenon DEF FsInv, TypeOK
<1>7. /\ u.dp = d /\ u.ip = None /\ u.put = None /\ u.call = c /\ u.path = c.path
      /\ u.pc = "namex" /\ u.then = "idle"
  BY Zenon DEF LookUp
<1>8. Stage(u) = "namex"
  BY <1>7, Zenon DEF Stage
<1> HIDE DEF u
<1>9. Cached /\ Polite(p) /\ ref' = [ref EXCEPT ![d] = @ + 1]
  BY <1>1, <1>3, Gets, Zenon
<1> Counted(p)
  <2>1. \A j \in Inums : ref[j] \in Nat /\ j # None
    BY FsAssumption, Zenon DEF FsInv, TypeOK, None
  <2>2. \A j \in Inums : ref'[j] = ref[j] + One(d = j)
    BY <1>3, <1>9, <2>1 DEF FsInv, TypeOK, One
  <2> QED
    BY <1>1, <1>2, <1>6, <1>7, <2>1, <2>2 DEF Counted, Uses, One
<1> Shape(u)
  BY <1>3, <1>4, <1>7, <1>8, Zenon DEF Shape
<1> LockOf(p)'
  BY <1>6, <1>8, Zenon DEF LockOf
<1> KindOf(p)'
  BY <1>1, <1>3, <1>6, <1>7, <1>8, Zenon DEF KindOf
<1> Owes(u) = Owes(t)
  BY <1>2, <1>7, <1>8, Zenon DEF Owes
<1> QED
  BY <1>1, <1>6, <1>9, Quiet, Zenon DEF Polite

\* A turn of namex keeps the invariant, whichever way it leaves the loop.
LEMMA NamexKeeps ==
    ASSUME FiniteFacts, FsInv, NEW p \in Procs, namex(p)
    PROVE  FsInv'
\* namex: the parent of the last element is found.
<1>a. ASSUME th[p].pc = "namex", ilock(th[p].dp), inode[th[p].dp].type = "dir",
             WantsParent(th[p]), th' = [th EXCEPT ![p].pc = "parent"], ref' = ref, lock' = lock,
             cwd' = cwd, fd' = fd, UNCHANGED disk
      PROVE  FsInv'
  <2> DEFINE t == th[p]
             u == GoOn(t, t.dp, t.ip, "parent")
  <2>0. /\ t \in Thread /\ Shape(t) /\ KindOf(p) /\ t.dp \in Ptr /\ t.ip \in Ptr
        /\ t.path \in Seq(Names) /\ t.call \in Calls \cup {NoCall}
    BY Of, Zenon
  <2>1. Stage(t) = "namex"
    BY <1>a, Zenon DEF Stage
  <2>2. /\ t.dp \in Inums /\ t.dp # None /\ t.put = None /\ t.then = "idle" /\ t.call \in Calls
        /\ t.path # <<>>
    BY <1>a, <2>0, <2>1, Zenon DEF Shape, Ptr
  <2>3. u \in Thread
    BY <2>0, Records, Zenon DEF PCs
  <2>4. th' = [th EXCEPT ![p] = u]
    <3>1. [t EXCEPT !.pc = "parent"] = u
      BY <2>0, <2>2 DEF GoOn, Thread
    <3> QED
      BY <1>a, <3>1, Zenon
  <2>5. Alone(p) /\ th'[p] = u
    BY <1>a, <2>3, <2>4, AloneTh, Zenon DEF FsInv, TypeOK
  <2>6. /\ u.dp = t.dp /\ u.ip = t.ip /\ u.put = None /\ u.call = t.call /\ u.path = t.path
        /\ u.pc = "parent" /\ u.then = "idle"
    BY Zenon DEF GoOn
  <2>7. Stage(u) = "parent"
    BY <2>6, Zenon DEF Stage
  <2> HIDE DEF u
  <2> Cached /\ Polite(p)
    BY <1>a, <2>2, LocksIn, Zenon
  <2> Counted(p)
    <3>1. \A j \in Inums : ref[j] \in Nat /\ j # None
      BY FsAssumption, Zenon DEF FsInv, TypeOK, None
    <3> QED
      BY <1>a, <2>2, <2>5, <2>6, <3>1 DEF Counted, Uses, One
  <2> Shape(u)
    <3>1. t.ip # None => t.call.op = "link"
      BY <2>0, <2>1, Zenon DEF Shape
    <3>2. t.ip = None => t.call.op \in {"creat", "mkdir", "unlink"}
      BY <1>a, Zenon DEF WantsParent
    <3> QED
      BY <2>2, <2>6, <2>7, <3>1, <3>2, Zenon DEF Shape
  <2> LockOf(p)'
    BY <2>5, <2>7, Zenon DEF LockOf
  <2> KindOf(p)'
    BY <1>a, <2>0, <2>1, <2>5, <2>6, <2>7, Zenon DEF KindOf, disk
  <2> Owes(u) = Owes(t)
    BY <2>1, <2>6, <2>7, Zenon DEF Owes
  <2> QED
    BY <1>a, <2>5, Quiet, Zenon DEF Polite
\* A look-up for link's new name, which failed.
<1>b. ASSUME th[p].pc = "namex", ilock(th[p].dp), th[p].ip # None,
             th' = [th EXCEPT ![p] = PutDp(th[p], th[p].ip, "bad")], ref' = ref, lock' = lock,
             cwd' = cwd, fd' = fd, UNCHANGED disk
      PROVE  FsInv'
  <2> DEFINE t == th[p]
             u == PutDp(t, t.ip, "bad")
  <2>0. /\ t \in Thread /\ Shape(t) /\ KindOf(p) /\ t.dp \in Ptr /\ t.ip \in Ptr
        /\ t.path \in Seq(Names) /\ t.call \in Calls \cup {NoCall}
    BY Of, Zenon
  <2>1. Stage(t) = "namex"
    BY <1>b, Zenon DEF Stage
  <2>2. t.dp \in Inums /\ t.dp # None /\ t.put = None /\ t.call \in Calls
    BY <1>b, <2>0, <2>1, Zenon DEF Shape, Ptr
  <2>3. u \in Thread
    BY <2>0, Records, Zenon DEF PCs
  <2>5. Alone(p) /\ th'[p] = u
    BY <1>b, <2>3, AloneTh, Zenon DEF FsInv, TypeOK
  <2>6. /\ u.dp = None /\ u.ip = t.ip /\ u.put = t.dp /\ u.call = t.call /\ u.path = t.path
        /\ u.pc = "put" /\ u.then = "bad"
    BY Zenon DEF PutDp, PutThen
  <2>7. Stage(u) = "bad"
    BY <2>6, Zenon DEF Stage
  <2> HIDE DEF u
  <2> Cached /\ Polite(p)
    BY <1>b, <2>2, LocksIn, Zenon
  <2> Counted(p)
    <3>1. \A j \in Inums : ref[j] \in Nat /\ j # None
      BY FsAssumption, Zenon DEF FsInv, TypeOK, None
    <3> QED
      BY <1>b, <2>2, <2>5, <2>6, <3>1 DEF Counted, Uses, One
  <2> Shape(u)
    BY <1>b, <2>2, <2>6, <2>7, Zenon DEF Shape
  <2> LockOf(p)'
    BY <2>5, <2>7, Zenon DEF LockOf
  <2> KindOf(p)'
    BY <1>b, <2>0, <2>1, <2>5, <2>6, <2>7, Zenon DEF KindOf, disk
  <2> Owes(u) = Owes(t)
    BY <2>1, <2>6, <2>7, Zenon DEF Owes
  <2> QED
    BY <1>b, <2>5, Quiet, Zenon DEF Polite
\* namex goes on with the next inode.
<1>c. ASSUME th[p].pc = "namex", NEW pc \in {"inode", "namex"}, NEW i,
             i = dirlookup(th[p].dp, Head(th[p].path)), i # None, pc = "inode" => th[p].ip = None,
             pc = "namex" => Len(th[p].path) # 1,
             th' = [th EXCEPT ![p] = PutThen(th[p], Tail(th[p].path), i, th[p].ip, th[p].dp, pc)],
             ref' = [ref EXCEPT ![i] = @ + 1],
             valid' = [valid EXCEPT ![th[p].dp] = TRUE, ![i] = @ /\ ref[i] > 0], lock' = lock,
             cwd' = cwd, fd' = fd, UNCHANGED disk
      PROVE  FsInv'
  <2> DEFINE t == th[p]
             u == PutThen(t, Tail(t.path), i, t.ip, t.dp, pc)
  <2>0. /\ t \in Thread /\ Shape(t) /\ KindOf(p) /\ t.dp \in Ptr /\ t.ip \in Ptr
        /\ t.path \in Seq(Names) /\ t.call \in Calls \cup {NoCall}
    BY Of, Zenon
  <2>1. Stage(t) = "namex"
    BY <1>c, Zenon DEF Stage
  <2>2. /\ t.dp \in Inums /\ t.dp # None /\ t.put = None /\ t.call \in Calls /\ t.path # <<>>
    BY <1>c, <2>0, <2>1, Zenon DEF Shape, Ptr
  <2>3. /\ Head(t.path) \in Names /\ Tail(t.path) \in Seq(Names)
        /\ (pc = "namex" => Tail(t.path) # <<>>)
    BY <1>c, <2>0, <2>2, FirstName, Zenon
  <2>4. i \in Inums /\ inode[i].type # "none"
    BY <1>c, <2>2, <2>3, EntryAllocated, Zenon DEF dirlookup
  <2>5. u \in Thread
    <3>1. i \in Ptr /\ pc \in PCs
      BY <2>4, Zenon DEF Ptr, PCs
    <3> QED
      BY <2>0, <2>3, <3>1, PutRecord, Zenon
  <2>6. Alone(p) /\ th'[p] = u
    BY <1>c, <2>5, AloneTh, Zenon DEF FsInv, TypeOK
  <2>7. /\ u.dp = i /\ u.ip = t.ip /\ u.put = t.dp /\ u.call = t.call /\ u.path = Tail(t.path)
        /\ u.pc = "put" /\ u.then = pc
    BY Zenon DEF PutThen
  <2>8. Stage(u) = pc
    BY <2>7, Zenon DEF Stage
  <2> HIDE DEF u
  <2>9. ref' \in [Inums -> Nat] /\ \A j \in Inums : ref'[j] = ref[j] + One(i = j)
    BY <1>c, <2>4, CountsUp, Zenon
  <2>10. valid' \in [Inums -> BOOLEAN]
    BY <1>c, <2>2, <2>4, Finds, Zenon
  <2> Cached /\ Polite(p)
    <3>1. lock' \in [Inums -> Procs \cup {None}]
      BY <1>c, Zenon DEF FsInv, TypeOK
    <3> QED
      BY <1>c, <2>9, <2>10, <3>1, Zenon DEF Cached, Polite
  <2> Counted(p)
    <3> SUFFICES ASSUME NEW j \in Inums
                 PROVE  ref'[j] + Uses(p, j) = ref[j] + Uses(p, j)'
      BY Zenon DEF Counted
    <3>1. ref[j] \in Nat /\ j # None /\ ref'[j] = ref[j] + One(i = j)
      BY <2>9, FsAssumption, Zenon DEF FsInv, TypeOK, None
    <3>2. /\ cwd'[p] = cwd[p] /\ fd'[p] = fd[p] /\ th[p].put = None
          /\ th'[p].dp = i /\ th'[p].ip = th[p].ip /\ th'[p].put = th[p].dp
      BY <1>c, <2>2, <2>6, <2>7, Zenon
    <3> QED
      BY <3>1, <3>2 DEF Uses, One
  <2> Shape(u)
    <3>1. t.ip # None => t.call.op = "link"
      BY <2>0, <2>1, Zenon DEF Shape
    <3> QED
      BY <1>c, <2>2, <2>3, <2>7, <2>8, <3>1, Zenon DEF Shape
  <2> LockOf(p)'
    BY <2>6, <2>8, Zenon DEF LockOf
  <2> KindOf(p)'
    BY <1>c, <2>0, <2>1, <2>4, <2>6, <2>7, <2>8, Zenon DEF KindOf, disk
  <2> Owes(u) = Owes(t)
    BY <1>c, <2>1, <2>7, <2>8, Zenon DEF Owes
  <2> QED
    BY <1>c, <2>6, Quiet, Zenon DEF Polite
<1> DEFINE t == th[p]
           d == t.dp
           next == dirlookup(d, Head(t.path))
<1>1. /\ t.pc = "namex" /\ UNCHANGED disk /\ lock' = lock /\ cwd' = cwd /\ fd' = fd
      /\ UNCHANGED <<disk, cwd, fd>>
  BY Zenon DEF namex, At
<1>2. CASE inode[d].type = "dir" /\ WantsParent(t) /\ Len(t.path) = 1
  <2>1. ilock(d) /\ th' = [th EXCEPT ![p].pc = "parent"] /\ ref' = ref
    BY <1>2, Zenon DEF namex
  <2> QED
    BY <1>1, <1>2, <2>1, <1>a, Zenon
<1>3. CASE ~(inode[d].type = "dir" /\ WantsParent(t) /\ Len(t.path) = 1)
           /\ (inode[d].type # "dir" \/ next = None)
  <2>1. /\ ilock(d) /\ ref' = ref
        /\ th' = [th EXCEPT ![p] = IF t.ip = None THEN PutReturn(d) ELSE PutDp(t, t.ip, "bad")]
    BY <1>3, Zenon DEF namex
  <2>2. CASE t.ip # None
    BY <1>1, <2>1, <2>2, <1>b, Zenon
  <2>3. CASE t.ip = None
    <3>1. Shape(t) /\ d \in Ptr
      BY Of, Zenon
    <3>2. Stage(t) = "namex"
      BY <1>1, Zenon DEF Stage
    <3>3. t.put = None /\ d # None
      BY <1>1, <3>1, <3>2, Zenon DEF Shape
    <3>4. d \in Inums /\ Holds(p, d) /\ Owes(t) = None
      BY <2>3, <3>1, <3>2, <3>3, Zenon DEF Holds, Owes, Ptr
    <3> Cached /\ Polite(p)
      BY <1>1, <2>1, <3>4, LocksIn, Zenon
    <3> th' = [th EXCEPT ![p] = PutReturn(d)]
      BY <2>1, <2>3, Zenon
    <3> UNCHANGED <<disk, ref, cwd, fd>>
      BY <1>1, <2>1, Zenon
    <3> QED
      BY <3>4, PutsBack, Zenon
  <2> QED
    BY <2>2, <2>3, Zenon
<1>4. CASE ~(inode[d].type = "dir" /\ WantsParent(t) /\ Len(t.path) = 1)
           /\ ~(inode[d].type # "dir" \/ next = None)
  <2> DEFINE pc == IF Len(t.path) = 1 THEN "inode" ELSE "namex"
  <2> /\ ref' = [ref EXCEPT ![next] = @ + 1]
      /\ valid' = [valid EXCEPT ![d] = TRUE, ![next] = @ /\ ref[next] > 0]
      /\ th' = [th EXCEPT ![p] = PutThen(t, Tail(t.path), next, t.ip, d, pc)]
    BY <1>4, Zenon DEF namex
  <2> pc \in {"inode", "namex"} /\ (pc = "namex" => Len(t.path) # 1)
    BY Zenon
  <2> pc = "inode" => t.ip = None
    BY <1>4, Zenon DEF WantsParent
  <2> next # None
    BY <1>4, Zenon
  <2> HIDE DEF pc, next
  <2> next = dirlookup(d, Head(t.path))
    BY Zenon DEF next
  <2> QED
    BY <1>1, <1>c, Zenon
<1> QED
  BY <1>2, <1>3, <1>4, Zenon

\* sys_unlink keeps the invariant as it looks the name up.
LEMMA UnlinkKeeps ==
    ASSUME FiniteFacts, FsInv, NEW p \in Procs, sys_unlink(p)
    PROVE  FsInv'
\* unlink finds the name, and keeps the directory locked.
<1>a. ASSUME th[p].pc = "parent", th[p].call.op = "unlink", lock[th[p].dp] = None, NEW i,
             i = dirlookup(th[p].dp, Head(th[p].path)), i # None,
             th' = [th EXCEPT ![p] = GoOn(th[p], th[p].dp, i, "found")],
             ref' = [ref EXCEPT ![i] = @ + 1],
             valid' = [valid EXCEPT ![th[p].dp] = TRUE, ![i] = @ /\ ref[i] > 0],
             lock' = [lock EXCEPT ![th[p].dp] = p], cwd' = cwd, fd' = fd, UNCHANGED disk
      PROVE  FsInv'
  <2> DEFINE t == th[p]
             u == GoOn(t, t.dp, i, "found")
  <2>0. /\ t \in Thread /\ Shape(t) /\ KindOf(p) /\ t.dp \in Ptr /\ t.ip \in Ptr
        /\ t.path \in Seq(Names) /\ t.call \in Calls \cup {NoCall}
    BY Of, Zenon
  <2>1. Stage(t) = "parent"
    BY <1>a, Zenon DEF Stage
  <2>2. /\ t.dp \in Inums /\ t.dp # None /\ t.put = None /\ t.call \in Calls /\ t.path # <<>>
        /\ t.ip = None
    BY <1>a, <2>0, <2>1, Zenon DEF Shape, Ptr
  <2>3. Head(t.path) \in Names
    BY <2>0, <2>2, FirstName, Zenon
  <2>4. i \in Inums /\ inode[i].type # "none" /\ inode[t.dp].ent[Head(t.path)] = i
    BY <1>a, <2>2, <2>3, EntryAllocated, Zenon DEF dirlookup
  <2>5. u \in Thread
    <3>1. i \in Ptr /\ "found" \in PCs
      BY <2>4, Zenon DEF Ptr, PCs
    <3> QED
      BY <2>0, <3>1, Records, Zenon
  <2>6. Alone(p) /\ th'[p] = u
    BY <1>a, <2>5, AloneTh, Zenon DEF FsInv, TypeOK
  <2>7. /\ u.dp = t.dp /\ u.ip = i /\ u.put = None /\ u.call = t.call /\ u.path = t.path
        /\ u.pc = "found" /\ u.then = "idle"
    BY Zenon DEF GoOn
  <2>8. Stage(u) = "found"
    BY <2>7, Zenon DEF Stage
  <2> HIDE DEF u
  <2>9. ref' \in [Inums -> Nat] /\ \A j \in Inums : ref'[j] = ref[j] + One(i = j)
    BY <1>a, <2>4, CountsUp, Zenon
  <2>10. valid' \in [Inums -> BOOLEAN]
    BY <1>a, <2>2, <2>4, Finds, Zenon
  <2>11. /\ lock' \in [Inums -> Procs \cup {None}] /\ lock'[t.dp] = p
         /\ \A j \in Inums : lock[j] \in Procs => lock'[j] = lock[j]
    BY <1>a, <2>2, FsAssumption, Zenon DEF FsInv, TypeOK
  <2> Cached /\ Polite(p)
    BY <2>9, <2>10, <2>11, Zenon DEF Cached, Polite
  <2> Counted(p)
    <3> \A j \in Inums : ref[j] \in Nat /\ j # None
      BY FsAssumption, Zenon DEF FsInv, TypeOK, None
    <3> cwd'[p] = cwd[p] /\ fd'[p] = fd[p]
      BY <1>a, Zenon
    <3> QED
      BY <2>2, <2>6, <2>7, <2>9 DEF Counted, Uses, One
  <2> Shape(u)
    BY <1>a, <2>2, <2>7, <2>8, Zenon DEF Shape
  <2> LockOf(p)'
    BY <1>a, <2>4, <2>6, <2>7, <2>8, <2>11, Zenon DEF LockOf, disk
  <2> KindOf(p)'
    BY <1>a, <2>0, <2>4, <2>6, <2>7, <2>8, Zenon DEF KindOf, disk
  <2> Owes(u) = Owes(t)
    BY <2>1, <2>2, <2>8, Zenon DEF Owes
  <2> QED
    BY <1>a, <2>6, Quiet, Zenon DEF Polite
<1> DEFINE t == th[p]
           d == t.dp
           i == dirlookup(d, Head(t.path))
<1>1. /\ t.pc = "parent" /\ t.call.op = "unlink" /\ lock[d] = None
      /\ UNCHANGED disk /\ cwd' = cwd /\ fd' = fd
  BY Zenon DEF sys_unlink, At, CanLock
<1>2. CASE i # None
  <2> /\ lock' = [lock EXCEPT ![d] = p]
      /\ th' = [th EXCEPT ![p] = GoOn(t, d, i, "found")]
      /\ ref' = [ref EXCEPT ![i] = @ + 1]
      /\ valid' = [valid EXCEPT ![d] = TRUE, ![i] = @ /\ ref[i] > 0]
    BY <1>2, Zenon DEF sys_unlink
  <2> HIDE DEF i
  <2> i = dirlookup(d, Head(t.path))
    BY Zenon DEF i
  <2> QED
    BY <1>1, <1>2, <1>a, Zenon
<1>3. CASE i = None
  <2>1. th' = [th EXCEPT ![p] = PutReturn(d)] /\ ref' = ref /\ lock' = lock /\ ilock(d)
    BY <1>1, <1>3, Zenon DEF sys_unlink, ilock, CanLock
  <2>2. Shape(t) /\ d \in Ptr
    BY Of, Zenon
  <2>3. Stage(t) = "parent"
    BY <1>1, Zenon DEF Stage
  <2>4. t.put = None /\ d # None /\ t.ip = None
    BY <1>1, <2>2, <2>3, Zenon DEF Shape
  <2>5. d \in Inums /\ Holds(p, d) /\ Owes(t) = None
    BY <2>2, <2>3, <2>4, Zenon DEF Holds, Owes, Ptr
  <2> Cached /\ Polite(p)
    BY <2>1, <2>5, LocksIn, Zenon
  <2> UNCHANGED <<disk, ref, cwd, fd>>
    BY <1>1, <2>1, Zenon
  <2> QED
    BY <2>1, <2>5, PutsBack, Zenon
<1> QED
  BY <1>2, <1>3, Zenon
-----------------------------------------------------------------------------
\* Steps that change the disk

\* A step of p keeps the invariant if it changes inodes that are not locked by
\* others and types that others have no pointers to.
LEMMA Changes ==
    ASSUME FiniteFacts, FsInv, NEW p \in Procs, Alone(p), Cached, Counted(p), Polite(p),
           Shape(th'[p]), LockOf(p)', KindOf(p)',
           inode' \in [Inums -> Inode], bitmap' \subseteq Blocks,
           \A i \in Inums : Cardinality(inode'[i].blocks) <= MAXFILE,
           \A i \in Inums : lock[i] \in Procs \ {p} => inode'[i].ent = inode[i].ent,
           \A q \in Procs \ {p} :
             /\ inode'[cwd[q]].type = inode[cwd[q]].type
             /\ fd[q] # None => inode'[fd[q]].type = inode[fd[q]].type
             /\ th[q].dp # None => inode'[th[q].dp].type = inode[th[q].dp].type
             /\ th[q].ip # None => inode'[th[q].ip].type = inode[th[q].ip].type,
           Blank', Links', BlocksExact'
    PROVE  FsInv'
<1> TypeOK'
  BY Zenon DEF TypeOK, Cached, Alone
<1> RefsExact'
  BY RefsStep, Zenon DEF FsInv, TypeOK, Cached, Counted
<1> Shapes'
  BY ShapesStep, Zenon DEF FsInv
<1> Locks'
  BY LocksStep, Zenon DEF FsInv, Polite
<1> Kinds'
  BY KindsStep, Zenon DEF FsInv
<1> QED
  BY Zenon DEF FsInv

\* Inode i has m links after the step, and nothing else on disk changes.
NowLinked(i, m) == bitmap' = bitmap /\ inode' = [inode EXCEPT ![i].nlink = m]

\* The links of one inode that is in use change.
LEMMA Relinks ==
    ASSUME FiniteFacts, FsInv, NEW p \in Procs, Alone(p), Cached, Counted(p), Polite(p),
           Shape(th'[p]), LockOf(p)', KindOf(p)',
           NEW i \in Inums, NEW m \in Nat, NowLinked(i, m),
           inode[i].type # "none",
           m + One(Owes(th[p]) = i) = inode[i].nlink + One(Owes(th'[p]) = i),
           \A j \in Inums \ {i} : Owes(th[p]) # j /\ Owes(th'[p]) # j
    PROVE  FsInv'
<1>0. inode' = [inode EXCEPT ![i].nlink = m] /\ bitmap' = bitmap
  BY Zenon DEF NowLinked
<1>1. inode \in [Inums -> Inode] /\ inode' \in [Inums -> Inode]
  <2>1. inode \in [Inums -> Inode] /\ inode[i] \in Inode
    BY Zenon DEF FsInv, TypeOK
  <2>2. [inode[i] EXCEPT !.nlink = m] \in Inode
    BY <2>1 DEF Inode
  <2> QED
    BY <1>0, <2>1, <2>2, Zenon
<1>2. \A j \in Inums :
        /\ inode'[j].type = inode[j].type /\ inode'[j].ent = inode[j].ent
        /\ inode'[j].blocks = inode[j].blocks
        /\ inode'[j].nlink = IF j = i THEN m ELSE inode[j].nlink
        /\ j # i => inode'[j] = inode[j]
  BY <1>0, <1>1, Zenon DEF Inode
<1> Blank'
  BY <1>2, Zenon DEF FsInv, Blank
<1> Links'
  <2>1. \A j \in Inums : inode[j].nlink \in Nat
    BY <1>1, Zenon DEF Inode
  <2>2. ASSUME NEW j \in Inums
        PROVE  /\ inode'[j].nlink \in Nat
               /\ inode'[j].nlink + One(Owes(th[p]) = j) = inode[j].nlink + One(Owes(th'[p]) = j)
    <3>1. CASE j = i
      BY <1>2, <3>1, Zenon
    <3>2. CASE j # i
      BY <1>2, <2>1, <3>2, Zenon DEF One
    <3> QED
      BY <3>1, <3>2, Zenon
  <2> QED
    BY <1>2, <2>2, LinksSame, Zenon DEF FsInv
<1> BlocksExact'
  BY <1>0, <1>2 DEF FsInv, BlocksExact
<1> bitmap' \subseteq Blocks /\ \A j \in Inums : Cardinality(inode'[j].blocks) <= MAXFILE
  BY <1>0, <1>2, Zenon DEF FsInv, TypeOK
<1>7. ASSUME NEW q \in Procs \ {p}
      PROVE  /\ inode'[cwd[q]].type = inode[cwd[q]].type
             /\ fd[q] # None => inode'[fd[q]].type = inode[fd[q]].type
             /\ th[q].dp # None => inode'[th[q].dp].type = inode[th[q].dp].type
             /\ th[q].ip # None => inode'[th[q].ip].type = inode[th[q].ip].type
  <2>1. cwd[q] \in Inums /\ fd[q] \in Ptr /\ th[q].dp \in Ptr /\ th[q].ip \in Ptr
    BY Of, Zenon
  <2> QED
    BY <1>2, <2>1, Zenon DEF Ptr
<1> QED
  BY <1>1, <1>2, <1>7, Changes, Zenon

\* A call takes back the link of the only pointer it has, and puts it.
LEMMA Unlinks ==
    ASSUME FiniteFacts, FsInv, NEW p \in Procs, NEW i \in Inums, Holds(p, i), Owes(th[p]) = i,
           inode' = [inode EXCEPT ![i].nlink = @ - 1],
           th' = [th EXCEPT ![p] = PutReturn(i)], UNCHANGED <<bitmap, ref, cwd, fd>>,
           Cached, Polite(p)
    PROVE  FsInv'
\* A call that owes an inode a name finds it linked.
<1>a. inode[i].nlink - 1 \in Nat /\ inode[i].nlink \in Nat /\ inode[i].type # "none"
  <2>1. p \in Owners(i)
    BY Zenon DEF Owners
  <2>2. inode[i].nlink # 0 /\ inode[i].type # "none"
    BY <2>1, Named, Zenon DEF FsInv
  <2>3. inode[i].nlink \in Nat
    BY Zenon DEF FsInv, TypeOK, Inode
  <2> QED
    BY <2>2, <2>3
<1> DEFINE u == PutReturn(i)
           m == inode[i].nlink - 1
<1>1. /\ u \in Thread /\ Shape(u) /\ Stage(u) = "idle" /\ u.put = i /\ u.dp = None /\ u.ip = None
  BY Last, Zenon
<1> HIDE DEF u
<1>2. Alone(p) /\ th'[p] = u
  BY <1>1, AloneTh, Zenon DEF FsInv, TypeOK, u
<1>3. KindOf(p)
  BY Of, Zenon
<1> Counted(p)
  <2>1. \A j \in Inums : ref[j] \in Nat /\ j # None
    BY FsAssumption, Zenon DEF FsInv, TypeOK, None
  <2> QED
    BY <1>1, <1>2, <2>1 DEF Counted, Uses, One, Holds
<1>5. LockOf(p)' /\ Owes(u) = None
  BY <1>1, <1>2, Zenon DEF LockOf, Owes
<1>6. m \in Nat /\ inode[i].nlink \in Nat /\ inode[i].type # "none"
  BY <1>a, Zenon
<1>7. \A j \in Inums : inode'[j].type = inode[j].type
  BY DEF FsInv, TypeOK, Inode
<1> KindOf(p)'
  <2>1. cwd[p] \in Inums /\ (fd[p] # None => fd[p] \in Inums) /\ cwd' = cwd /\ fd' = fd
    BY Of, Zenon DEF Ptr
  <2> QED
    BY <1>1, <1>2, <1>3, <1>7, <2>1, Zenon DEF KindOf
<1> /\ m + One(Owes(th[p]) = i) = inode[i].nlink + One(Owes(th'[p]) = i)
    /\ \A j \in Inums \ {i} : Owes(th[p]) # j /\ Owes(th'[p]) # j
  <2>1. \A j \in Inums : j # None
    BY FsAssumption, Zenon DEF None
  <2> QED
    BY <1>2, <1>5, <1>6, <2>1 DEF One
<1> NowLinked(i, m)
  BY Zenon DEF NowLinked
<1> Shape(th'[p])
  BY <1>1, <1>2, Zenon
<1> HIDE DEF m
<1> QED
  BY <1>2, <1>5, <1>6, Relinks, Zenon

\* sys_link keeps the invariant when it takes its link back.
LEMMA BadKeeps ==
    ASSUME FiniteFacts, FsInv, NEW p \in Procs, bad(p)
    PROVE  FsInv'
<1> DEFINE i == th[p].ip
<1>1. /\ th[p].pc = "bad" /\ ilock(i) /\ UNCHANGED <<bitmap, ref, cwd, fd>>
      /\ ref' = ref /\ lock' = lock
      /\ inode' = [inode EXCEPT ![i].nlink = @ - 1] /\ th' = [th EXCEPT ![p] = PutReturn(i)]
  BY Zenon DEF bad, At
<1>2. i \in Inums /\ Holds(p, i) /\ Owes(th[p]) = i
  <2>1. Shape(th[p]) /\ i \in Ptr
    BY Of, Zenon
  <2>2. Stage(th[p]) = "bad"
    BY <1>1, Zenon DEF Stage
  <2>3. th[p].put = None /\ i # None /\ th[p].dp = None
    BY <1>1, <2>1, <2>2, Zenon DEF Shape
  <2>4. Owes(th[p]) = i
    BY <2>2, Zenon DEF Owes
  <2> QED
    BY <2>1, <2>3, <2>4, Zenon DEF Holds, Ptr
<1>3. Cached /\ Polite(p)
  BY <1>1, <1>2, LocksIn, Zenon
<1> QED
  BY <1>1, <1>2, <1>3, Unlinks, Zenon

\* sys_unlink keeps the invariant when it gives up the link of the name.
LEMMA UnlinkedKeeps ==
    ASSUME FiniteFacts, FsInv, NEW p \in Procs, unlinked(p)
    PROVE  FsInv'
<1> DEFINE i == th[p].ip
<1>1. /\ th[p].pc = "unlinked" /\ UNCHANGED <<bitmap, ref, cwd, fd>>
      /\ ref' = ref /\ valid' = valid /\ lock' = [lock EXCEPT ![i] = None]
      /\ inode' = [inode EXCEPT ![i].nlink = @ - 1] /\ th' = [th EXCEPT ![p] = PutReturn(i)]
  BY Zenon DEF unlinked, At
<1>2. i \in Inums /\ Holds(p, i) /\ Owes(th[p]) = i /\ lock[i] = p
  <2>1. Shape(th[p]) /\ i \in Ptr /\ LockOf(p)
    BY Of, Zenon
  <2>2. Stage(th[p]) = "unlinked"
    BY <1>1, Zenon DEF Stage
  <2>3. th[p].put = None /\ i # None /\ th[p].dp = None
    BY <1>1, <2>1, <2>2, Zenon DEF Shape
  <2>4. Owes(th[p]) = i /\ lock[i] = p
    BY <2>1, <2>2, Zenon DEF Owes, LockOf
  <2> QED
    BY <2>1, <2>3, <2>4, Zenon DEF Holds, Ptr
<1>3. Cached /\ Polite(p)
  BY <1>1, <1>2, LockBack, Zenon
<1> QED
  BY <1>1, <1>2, <1>3, Unlinks, Zenon

\* sys_link keeps the invariant as it links the inode before it has the name.
LEMMA LinkKeeps ==
    ASSUME FiniteFacts, FsInv, NEW p \in Procs, sys_link(p)
    PROVE  FsInv'
\* sys_link: the file gets its link, and the new name is looked up.
<1>a. ASSUME NEW i \in Inums, i = th[p].dp, th[p].pc = "inode", th[p].call.op = "link",
             inode[i].type = "file", inode' = [inode EXCEPT ![i].nlink = @ + 1],
             th' = [th EXCEPT ![p] = LookUp(@.call, @.call.new, cwd[p], i)],
             ref' = [ref EXCEPT ![cwd[p]] = @ + 1], valid' \in [Inums -> BOOLEAN], lock' = lock,
             bitmap' = bitmap, cwd' = cwd, fd' = fd
      PROVE  FsInv'
  <2> DEFINE t == th[p]
             d == cwd[p]
             u == LookUp(t.call, t.call.new, d, i)
             m == inode[i].nlink + 1
  <2>0. /\ t \in Thread /\ Shape(t) /\ KindOf(p) /\ t.ip \in Ptr /\ d \in Inums /\ fd[p] \in Ptr
    BY Of, Zenon
  <2>1. Stage(t) = "inode"
    BY <1>a, Zenon DEF Stage
  <2>2. i # None /\ t.put = None /\ t.call \in Calls /\ t.ip = None /\ d # None
    BY <1>a, <2>0, <2>1, FsAssumption, Zenon DEF Shape, None
  <2>3. t.call.new \in Seq(Names) /\ t.call.new # <<>>
    BY <1>a, <2>2, CallAssumption, Zenon DEF Path
  <2>4. u \in Thread
    <3>1. d \in Ptr /\ i \in Ptr /\ None \in Ptr /\ "namex" \in PCs /\ "idle" \in PCs
      BY <2>0, Zenon DEF Ptr, PCs
    <3> QED
      BY <2>2, <2>3, <3>1, Zenon DEF LookUp, Thread
  <2>5. /\ u.dp = d /\ u.ip = i /\ u.put = None /\ u.call = t.call /\ u.path = t.call.new
        /\ u.pc = "namex" /\ u.then = "idle"
    BY Zenon DEF LookUp
  <2>6. th' = [th EXCEPT ![p] = u]
    BY <1>a, Zenon
  <2> HIDE DEF u
  <2>7. Alone(p) /\ th'[p] = u
    BY <1>a, <2>4, <2>6, AloneTh, Zenon DEF FsInv, TypeOK
  <2>8. Stage(u) = "namex"
    BY <2>5, Zenon DEF Stage
  <2>9. ref' \in [Inums -> Nat] /\ \A j \in Inums : ref'[j] = ref[j] + One(d = j)
    BY <1>a, <2>0, CountsUp, Zenon
  <2> Cached /\ Polite(p)
    <3>1. lock' \in [Inums -> Procs \cup {None}]
      BY <1>a, Zenon DEF FsInv, TypeOK
    <3> QED
      BY <1>a, <2>9, <3>1, Zenon DEF Cached, Polite
  <2> Counted(p)
    <3>1. \A j \in Inums : ref[j] \in Nat /\ j # None
      BY FsAssumption, Zenon DEF FsInv, TypeOK, None
    <3> QED
      BY <1>a, <2>2, <2>5, <2>7, <2>9, <3>1 DEF Counted, Uses, One
  <2>12. Shape(u)
    BY <1>a, <2>2, <2>3, <2>5, <2>8, Zenon DEF Shape
  <2> LockOf(p)'
    BY <2>7, <2>8, Zenon DEF LockOf
  <2>14. \A j \in Inums : inode'[j].type = inode[j].type
    BY <1>a, Zenon DEF FsInv, TypeOK, Inode
  <2> KindOf(p)'
    <3>1. /\ inode'[d].type = "dir" /\ inode'[i].type = "file"
          /\ fd[p] # None => inode'[fd[p]].type = "file"
      BY <1>a, <2>0, <2>14, Zenon DEF KindOf, Ptr
    <3> QED
      BY <1>a, <2>5, <2>7, <2>8, <3>1, Zenon DEF KindOf
  <2> /\ m \in Nat /\ m + One(Owes(t) = i) = inode[i].nlink + One(Owes(th'[p]) = i)
      /\ \A j \in Inums \ {i} : Owes(t) # j /\ Owes(th'[p]) # j
    <3>1. Owes(t) = None /\ Owes(th'[p]) = i
      BY <2>1, <2>5, <2>7, <2>8, Zenon DEF Owes
    <3>2. inode[i].nlink \in Nat /\ \A j \in Inums : j # None
      BY FsAssumption, Zenon DEF FsInv, TypeOK, Inode, None
    <3> QED
      BY <3>1, <3>2 DEF One
  <2> NowLinked(i, m)
    BY <1>a, Zenon DEF NowLinked
  <2> Shape(th'[p]) /\ inode[i].type # "none"
    BY <1>a, <2>7, <2>12, Zenon
  <2> HIDE DEF m, t
  <2> QED
    BY <2>7, Relinks, Zenon DEF t
<1> DEFINE i == th[p].dp
<1>1. /\ th[p].pc = "inode" /\ th[p].call.op = "link" /\ CanLock(i)
      /\ bitmap' = bitmap /\ lock' = lock /\ cwd' = cwd /\ fd' = fd
  BY Zenon DEF sys_link, At
<1>2. i \in Inums /\ Holds(p, i) /\ Owes(th[p]) = None /\ inode[i].type # "none"
  <2>1. Shape(th[p]) /\ i \in Ptr /\ KindOf(p)
    BY Of, Zenon
  <2>2. Stage(th[p]) = "inode"
    BY <1>1, Zenon DEF Stage
  <2>3. th[p].put = None /\ i # None /\ th[p].ip = None
    BY <1>1, <2>1, <2>2, Zenon DEF Shape
  <2>4. Owes(th[p]) = None
    BY <2>2, Zenon DEF Owes
  <2>5. inode[i].type # "none"
    BY <2>1, <2>3, Zenon DEF KindOf
  <2> QED
    BY <2>1, <2>3, <2>4, <2>5, Zenon DEF Holds, Ptr
<1>3. CASE inode[i].type = "dir"
  <2>1. /\ th' = [th EXCEPT ![p] = PutReturn(i)] /\ ilock(i) /\ inode' = inode /\ ref' = ref
    BY <1>1, <1>3, Zenon DEF sys_link, ilock
  <2> Cached /\ Polite(p)
    BY <1>1, <1>2, <2>1, LocksIn, Zenon
  <2> UNCHANGED <<disk, ref, cwd, fd>>
    BY <1>1, <2>1, Zenon DEF disk
  <2> QED
    BY <1>2, <2>1, PutsBack, Zenon
<1>4. CASE inode[i].type # "dir"
  <2> /\ inode' = [inode EXCEPT ![i].nlink = @ + 1]
      /\ th' = [th EXCEPT ![p] = LookUp(@.call, @.call.new, cwd[p], i)]
      /\ ref' = [ref EXCEPT ![cwd[p]] = @ + 1]
    BY <1>4, Zenon DEF sys_link
  <2>2. valid' = [valid EXCEPT ![i] = TRUE]
    BY <1>4, Zenon DEF sys_link
  <2> valid' \in [Inums -> BOOLEAN]
    BY <2>2, Zenon DEF FsInv, TypeOK
  <2> inode[i].type = "file"
    BY <1>2, <1>4, Zenon DEF FsInv, TypeOK, Inode
  <2> QED
    BY <1>1, <1>2, <1>a, Zenon
<1> QED
  BY <1>3, <1>4, Zenon

\* filewrite keeps the invariant: the block was free and is one inode's.
LEMMA WriteKeeps ==
    ASSUME FiniteFacts, FsInv, NEW p \in Procs, sys_write(p)
    PROVE  FsInv'
<1> DEFINE i == fd[p]
<1>1. PICK b \in Blocks : b \notin bitmap /\ bitmap' = bitmap \cup {b} /\ inode' = bmap(i, b)
  BY Zenon DEF sys_write, balloc
<1>2. /\ th[p].pc = "idle" /\ i # None /\ ilock(i) /\ Cardinality(inode[i].blocks) < MAXFILE
      /\ ref' = ref /\ lock' = lock /\ cwd' = cwd /\ fd' = fd /\ th' = th
  BY Zenon DEF sys_write, At
<1>3. i \in Inums /\ Shape(th[p]) /\ KindOf(p) /\ LockOf(p) /\ Stage(th[p]) = "idle"
  BY <1>2, Of, AtRest, Zenon DEF Ptr
<1>4. Alone(p)
  BY <1>2, Zenon DEF FsInv, TypeOK, Alone
<1> Cached /\ Polite(p)
  BY <1>2, <1>3, LocksIn, Zenon
<1> Counted(p)
  <2>1. \A j \in Inums : ref[j] \in Nat
    BY Zenon DEF FsInv, TypeOK
  <2> QED
    BY <1>2, <2>1, Zenon DEF Counted, Uses, One
<1>7. inode \in [Inums -> Inode] /\ inode' \in [Inums -> Inode]
  <2>1. inode \in [Inums -> Inode]
    BY Zenon DEF FsInv, TypeOK
  <2>2. inode[i] \in Inode /\ inode[i].blocks \cup {b} \in SUBSET Blocks
    BY <1>3, <2>1, Zenon DEF Inode
  <2>3. inode' = [inode EXCEPT ![i] = [inode[i] EXCEPT !.blocks = inode[i].blocks \cup {b}]]
    BY <1>1, Zenon DEF bmap
  <2>4. [inode[i] EXCEPT !.blocks = inode[i].blocks \cup {b}] \in Inode
    BY <2>2, Zenon DEF Inode
  <2> QED
    BY <2>1, <2>3, <2>4, Zenon
<1>8. \A j \in Inums :
        /\ inode'[j].type = inode[j].type /\ inode'[j].ent = inode[j].ent
        /\ inode'[j].nlink = inode[j].nlink /\ (j # i => inode'[j] = inode[j])
  BY <1>1, <1>3, <1>7, Zenon DEF Inode, bmap
<1>9. inode'[i].blocks = inode[i].blocks \cup {b} /\ inode[i].blocks \subseteq Blocks
  BY <1>1, <1>3, <1>7 DEF Inode, bmap
<1> KindOf(p)'
  <2>1. cwd[p] \in Inums /\ th[p].dp \in Ptr /\ th[p].ip \in Ptr
    BY Of, Zenon
  <2> QED
    BY <1>2, <1>3, <1>8, <2>1, Zenon DEF KindOf, Ptr
<1> Shape(th'[p]) /\ LockOf(p)'
  BY <1>2, <1>3, Zenon DEF LockOf
<1> \A j \in Inums : Cardinality(inode'[j].blocks) <= MAXFILE
  <2>1. inode[i].blocks \subseteq bitmap
    BY <1>3, Zenon DEF FsInv, BlocksExact
  <2>2. IsFiniteSet(inode[i].blocks) /\ Cardinality(inode[i].blocks) \in Nat
    BY <1>9, FsAssumption, Zenon DEF FiniteFacts, SubsetFinite, CardinalityNat
  <2>3. Cardinality(inode'[i].blocks) = Cardinality(inode[i].blocks) + 1
    BY <1>1, <1>9, <2>1, <2>2, Zenon DEF FiniteFacts, OneMore
  <2>4. Cardinality(inode'[i].blocks) <= MAXFILE
    BY <1>2, <2>2, <2>3, FsAssumption
  <2> QED
    BY <1>8, <2>4, Zenon DEF FsInv, TypeOK
<1> Blank'
  <2>1. inode[i].type # "none"
    BY <1>2, <1>3, Zenon DEF KindOf
  <2> QED
    BY <1>8, <2>1, Zenon DEF FsInv, Blank
<1> Links'
  <2>1. \A j \in Inums : inode[j].nlink \in Nat
    BY <1>7, Zenon DEF Inode
  <2> QED
    BY <1>2, <1>4, <1>8, <2>1, LinksSame, Zenon DEF FsInv
<1> BlocksExact'
  <2>1. bitmap = UNION {inode[j].blocks : j \in Inums}
    BY Zenon DEF FsInv, BlocksExact
  <2>2. \A j \in Inums : inode[j].blocks \subseteq bitmap
    BY <2>1, Zenon
  <2>3. \A j, k \in Inums : j # k => inode[j].blocks \cap inode[k].blocks = {}
    BY Zenon DEF FsInv, BlocksExact
  <2>4. \A j, k \in Inums : j # k => inode'[j].blocks \cap inode'[k].blocks = {}
    BY <1>1, <1>3, <1>8, <1>9, <2>2, <2>3
  <2>5. \A x : x \in bitmap' <=> \E j \in Inums : x \in inode'[j].blocks
    BY <1>1, <1>3, <1>8, <1>9, <2>1
  <2> QED
    BY <2>4, <2>5 DEF BlocksExact
<1> bitmap' \subseteq Blocks
  BY <1>1, Zenon DEF FsInv, TypeOK
<1>17. ASSUME NEW q \in Procs \ {p}
       PROVE  /\ inode'[cwd[q]].type = inode[cwd[q]].type
              /\ fd[q] # None => inode'[fd[q]].type = inode[fd[q]].type
              /\ th[q].dp # None => inode'[th[q].dp].type = inode[th[q].dp].type
              /\ th[q].ip # None => inode'[th[q].ip].type = inode[th[q].ip].type
  <2>1. cwd[q] \in Inums /\ fd[q] \in Ptr /\ th[q].dp \in Ptr /\ th[q].ip \in Ptr
    BY Of, Zenon
  <2> QED
    BY <1>8, <2>1, Zenon DEF Ptr
<1> QED
  BY <1>4, <1>7, <1>8, <1>17, Changes, Zenon

\* The call of p goes from iput to what is left of it.
LEMMA Unrefs ==
    ASSUME FsInv, NEW p \in Procs, th[p].pc = "put", th' = [th EXCEPT ![p].pc = "unref"],
           cwd' = cwd, fd' = fd, ref' = ref
    PROVE  /\ Alone(p) /\ Counted(p) /\ Shape(th'[p]) /\ th[p].put \in Inums
           /\ Stage(th'[p]) = Stage(th[p]) /\ th'[p].dp = th[p].dp /\ th'[p].ip = th[p].ip
           /\ th'[p].path = th[p].path /\ th'[p].call = th[p].call
           /\ Owes(th'[p]) = Owes(th[p])
<1> DEFINE t == th[p]
           u == th'[p]
<1>1. t \in Thread /\ Shape(t) /\ t.put \in Ptr
  BY Of, Zenon
<1>2. u \in Thread /\ u = [t EXCEPT !.pc = "unref"]
  BY <1>1, Zenon DEF FsInv, TypeOK, Thread, PCs
<1>3. /\ u.dp = t.dp /\ u.ip = t.ip /\ u.put = t.put /\ u.call = t.call /\ u.path = t.path
      /\ u.pc = "unref" /\ u.then = t.then
  BY <1>1, <1>2 DEF Thread
<1>4. th' = [th EXCEPT ![p] = u]
  BY <1>2, Zenon
<1> Alone(p)
  BY <1>2, <1>4, AloneTh, Zenon DEF FsInv, TypeOK
<1>6. Stage(u) = Stage(t)
  BY <1>3, Zenon DEF Stage
<1> Shape(u) /\ t.put \in Inums
  BY <1>1, <1>3, <1>6, Zenon DEF Shape, Ptr
<1> Counted(p)
  <2>1. \A j \in Inums : ref[j] \in Nat
    BY Zenon DEF FsInv, TypeOK
  <2> QED
    BY <1>3, <2>1, Zenon DEF Counted, Uses, One
<1> Owes(u) = Owes(t)
  BY <1>3, <1>6, Zenon DEF Owes
<1> QED
  BY <1>3, <1>6, Zenon

\* iput keeps the invariant, whether or not it frees the inode.
LEMMA PutKeeps ==
    ASSUME FiniteFacts, FsInv, NEW p \in Procs, iput(p)
    PROVE  FsInv'
\* iput of the last pointer to an inode without links.
<1>a. ASSUME th[p].pc = "put", NEW i, i = th[p].put, lock[i] = None, inode[i].nlink = 0,
             ref[i] = 1, inode' = [inode EXCEPT ![i] = Free], bitmap' = bitmap \ inode[i].blocks,
             valid' \in [Inums -> BOOLEAN], th' = [th EXCEPT ![p].pc = "unref"], ref' = ref,
             lock' = lock, cwd' = cwd, fd' = fd
      PROVE  FsInv'
  \* Freeing an inode without links leaves every name covered.
  <2>a. ASSUME Alone(p), Owes(th'[p]) = Owes(th[p]), i \in Inums
        PROVE  Links'
    <3> SUFFICES ASSUME NEW j \in Inums
                 PROVE  Cardinality(NamesOf(j)') + Cardinality(SubDirs(j)') + Cardinality(Owners(j)')
                          <= inode'[j].nlink
      BY Zenon DEF Links
    <3>1. inode \in [Inums -> Inode] /\ inode'[i] = Free /\ \A k \in Inums \ {i} : inode'[k] = inode[k]
      BY <1>a, <2>a, Zenon DEF FsInv, TypeOK
    <3>2. /\ inode'[j].nlink = inode[j].nlink /\ inode[j].nlink \in Nat
          /\ \A k \in Inums : inode'[k].type = "dir" => inode[k].type = "dir"
      BY <1>a, <2>a, <3>1, Zenon DEF Free, Inode
    <3>3. \A k \in Inums, n \in Names : inode'[k].ent[n] # None => inode'[k].ent[n] = inode[k].ent[n]
      BY <3>1 DEF Free, NoEntries
    <3>4. NamesOf(j)' \subseteq NamesOf(j)
      <4>1. j # None
        BY FsAssumption, Zenon DEF None
      <4> QED
        BY <3>3, <4>1 DEF NamesOf
    <3>5. SubDirs(j)' \subseteq SubDirs(j)
      <4>1. \A n \in Names : inode[j].ent[n] # None => inode[j].ent[n] \in Inums
        BY <3>1 DEF Inode, Ptr
      <4> QED
        BY <3>2, <3>3, <4>1, Zenon DEF SubDirs
    <3>6. /\ Cardinality(NamesOf(j)') <= Cardinality(NamesOf(j))
          /\ Cardinality(SubDirs(j)') <= Cardinality(SubDirs(j))
          /\ Cardinality(NamesOf(j)) \in Nat /\ Cardinality(NamesOf(j)') \in Nat
          /\ Cardinality(SubDirs(j)) \in Nat /\ Cardinality(SubDirs(j)') \in Nat
      BY <3>4, <3>5, NamesFinite, Zenon DEF FiniteFacts, SubsetFinite
    <3>7. /\ Cardinality(Owners(j)) \in Nat /\ Cardinality(Owners(j)') \in Nat
          /\ Cardinality(Owners(j)') + One(Owes(th[p]) = j)
               = Cardinality(Owners(j)) + One(Owes(th'[p]) = j)
      BY <2>a, OwnersStep, Zenon
    <3>8. One(Owes(th[p]) = j) \in Nat /\ One(Owes(th[p]) = j) = One(Owes(th'[p]) = j)
      BY <2>a, Zenon DEF One
    <3>9. Cardinality(NamesOf(j)) + Cardinality(SubDirs(j)) + Cardinality(Owners(j)) <= inode[j].nlink
      BY Zenon DEF FsInv, Links
    <3> QED
      BY <3>2, <3>6, <3>7, <3>8, <3>9
  <2>1. /\ Alone(p) /\ Counted(p) /\ Shape(th'[p]) /\ i \in Inums
        /\ Stage(th'[p]) = Stage(th[p]) /\ th'[p].dp = th[p].dp /\ th'[p].ip = th[p].ip
        /\ th'[p].path = th[p].path /\ th'[p].call = th[p].call
        /\ Owes(th'[p]) = Owes(th[p])
    BY <1>a, Unrefs, Zenon
  <2>2. ref[i] \in Nat
    BY <2>1, Zenon DEF FsInv, TypeOK
  <2>3. /\ cwd[p] # i /\ fd[p] # i /\ th[p].dp # i /\ th[p].ip # i
        /\ \A q \in Procs \ {p} :
             cwd[q] # i /\ fd[q] # i /\ th[q].dp # i /\ th[q].ip # i /\ th[q].put # i
    BY <1>a, <2>1, <2>2, Pointers, Zenon DEF FsInv
  <2>4. inode \in [Inums -> Inode] /\ inode'[i] = Free /\ \A j \in Inums \ {i} : inode'[j] = inode[j]
    BY <1>a, <2>1, Zenon DEF FsInv, TypeOK
  <2> inode' \in [Inums -> Inode]
    <3>1. Free \in Inode
      BY Zenon DEF Free, NoEntries, Inode, Ptr
    <3> QED
      BY <1>a, <2>4, <3>1, Zenon
  <2> Cached /\ Polite(p)
    BY <1>a, Zenon DEF FsInv, TypeOK, Cached, Polite
  <2>7. Shape(th[p]) /\ LockOf(p) /\ KindOf(p) /\ cwd[p] \in Inums /\ fd[p] \in Ptr
        /\ th[p].dp \in Ptr /\ th[p].ip \in Ptr
    BY Of, Zenon
  <2> LockOf(p)'
    <3>1. Stage(th[p]) = "found" => th[p].dp \in Inums
      BY <2>7, Zenon DEF Shape, Ptr
    <3>2. Stage(th[p]) = "found" => inode'[th[p].dp].ent = inode[th[p].dp].ent
      BY <2>3, <2>4, <3>1, Zenon
    <3> QED
      BY <1>a, <2>1, <2>7, <3>2, Zenon DEF LockOf
  <2> KindOf(p)'
    <3> /\ inode'[cwd[p]] = inode[cwd[p]]
        /\ fd[p] # None => inode'[fd[p]] = inode[fd[p]]
        /\ th[p].dp # None => inode'[th[p].dp] = inode[th[p].dp]
        /\ th[p].ip # None => inode'[th[p].ip] = inode[th[p].ip]
      BY <2>3, <2>4, <2>7, Zenon DEF Ptr
    <3> Stage(th[p]) = "created" => th[p].ip # None
      BY <2>7, Zenon DEF Shape
    <3> Type(th'[p]) = Type(th[p])
      BY <2>1, Zenon DEF Type
    <3> QED
      BY <1>a, <2>1, <2>7 DEF KindOf
  <2>10. ASSUME NEW q \in Procs \ {p}
         PROVE  /\ inode'[cwd[q]].type = inode[cwd[q]].type
                /\ fd[q] # None => inode'[fd[q]].type = inode[fd[q]].type
                /\ th[q].dp # None => inode'[th[q].dp].type = inode[th[q].dp].type
                /\ th[q].ip # None => inode'[th[q].ip].type = inode[th[q].ip].type
    <3>1. cwd[q] \in Inums /\ fd[q] \in Ptr /\ th[q].dp \in Ptr /\ th[q].ip \in Ptr
      BY Of, Zenon
    <3> QED
      BY <2>3, <2>4, <3>1, Zenon DEF Ptr
  <2> \A j \in Inums : lock[j] \in Procs \ {p} => inode'[j].ent = inode[j].ent
    BY <1>a, <2>4, FsAssumption, Zenon
  <2> \A j \in Inums : Cardinality(inode'[j].blocks) <= MAXFILE
    <3>0. inode'[i].blocks = {} /\ Cardinality({}) = 0
      BY <2>4 DEF Free, FiniteFacts, EmptyCounts
    <3>1. Cardinality(inode'[i].blocks) = 0 /\ MAXFILE \in Nat
      BY <3>0, FsAssumption, Zenon
    <3> QED
      BY <2>4, <3>1 DEF FsInv, TypeOK
  <2> bitmap' \subseteq Blocks
    BY <1>a, Zenon DEF FsInv, TypeOK
  <2> Blank'
    BY <2>4, Zenon DEF FsInv, Blank
  <2> Links'
    BY <2>1, <2>a, Zenon
  <2> BlocksExact'
    <3>1. bitmap = UNION {inode[j].blocks : j \in Inums}
      BY Zenon DEF FsInv, BlocksExact
    <3>2. \A j, k \in Inums : j # k => inode[j].blocks \cap inode[k].blocks = {}
      BY Zenon DEF FsInv, BlocksExact
    <3>3. inode'[i].blocks = {}
      BY <2>4 DEF Free
    <3>4. \A j, k \in Inums : j # k => inode'[j].blocks \cap inode'[k].blocks = {}
      BY <2>4, <3>2, <3>3, Zenon
    <3>5. \A x : x \in bitmap' <=> \E j \in Inums : x \in inode'[j].blocks
      BY <1>a, <2>1, <2>4, <3>1, <3>2, <3>3
    <3> QED
      BY <3>4, <3>5 DEF BlocksExact
  <2> QED
    BY <2>1, <2>10, Changes, Zenon
<1> DEFINE i == th[p].put
           dead == valid[i] /\ inode[i].nlink = 0 /\ ref[i] = 1
<1>1. /\ th[p].pc = "put" /\ lock[i] = None /\ th' = [th EXCEPT ![p].pc = "unref"]
      /\ ref' = ref /\ lock' = lock /\ cwd' = cwd /\ fd' = fd
      /\ inode' = IF dead THEN [inode EXCEPT ![i] = Free] ELSE inode
      /\ bitmap' = IF dead THEN bitmap \ inode[i].blocks ELSE bitmap
  BY Zenon DEF iput, At, CanLock, itrunc
<1>2. valid' \in [Inums -> BOOLEAN]
  <2>1. valid' = [valid EXCEPT ![i] = @ /\ ~dead]
    BY Zenon DEF iput
  <2>2. valid \in [Inums -> BOOLEAN]
    BY Zenon DEF FsInv, TypeOK
  <2> HIDE DEF dead
  <2> QED
    BY <2>1, <2>2, Zenon
<1>3. CASE dead
  <2>1. /\ inode' = [inode EXCEPT ![i] = Free] /\ bitmap' = bitmap \ inode[i].blocks
        /\ inode[i].nlink = 0 /\ ref[i] = 1
    BY <1>1, <1>3, Zenon
  <2> QED
    BY <1>1, <1>2, <2>1, <1>a, Zenon
<1>4. CASE ~dead
  <2>1. inode' = inode /\ bitmap' = bitmap /\ UNCHANGED disk
    BY <1>1, <1>4, Zenon DEF disk
  <2>2. /\ Alone(p) /\ Counted(p) /\ Shape(th'[p]) /\ i \in Inums
        /\ Stage(th'[p]) = Stage(th[p]) /\ th'[p].dp = th[p].dp /\ th'[p].ip = th[p].ip
        /\ th'[p].path = th[p].path /\ th'[p].call = th[p].call
        /\ Owes(th'[p]) = Owes(th[p])
    BY <1>1, Unrefs, Zenon
  <2> Cached /\ Polite(p)
    BY <1>1, <1>2, Zenon DEF FsInv, TypeOK, Cached, Polite
  <2>4. LockOf(p) /\ KindOf(p)
    BY Of, Zenon
  <2> LockOf(p)'
    BY <1>1, <2>1, <2>2, <2>4, Zenon DEF LockOf
  <2>6. Type(th'[p]) = Type(th[p])
    BY <2>2, Zenon DEF Type
  <2> KindOf(p)'
    BY <1>1, <2>1, <2>2, <2>4, <2>6, Zenon DEF KindOf
  <2> QED
    BY <2>1, <2>2, Quiet, Zenon DEF Polite
<1> QED
  BY <1>3, <1>4, Zenon
-----------------------------------------------------------------------------
\* Steps that change a directory

\* The links change by the names, the directories and the calls that an entry
\* of d concerns.
Balanced(p, d, n, v) ==
    \A j \in Inums :
      inode'[j].nlink + One(inode[d].ent[n] = j) + One(j = d /\ DirAt(d, n))
          + One(Owes(th[p]) = j)
        = inode[j].nlink + One(v = j) + One(j = d /\ DirAt(d, n)')
          + One(Owes(th'[p]) = j)

\* The inodes that other entries name keep their types.
KeepTypes(d, n) ==
    \A j \in Inums, m \in Names :
      (j # d \/ m # n) /\ inode[j].ent[m] # None =>
        inode'[inode[j].ent[m]].type = inode[inode[j].ent[m]].type

\* A step that sets an entry keeps the names covered, if the links balance.
LEMMA EntryCovered ==
    ASSUME FiniteFacts, FsInv, NEW p \in Procs, Alone(p), NEW d \in Inums, NEW n \in Names, NEW v \in Ptr,
           Enters(d, n, v), KeepTypes(d, n), Balanced(p, d, n, v)
    PROVE  Links'
\* Setting an entry takes a name from one inode and gives one to another.
<1>a. ASSUME TypeOK, NEW i \in Inums
      PROVE  Cardinality(NamesOf(i)') + One(inode[d].ent[n] = i)
               = Cardinality(NamesOf(i)) + One(v = i)
  <2> DEFINE S == Inums \X Names
             F == [x \in S |-> inode[x[1]].ent[x[2]]]
             G == [x \in S |-> inode'[x[1]].ent[x[2]]]
  <2>1. {x \in S : F[x] = i} = NamesOf(i) /\ {x \in S : G[x] = i} = NamesOf(i)'
    BY Zenon DEF NamesOf
  <2>2. inode'[d].ent[n] = v /\ \A m \in Names \ {n} : inode'[d].ent[m] = inode[d].ent[m]
    BY Zenon DEF Enters, TypeOK, Inode
  <2>3. ASSUME NEW x \in S \ {<<d, n>>} PROVE G[x] = F[x]
    <3>1. PICK j \in Inums, m \in Names : x = <<j, m>>
      BY <2>3
    <3>2. G[x] = inode'[j].ent[m] /\ F[x] = inode[j].ent[m]
      BY <3>1, Zenon
    <3>3. CASE j = d
      BY <2>2, <2>3, <3>1, <3>2, <3>3, Zenon
    <3>4. CASE j # d
      BY <3>2, <3>4 DEF Enters
    <3> QED
      BY <3>3, <3>4, Zenon
  <2>4. F[<<d, n>>] = inode[d].ent[n] /\ G[<<d, n>>] = v /\ <<d, n>> \in S /\ IsFiniteSet(S)
    BY <2>2, FsAssumption, Zenon DEF FiniteFacts, ProductFinite
  <2> HIDE DEF S, F, G
  <2>5. Count(S, G, i) + One(F[<<d, n>>] = i) = Count(S, F, i) + One(G[<<d, n>>] = i)
    BY <2>3, <2>4, CountChange
  <2> QED
    BY <2>1, <2>4, <2>5, Zenon DEF Count
\* Setting an entry changes the directories of d by the two inodes concerned, if
\* the inodes that have other names keep their types.
<1>b. ASSUME TypeOK,
             \A j \in Inums, m \in Names :
               (j # d \/ m # n) /\ inode[j].ent[m] # None =>
                 inode'[inode[j].ent[m]].type = inode[inode[j].ent[m]].type
      PROVE  /\ \A j \in Inums \ {d} : SubDirs(j)' = SubDirs(j)
             /\ Cardinality(SubDirs(d)') + One(DirAt(d, n))
                  = Cardinality(SubDirs(d)) + One(DirAt(d, n)')
  <2>1. /\ \A j \in Inums : \A m \in Names : (j # d \/ m # n) => (DirAt(j, m)' <=> DirAt(j, m))
    <3> SUFFICES ASSUME NEW j \in Inums, NEW m \in Names, j # d \/ m # n
                 PROVE  DirAt(j, m)' <=> DirAt(j, m)
      BY Zenon
    <3>1. inode'[j].ent[m] = inode[j].ent[m]
      BY Zenon DEF Enters, TypeOK, Inode
    <3>2. inode[j].ent[m] # None => inode'[inode[j].ent[m]].type = inode[inode[j].ent[m]].type
      BY <1>b, Zenon
    <3> QED
      BY <3>1, <3>2, Zenon DEF DirAt
  <2>2. \A j \in Inums : /\ SubDirs(j) = {m \in Names : DirAt(j, m)}
                         /\ SubDirs(j)' = {m \in Names : DirAt(j, m)'}
    BY Zenon DEF SubDirs, DirAt
  <2> \A j \in Inums \ {d} : SubDirs(j)' = SubDirs(j)
    BY <2>1, <2>2, Zenon
  <2> DEFINE F == [m \in Names |-> One(DirAt(d, m))]
             G == [m \in Names |-> One(DirAt(d, m)')]
  <2>4. \A m \in Names : (F[m] = 1 <=> DirAt(d, m)) /\ (G[m] = 1 <=> DirAt(d, m)')
    BY DEF One
  <2> {m \in Names : F[m] = 1} = SubDirs(d) /\ {m \in Names : G[m] = 1} = SubDirs(d)'
    BY <2>2, <2>4, Zenon
  <2>6. \A m \in Names \ {n} : G[m] = F[m]
    BY <2>1, Zenon DEF One
  <2>7. F[n] \in {0, 1} /\ G[n] \in {0, 1} /\ F[n] = One(DirAt(d, n)) /\ G[n] = One(DirAt(d, n)')
    BY Zenon DEF One
  <2>8. IsFiniteSet(Names)
    BY FsAssumption, Zenon
  <2> HIDE DEF F, G
  <2> Count(Names, G, 1) + One(F[n] = 1) = Count(Names, F, 1) + One(G[n] = 1)
    BY <2>6, <2>8, CountChange
  <2> One(F[n] = 1) = F[n] /\ One(G[n] = 1) = G[n]
    BY <2>7, Zenon DEF One
  <2> QED
    BY <2>7, Zenon DEF Count
<1> SUFFICES ASSUME NEW j \in Inums
             PROVE  Cardinality(NamesOf(j)') + Cardinality(SubDirs(j)') + Cardinality(Owners(j)')
                      <= inode'[j].nlink
  BY Zenon DEF Links
<1>0. TypeOK
  BY Zenon DEF FsInv
<1> Cardinality(NamesOf(j)') + One(inode[d].ent[n] = j) = Cardinality(NamesOf(j)) + One(v = j)
  BY <1>0, <1>a, Zenon
<1> Cardinality(SubDirs(j)') + One(j = d /\ DirAt(d, n))
      = Cardinality(SubDirs(j)) + One(j = d /\ DirAt(d, n)')
  <2>1. /\ \A k \in Inums \ {d} : SubDirs(k)' = SubDirs(k)
        /\ Cardinality(SubDirs(d)') + One(DirAt(d, n)) = Cardinality(SubDirs(d)) + One(DirAt(d, n)')
    BY <1>0, <1>b, Zenon DEF KeepTypes
  <2>2. CASE j = d
    BY <2>1, <2>2, Zenon DEF One
  <2>3. CASE j # d
    BY <2>1, <2>3, Zenon DEF One
  <2> QED
    BY <2>2, <2>3, Zenon
<1> /\ Cardinality(Owners(j)) \in Nat /\ Cardinality(Owners(j)') \in Nat
    /\ Cardinality(Owners(j)') + One(Owes(th[p]) = j)
         = Cardinality(Owners(j)) + One(Owes(th'[p]) = j)
  BY OwnersStep, Zenon
<1> /\ Cardinality(NamesOf(j)) \in Nat /\ Cardinality(NamesOf(j)') \in Nat
    /\ Cardinality(SubDirs(j)) \in Nat /\ Cardinality(SubDirs(j)') \in Nat
  BY NamesFinite, Zenon
<1> /\ One(inode[d].ent[n] = j) \in Nat /\ One(j = d /\ DirAt(d, n)) \in Nat
    /\ One(Owes(th[p]) = j) \in Nat /\ One(v = j) \in Nat /\ One(Owes(th'[p]) = j) \in Nat
    /\ One(j = d /\ DirAt(d, n)') \in Nat
  BY Zenon DEF One
<1> inode[j].nlink \in Nat /\ inode'[j].nlink \in Nat
  BY <1>0, Zenon DEF TypeOK, Enters, Inode
<1> Cardinality(NamesOf(j)) + Cardinality(SubDirs(j)) + Cardinality(Owners(j)) <= inode[j].nlink
  BY Zenon DEF FsInv, Links
<1> inode'[j].nlink + One(inode[d].ent[n] = j) + One(j = d /\ DirAt(d, n))
        + One(Owes(th[p]) = j)
      = inode[j].nlink + One(v = j) + One(j = d /\ DirAt(d, n)')
        + One(Owes(th'[p]) = j)
  BY Zenon DEF Balanced
<1> QED
  OBVIOUS

\* The record of a directory with an entry set.
LEMMA EntryRecord ==
    ASSUME NEW r \in Inode, NEW n \in Names, NEW v \in Ptr, NEW k \in Int, r.nlink + k \in Nat
    PROVE  /\ WithEntry(r, n, v, k) \in Inode
           /\ WithEntry(r, n, v, k).type = r.type /\ WithEntry(r, n, v, k).nlink = r.nlink + k
           /\ WithEntry(r, n, v, k).ent = [r.ent EXCEPT ![n] = v]
           /\ WithEntry(r, n, v, k).blocks = r.blocks
<1>1. [r.ent EXCEPT ![n] = v] \in [Names -> Ptr]
  BY Zenon DEF Inode
<1> QED
  BY <1>1, Zenon DEF WithEntry, Inode

\* A step that moves no block keeps the bitmap exact.
LEMMA BlocksSame ==
    ASSUME BlocksExact, bitmap' = bitmap, \A j \in Inums : inode'[j].blocks = inode[j].blocks
    PROVE  BlocksExact'
<1>1. {inode'[j].blocks : j \in Inums} = {inode[j].blocks : j \in Inums}
  OBVIOUS
<1> QED
  BY <1>1, Zenon DEF BlocksExact

\* dirlink keeps the invariant, whether or not the name is free.
LEMMA DirlinkKeeps ==
    ASSUME FiniteFacts, FsInv, NEW p \in Procs, dirlink(p)
    PROVE  FsInv'
\* dirlink of a name that was free: the call has paid what it owed.
<1>a. ASSUME th[p].pc = "parent", th[p].call.op = "link", lock[th[p].dp] = None, NEW n,
             n = Head(th[p].path), NEW d, d = th[p].dp, inode[d].ent[n] = None,
             inode' = [inode EXCEPT ![d] = WithEntry(@, n, th[p].ip, 0)],
             th' = [th EXCEPT ![p] = PutDp(th[p], th[p].ip, "linked")],
             valid' \in [Inums -> BOOLEAN], ref' = ref, lock' = lock, bitmap' = bitmap,
             cwd' = cwd, fd' = fd
      PROVE  FsInv'
  <2> DEFINE t == th[p]
             u == PutDp(t, t.ip, "linked")
             v == t.ip
  <2>0. /\ t \in Thread /\ Shape(t) /\ KindOf(p) /\ d \in Ptr /\ t.ip \in Ptr
        /\ t.path \in Seq(Names) /\ t.call \in Calls \cup {NoCall}
        /\ cwd[p] \in Inums /\ fd[p] \in Ptr
    BY <1>a, Of, Zenon
  <2>1. Stage(t) = "parent"
    BY <1>a, Zenon DEF Stage
  <2>2. /\ d \in Inums /\ d # None /\ t.put = None /\ t.call \in Calls /\ t.path # <<>>
        /\ v # None /\ v \in Inums
    BY <1>a, <2>0, <2>1, Zenon DEF Shape, Ptr
  <2>3. n \in Names
    BY <1>a, <2>0, <2>2, FirstName, Zenon
  <2>4. u \in Thread
    BY <1>a, <2>0, Records, Zenon DEF PCs
  <2>5. Alone(p) /\ th'[p] = u
    BY <1>a, <2>4, AloneTh, Zenon DEF FsInv, TypeOK
  <2>6. /\ u.dp = None /\ u.ip = v /\ u.put = d /\ u.call = t.call /\ u.path = t.path
        /\ u.pc = "put" /\ u.then = "linked"
    BY <1>a, Zenon DEF PutDp, PutThen
  <2>7. Stage(u) = "linked" /\ Owes(t) = v /\ Owes(u) = None
    BY <2>1, <2>6, Zenon DEF Stage, Owes
  <2> HIDE DEF u
  <2> Cached /\ Polite(p)
    BY <1>a, Zenon DEF FsInv, TypeOK, Cached, Polite
  <2> Counted(p)
    <3>1. \A j \in Inums : ref[j] \in Nat /\ j # None
      BY FsAssumption, Zenon DEF FsInv, TypeOK, None
    <3> QED
      BY <1>a, <2>2, <2>5, <2>6, <3>1 DEF Counted, Uses, One
  <2> Shape(th'[p])
    BY <2>2, <2>5, <2>6, <2>7, Zenon DEF Shape
  <2> LockOf(p)'
    BY <2>5, <2>7, Zenon DEF LockOf
  <2>12. inode \in [Inums -> Inode] /\ inode[d] \in Inode /\ inode[d].nlink \in Nat
    BY <2>2, Zenon DEF FsInv, TypeOK, Inode
  <2>13. /\ WithEntry(inode[d], n, v, 0) \in Inode
         /\ WithEntry(inode[d], n, v, 0).type = inode[d].type
         /\ WithEntry(inode[d], n, v, 0).nlink = inode[d].nlink + 0
         /\ WithEntry(inode[d], n, v, 0).ent = [inode[d].ent EXCEPT ![n] = v]
         /\ WithEntry(inode[d], n, v, 0).blocks = inode[d].blocks
    <3>1. 0 \in Int /\ inode[d].nlink + 0 \in Nat /\ v \in Ptr
      BY <2>0, <2>12
    <3> QED
      BY <2>3, <2>12, <3>1, EntryRecord
  <2>14. /\ inode' \in [Inums -> Inode] /\ inode'[d] = WithEntry(inode[d], n, v, 0)
         /\ \A j \in Inums \ {d} : inode'[j] = inode[j]
    BY <1>a, <2>2, <2>12, <2>13, Zenon
  <2>15. \A j \in Inums : /\ inode'[j].type = inode[j].type /\ inode'[j].nlink = inode[j].nlink
                          /\ inode'[j].blocks = inode[j].blocks
    <3>1. inode[d].nlink + 0 = inode[d].nlink
      BY <2>12
    <3>2. /\ inode'[d].type = inode[d].type /\ inode'[d].nlink = inode[d].nlink
          /\ inode'[d].blocks = inode[d].blocks
      BY <2>13, <2>14, <3>1, Zenon
    <3> QED
      BY <2>14, <3>2, Zenon
  <2>16. Enters(d, n, v)
    BY <2>13, <2>14, Zenon DEF Enters
  <2>17. inode[v].type = "file" /\ inode[d].type # "none"
    BY <1>a, <2>0, <2>1, <2>2, Zenon DEF KindOf
  <2> KindOf(p)'
    <3>1. /\ inode'[cwd[p]].type = "dir" /\ inode'[v].type = "file"
          /\ fd[p] # None => inode'[fd[p]].type = "file"
      BY <2>0, <2>2, <2>15, <2>17, Zenon DEF KindOf, Ptr
    <3> QED
      BY <1>a, <2>5, <2>6, <2>7, <3>1, Zenon DEF KindOf
  <2> Links'
    <3> KeepTypes(d, n)
      BY <2>12, <2>15 DEF Inode, Ptr, KeepTypes
    <3>2. ~DirAt(d, n)
      BY <1>a, Zenon DEF DirAt
    <3>3. ~DirAt(d, n)'
      <4>1. inode'[d].ent[n] = v
        <5>1. inode[d].ent \in [Names -> Ptr] /\ inode'[d].ent = [inode[d].ent EXCEPT ![n] = v]
          BY <2>12, <2>16, Zenon DEF Inode, Enters
        <5> QED
          BY <2>3, <5>1, Zenon
      <4> QED
        BY <2>2, <2>15, <2>17, <4>1, Zenon DEF DirAt
    <3>4. \A j \in Inums : inode[j].nlink \in Nat /\ j # None
      BY <2>12, FsAssumption, Zenon DEF Inode, None
    <3> Balanced(p, d, n, v)
      <4> SUFFICES ASSUME NEW j \in Inums
                   PROVE  inode'[j].nlink + One(inode[d].ent[n] = j) + One(j = d /\ DirAt(d, n))
                              + One(Owes(th[p]) = j)
                            = inode[j].nlink + One(v = j) + One(j = d /\ DirAt(d, n)')
                              + One(Owes(th'[p]) = j)
        BY Zenon DEF Balanced
      <4>1. /\ inode[d].ent[n] # j /\ Owes(th[p]) = v /\ Owes(th'[p]) # j
            /\ inode'[j].nlink = inode[j].nlink /\ inode[j].nlink \in Nat
        BY <1>a, <2>5, <2>7, <2>15, <3>4, Zenon
      <4> HIDE DEF v
      <4> QED
        BY <3>2, <3>3, <4>1 DEF One
    <3> v \in Ptr
      BY <2>0, Zenon
    <3> HIDE DEF v
    <3> QED
      BY <2>2, <2>3, <2>5, <2>16, EntryCovered, Zenon
  <2> Blank'
    BY <2>14, <2>15, <2>17, Zenon DEF FsInv, Blank
  <2> BlocksExact' /\ bitmap' \subseteq Blocks
    BY <1>a, <2>15, BlocksSame, Zenon DEF FsInv, TypeOK
  <2> \A j \in Inums : Cardinality(inode'[j].blocks) <= MAXFILE
    BY <2>15, Zenon DEF FsInv, TypeOK
  <2> \A j \in Inums : lock[j] \in Procs \ {p} => inode'[j].ent = inode[j].ent
    <3>1. lock[d] = None /\ None \notin Procs
      BY <1>a, FsAssumption, Zenon
    <3> QED
      BY <2>14, <3>1, Zenon
  <2>24. ASSUME NEW q \in Procs \ {p}
         PROVE  /\ inode'[cwd[q]].type = inode[cwd[q]].type
                /\ fd[q] # None => inode'[fd[q]].type = inode[fd[q]].type
                /\ th[q].dp # None => inode'[th[q].dp].type = inode[th[q].dp].type
                /\ th[q].ip # None => inode'[th[q].ip].type = inode[th[q].ip].type
    <3>1. cwd[q] \in Inums /\ fd[q] \in Ptr /\ th[q].dp \in Ptr /\ th[q].ip \in Ptr
      BY Of, Zenon
    <3> QED
      BY <2>15, <3>1, Zenon DEF Ptr
  <2> QED
    BY <2>5, <2>14, <2>24, Changes, Zenon
\* dirlink finds the name taken.
<1>b. ASSUME th[p].pc = "parent", th[p].call.op = "link", lock[th[p].dp] = None, NEW i,
             i = dirlookup(th[p].dp, Head(th[p].path)), i # None,
             th' = [th EXCEPT ![p] = PutThen(th[p], th[p].path, th[p].dp, th[p].ip, i, "taken")],
             ref' = [ref EXCEPT ![i] = @ + 1],
             valid' = [valid EXCEPT ![th[p].dp] = TRUE, ![i] = @ /\ ref[i] > 0],
             lock' = [lock EXCEPT ![th[p].dp] = p], cwd' = cwd, fd' = fd, UNCHANGED disk
      PROVE  FsInv'
  <2> DEFINE t == th[p]
             u == PutThen(t, t.path, t.dp, t.ip, i, "taken")
  <2>0. /\ t \in Thread /\ Shape(t) /\ KindOf(p) /\ t.dp \in Ptr /\ t.ip \in Ptr
        /\ t.path \in Seq(Names) /\ t.call \in Calls \cup {NoCall}
    BY Of, Zenon
  <2>1. Stage(t) = "parent"
    BY <1>b, Zenon DEF Stage
  <2>2. /\ t.dp \in Inums /\ t.dp # None /\ t.put = None /\ t.call \in Calls /\ t.path # <<>>
        /\ t.ip # None
    BY <1>b, <2>0, <2>1, Zenon DEF Shape, Ptr
  <2>3. Head(t.path) \in Names
    BY <2>0, <2>2, FirstName, Zenon
  <2>4. i \in Inums
    BY <1>b, <2>2, <2>3, EntryAllocated, Zenon DEF dirlookup
  <2>5. u \in Thread
    <3>1. i \in Ptr /\ "taken" \in PCs
      BY <2>4, Zenon DEF Ptr, PCs
    <3> QED
      BY <2>0, <3>1, PutRecord, Zenon
  <2>6. Alone(p) /\ th'[p] = u
    BY <1>b, <2>5, AloneTh, Zenon DEF FsInv, TypeOK
  <2>7. /\ u.dp = t.dp /\ u.ip = t.ip /\ u.put = i /\ u.call = t.call /\ u.path = t.path
        /\ u.pc = "put" /\ u.then = "taken"
    BY Zenon DEF PutThen
  <2>8. Stage(u) = "taken"
    BY <2>7, Zenon DEF Stage
  <2> HIDE DEF u
  <2>9. ref' \in [Inums -> Nat] /\ \A j \in Inums : ref'[j] = ref[j] + One(i = j)
    BY <1>b, <2>4, CountsUp, Zenon
  <2>10. valid' \in [Inums -> BOOLEAN]
    BY <1>b, <2>2, <2>4, Finds, Zenon
  <2>11. /\ lock' \in [Inums -> Procs \cup {None}] /\ lock'[t.dp] = p
         /\ \A j \in Inums : lock[j] \in Procs => lock'[j] = lock[j]
    BY <1>b, <2>2, FsAssumption, Zenon DEF FsInv, TypeOK
  <2> Cached /\ Polite(p)
    BY <2>9, <2>10, <2>11, Zenon DEF Cached, Polite
  <2> Counted(p)
    <3>1. \A j \in Inums : ref[j] \in Nat /\ j # None
      BY FsAssumption, Zenon DEF FsInv, TypeOK, None
    <3> QED
      BY <1>b, <2>2, <2>6, <2>7, <2>9, <3>1 DEF Counted, Uses, One
  <2> Shape(u)
    BY <1>b, <2>2, <2>4, <2>7, <2>8, Zenon DEF Shape
  <2> LockOf(p)'
    BY <2>6, <2>7, <2>8, <2>11, Zenon DEF LockOf
  <2> KindOf(p)'
    BY <1>b, <2>0, <2>1, <2>6, <2>7, <2>8, Zenon DEF KindOf, disk
  <2> Owes(u) = Owes(t)
    BY <2>1, <2>7, <2>8, Zenon DEF Owes
  <2> QED
    BY <1>b, <2>6, Quiet, Zenon DEF Polite
<1> DEFINE t == th[p]
           d == t.dp
           n == Head(t.path)
           other == dirlookup(d, n)
<1>1. /\ t.pc = "parent" /\ t.call.op = "link" /\ lock[d] = None
      /\ bitmap' = bitmap /\ cwd' = cwd /\ fd' = fd
  BY Zenon DEF dirlink, At, CanLock
<1>2. CASE other # None
  <2>1. /\ lock' = [lock EXCEPT ![d] = p]
        /\ th' = [th EXCEPT ![p] = PutThen(t, t.path, d, t.ip, other, "taken")]
        /\ ref' = [ref EXCEPT ![other] = @ + 1]
        /\ valid' = [valid EXCEPT ![d] = TRUE, ![other] = @ /\ ref[other] > 0]
        /\ inode' = inode
    BY <1>2, Zenon DEF dirlink
  <2> UNCHANGED disk
    BY <1>1, <2>1, Zenon DEF disk
  <2> HIDE DEF other
  <2> other = dirlookup(d, n)
    BY Zenon DEF other
  <2> QED
    BY <1>1, <1>2, <2>1, <1>b, Zenon
<1>3. CASE other = None
  <2> /\ inode' = [inode EXCEPT ![d] = WithEntry(@, n, t.ip, 0)]
      /\ th' = [th EXCEPT ![p] = PutDp(t, t.ip, "linked")]
      /\ ref' = ref /\ lock' = lock
    BY <1>3, Zenon DEF dirlink
  <2>2. valid' = [valid EXCEPT ![d] = TRUE]
    BY <1>3, Zenon DEF dirlink
  <2> valid' \in [Inums -> BOOLEAN]
    BY <2>2, Zenon DEF FsInv, TypeOK
  <2> inode[d].ent[n] = None
    BY <1>3, Zenon DEF dirlookup
  <2> QED
    BY <1>1, <1>a, Zenon
<1> QED
  BY <1>2, <1>3, Zenon

\* sys_unlink keeps the invariant as it removes the entry or refuses to.
LEMMA RemoveKeeps ==
    ASSUME FiniteFacts, FsInv, NEW p \in Procs, removeEntry(p)
    PROVE  FsInv'
\* unlink of a directory that is not empty.
<1>a. ASSUME th[p].pc = "found", ilock(th[p].ip),
             th' = [th EXCEPT ![p] = PutThen(th[p], th[p].path, th[p].dp, None, th[p].ip, "notempty")],
             ref' = ref, lock' = lock, cwd' = cwd, fd' = fd, UNCHANGED disk
      PROVE  FsInv'
  <2> DEFINE t == th[p]
             u == PutThen(t, t.path, t.dp, None, t.ip, "notempty")
  <2>0. /\ t \in Thread /\ Shape(t) /\ KindOf(p) /\ LockOf(p) /\ t.dp \in Ptr /\ t.ip \in Ptr
        /\ t.path \in Seq(Names) /\ t.call \in Calls \cup {NoCall}
    BY Of, Zenon
  <2>1. Stage(t) = "found"
    BY <1>a, Zenon DEF Stage
  <2>2. /\ t.dp \in Inums /\ t.dp # None /\ t.put = None /\ t.call \in Calls
        /\ t.ip # None /\ t.ip \in Inums
    BY <1>a, <2>0, <2>1, Zenon DEF Shape, Ptr
  <2>3. u \in Thread
    <3>1. None \in Ptr /\ "notempty" \in PCs
      BY Zenon DEF Ptr, PCs
    <3> QED
      BY <2>0, <3>1, PutRecord, Zenon
  <2>4. Alone(p) /\ th'[p] = u
    BY <1>a, <2>3, AloneTh, Zenon DEF FsInv, TypeOK
  <2>5. /\ u.dp = t.dp /\ u.ip = None /\ u.put = t.ip /\ u.call = t.call /\ u.path = t.path
        /\ u.pc = "put" /\ u.then = "notempty"
    BY Zenon DEF PutThen
  <2>6. Stage(u) = "notempty"
    BY <2>5, Zenon DEF Stage
  <2> HIDE DEF u
  <2> Cached /\ Polite(p)
    BY <1>a, <2>2, LocksIn, Zenon
  <2> Counted(p)
    <3>1. \A j \in Inums : ref[j] \in Nat /\ j # None
      BY FsAssumption, Zenon DEF FsInv, TypeOK, None
    <3> QED
      BY <1>a, <2>2, <2>4, <2>5, <3>1 DEF Counted, Uses, One
  <2> Shape(u)
    BY <2>2, <2>5, <2>6, Zenon DEF Shape
  <2> LockOf(p)'
    BY <1>a, <2>0, <2>1, <2>4, <2>5, <2>6, Zenon DEF LockOf
  <2> KindOf(p)'
    BY <1>a, <2>0, <2>4, <2>5, <2>6, Zenon DEF KindOf, disk
  <2> Owes(u) = Owes(t)
    BY <2>1, <2>6, Zenon DEF Owes
  <2> QED
    BY <1>a, <2>4, Quiet, Zenon DEF Polite
\* unlink removes the entry: the inode keeps the link of the name for the call,
\* and a directory the one of its ".." no longer.
<1>b. ASSUME th[p].pc = "found", NEW i, i = th[p].ip, NEW d, d = th[p].dp, NEW n,
             n = Head(th[p].path), lock[i] = None, NEW k,
             k = IF inode[i].type = "dir" THEN -1 ELSE 0,
             inode' = [inode EXCEPT ![d] = WithEntry(@, n, None, k)],
             lock' = [lock EXCEPT ![d] = None, ![i] = p],
             th' = [th EXCEPT ![p] = PutDp(th[p], i, "unlinked")], valid' \in [Inums -> BOOLEAN],
             ref' = ref, bitmap' = bitmap, cwd' = cwd, fd' = fd
      PROVE  FsInv'
  <2> DEFINE t == th[p]
             u == PutDp(t, i, "unlinked")
             r == WithEntry(inode[d], n, None, k)
  <2>0. /\ t \in Thread /\ Shape(t) /\ KindOf(p) /\ LockOf(p) /\ d \in Ptr /\ i \in Ptr
        /\ t.path \in Seq(Names) /\ t.call \in Calls \cup {NoCall}
        /\ cwd[p] \in Inums /\ fd[p] \in Ptr
    BY <1>b, Of, Zenon
  <2>1. Stage(t) = "found"
    BY <1>b, Zenon DEF Stage
  <2>2. /\ d \in Inums /\ d # None /\ t.put = None /\ t.call \in Calls /\ t.path # <<>>
        /\ i # None /\ i \in Inums
    BY <1>b, <2>0, <2>1, Zenon DEF Shape, Ptr
  <2>3. n \in Names
    BY <1>b, <2>0, <2>2, FirstName, Zenon
  <2>4. /\ lock[d] = p /\ inode[d].ent[n] = i /\ inode[i].type # "none" /\ inode[d].type # "none"
    BY <1>b, <2>0, <2>1, <2>2, Zenon DEF LockOf, KindOf
  <2>5. i # d
    BY <1>b, <2>4, FsAssumption, Zenon
  <2>6. u \in Thread
    BY <1>b, <2>0, Records, Zenon DEF PCs
  <2>7. Alone(p) /\ th'[p] = u
    BY <1>b, <2>6, AloneTh, Zenon DEF FsInv, TypeOK
  <2>8. /\ u.dp = None /\ u.ip = i /\ u.put = d /\ u.call = t.call /\ u.path = t.path
        /\ u.pc = "put" /\ u.then = "unlinked"
    BY <1>b, Zenon DEF PutDp, PutThen
  <2>9. Stage(u) = "unlinked" /\ Owes(t) = None /\ Owes(u) = i
    BY <2>1, <2>8, Zenon DEF Stage, Owes
  <2> HIDE DEF u
  <2>10. Cached /\ Polite(p) /\ lock'[i] = p
    <3>1. /\ lock' \in [Inums -> Procs \cup {None}] /\ lock'[i] = p
          /\ \A j \in Inums \ {i, d} : lock'[j] = lock[j]
      BY <1>b, <2>2, <2>5, Zenon DEF FsInv, TypeOK
    <3> QED
      BY <1>b, <2>4, <3>1, FsAssumption, Zenon DEF FsInv, TypeOK, Cached, Polite
  <2> Counted(p)
    <3>1. \A j \in Inums : ref[j] \in Nat /\ j # None
      BY FsAssumption, Zenon DEF FsInv, TypeOK, None
    <3> QED
      BY <1>b, <2>2, <2>7, <2>8, <3>1 DEF Counted, Uses, One
  <2> Shape(th'[p])
    BY <2>2, <2>7, <2>8, <2>9, Zenon DEF Shape
  <2> LockOf(p)'
    BY <2>7, <2>8, <2>9, <2>10, Zenon DEF LockOf
  <2>14. inode \in [Inums -> Inode] /\ inode[d] \in Inode /\ inode[d].nlink \in Nat
    BY <2>2, Zenon DEF FsInv, TypeOK, Inode
  <2>15. k \in Int /\ inode[d].nlink + k \in Nat
    <3>1. CASE inode[i].type = "dir"
      <4>1. n \in SubDirs(d)
        BY <2>2, <2>3, <2>4, <3>1, Zenon DEF SubDirs
      <4>2. inode[d].nlink # 0
        BY <2>2, <4>1, Named, Zenon DEF FsInv
      <4>3. k = -1
        BY <1>b, <3>1, Zenon
      <4> QED
        BY <2>14, <4>2, <4>3
    <3>2. CASE inode[i].type # "dir"
      BY <1>b, <2>14, <3>2
    <3> QED
      BY <3>1, <3>2, Zenon
  <2>16. /\ r \in Inode /\ r.type = inode[d].type /\ r.nlink = inode[d].nlink + k
         /\ r.ent = [inode[d].ent EXCEPT ![n] = None] /\ r.blocks = inode[d].blocks
    <3>1. None \in Ptr
      BY Zenon DEF Ptr
    <3> QED
      BY <2>3, <2>14, <2>15, <3>1, EntryRecord
  <2>17. /\ inode' \in [Inums -> Inode] /\ inode'[d] = r
         /\ \A j \in Inums \ {d} : inode'[j] = inode[j]
    BY <1>b, <2>2, <2>14, <2>16, Zenon
  <2> HIDE DEF r
  <2>18. \A j \in Inums : inode'[j].type = inode[j].type /\ inode'[j].blocks = inode[j].blocks
    BY <2>16, <2>17, Zenon
  <2>19. Enters(d, n, None)
    BY <2>16, <2>17, Zenon DEF Enters
  <2> KindOf(p)'
    <3>1. /\ inode'[cwd[p]].type = "dir" /\ inode'[i].type # "none"
          /\ fd[p] # None => inode'[fd[p]].type = "file"
      BY <2>0, <2>2, <2>4, <2>18, Zenon DEF KindOf, Ptr
    <3> QED
      BY <1>b, <2>7, <2>8, <2>9, <3>1, Zenon DEF KindOf
  <2> Links'
    <3> DEFINE v == None
    <3> KeepTypes(d, n)
      BY <2>14, <2>18 DEF Inode, Ptr, KeepTypes
    <3>2. DirAt(d, n) <=> inode[i].type = "dir"
      BY <2>2, <2>4, Zenon DEF DirAt
    <3>3. ~DirAt(d, n)'
      <4>1. inode'[d].ent[n] = None
        <5>1. inode[d].ent \in [Names -> Ptr] /\ inode'[d].ent = [inode[d].ent EXCEPT ![n] = None]
          BY <2>14, <2>19, Zenon DEF Inode, Enters
        <5> QED
          BY <2>3, <5>1, Zenon
      <4> QED
        BY <4>1, Zenon DEF DirAt
    <3>4. \A j \in Inums : inode[j].nlink \in Nat /\ j # None
      BY <2>14, FsAssumption, Zenon DEF Inode, None
    <3>5. ASSUME NEW j \in Inums
          PROVE  inode'[j].nlink + One(inode[d].ent[n] = j) + One(j = d /\ DirAt(d, n))
                     + One(Owes(t) = j)
                   = inode[j].nlink + One(v = j) + One(j = d /\ DirAt(d, n)')
                     + One(Owes(th'[p]) = j)
      <4>1. /\ One(Owes(t) = j) = 0 /\ One(v = j) = 0 /\ One(j = d /\ DirAt(d, n)') = 0
            /\ One(Owes(th'[p]) = j) = One(inode[d].ent[n] = j) /\ One(inode[d].ent[n] = j) \in Nat
        BY <2>4, <2>7, <2>9, <3>3, <3>4, Zenon DEF One
      <4>2. inode'[j].nlink + One(j = d /\ DirAt(d, n)) = inode[j].nlink
            /\ inode'[j].nlink \in Int /\ One(j = d /\ DirAt(d, n)) \in Nat /\ inode[j].nlink \in Nat
        <5>1. CASE j = d
          <6>1. inode'[j].nlink = inode[j].nlink + k
            BY <2>16, <2>17, <5>1, Zenon
          <6>2. One(j = d /\ DirAt(d, n)) = 0 - k /\ k \in {0, -1}
            BY <1>b, <3>2, <5>1 DEF One
          <6> QED
            BY <3>4, <6>1, <6>2
        <5>2. CASE j # d
          BY <2>17, <3>4, <5>2 DEF One
        <5> QED
          BY <5>1, <5>2, Zenon
      <4> DEFINE A == One(inode[d].ent[n] = j)
                 B == One(j = d /\ DirAt(d, n))
                 N == inode'[j].nlink
                 M == inode[j].nlink
      <4>3. A \in Nat /\ B \in Nat /\ N \in Int /\ M \in Nat /\ N + B = M
        BY <4>1, <4>2, Zenon
      <4> HIDE DEF A, B, N, M
      <4>4. N + A + B + 0 = M + 0 + 0 + A
        BY <4>3
      <4> QED
        BY <4>1, <4>4, Zenon DEF A, B, N, M
    <3> v \in Ptr /\ Enters(d, n, v)
      BY <2>19, Zenon DEF Ptr
    <3> Balanced(p, d, n, v)
      BY <3>5, Zenon DEF Balanced
    <3> HIDE DEF v
    <3> QED
      BY <2>2, <2>3, <2>7, EntryCovered, Zenon
  <2> Blank'
    BY <2>4, <2>17, <2>18, Zenon DEF FsInv, Blank
  <2> BlocksExact' /\ bitmap' \subseteq Blocks
    BY <1>b, <2>18, BlocksSame, Zenon DEF FsInv, TypeOK
  <2> \A j \in Inums : Cardinality(inode'[j].blocks) <= MAXFILE
    BY <2>18, Zenon DEF FsInv, TypeOK
  <2> \A j \in Inums : lock[j] \in Procs \ {p} => inode'[j].ent = inode[j].ent
    BY <2>4, <2>17, Zenon
  <2>26. ASSUME NEW q \in Procs \ {p}
         PROVE  /\ inode'[cwd[q]].type = inode[cwd[q]].type
                /\ fd[q] # None => inode'[fd[q]].type = inode[fd[q]].type
                /\ th[q].dp # None => inode'[th[q].dp].type = inode[th[q].dp].type
                /\ th[q].ip # None => inode'[th[q].ip].type = inode[th[q].ip].type
    <3>1. cwd[q] \in Inums /\ fd[q] \in Ptr /\ th[q].dp \in Ptr /\ th[q].ip \in Ptr
      BY Of, Zenon
    <3> QED
      BY <2>18, <3>1, Zenon DEF Ptr
  <2> QED
    BY <2>7, <2>10, <2>17, <2>26, Changes, Zenon
<1> DEFINE t == th[p]
           i == t.ip
           d == t.dp
           k == IF inode[i].type = "dir" THEN -1 ELSE 0
<1>1. /\ t.pc = "found" /\ ilock(i) /\ lock[i] = None
      /\ bitmap' = bitmap /\ ref' = ref /\ cwd' = cwd /\ fd' = fd
  BY Zenon DEF removeEntry, At, ilock, CanLock
<1>2. CASE inode[i].type = "dir" /\ inode[i].ent # NoEntries
  <2>1. /\ th' = [th EXCEPT ![p] = PutThen(t, t.path, d, None, i, "notempty")]
        /\ lock' = lock /\ inode' = inode
    BY <1>2, Zenon DEF removeEntry
  <2>2. UNCHANGED disk
    BY <1>1, <2>1, Zenon DEF disk
  <2> QED
    BY <1>1, <2>1, <2>2, <1>a, Zenon
<1>3. CASE ~(inode[i].type = "dir" /\ inode[i].ent # NoEntries)
  <2>1. /\ inode' = [inode EXCEPT ![d] = WithEntry(@, Head(t.path), None, k)]
        /\ lock' = [lock EXCEPT ![d] = None, ![i] = p]
        /\ th' = [th EXCEPT ![p] = PutDp(t, i, "unlinked")]
    BY <1>3, Zenon DEF removeEntry
  <2>2. valid' \in [Inums -> BOOLEAN]
    BY <1>1, Zenon DEF FsInv, TypeOK, ilock
  <2> QED
    BY <1>1, <2>1, <2>2, <1>b, Zenon
<1> QED
  BY <1>2, <1>3, Zenon

\* create keeps the invariant when it allocates and enters a new inode.
LEMMA CreateNewKeeps ==
    ASSUME FiniteFacts, FsInv, NEW p \in Procs, createNew(p)
    PROVE  FsInv'
<1> DEFINE t == th[p]
           ty == Type(t)
           k == IF ty = "dir" THEN 1 ELSE 0
<1>0. PICK d, n : d = t.dp /\ n = Head(t.path)
  BY Zenon
<1>1. PICK i \in Inums :
        /\ inode[i].type = "none" /\ lock[i] = None
        /\ inode' = [inode EXCEPT ![i] = Linked(ty), ![d] = WithEntry(@, n, i, k)]
        /\ ref' = [ref EXCEPT ![i] = @ + 1]
        /\ valid' = [valid EXCEPT ![i] = TRUE, ![d] = TRUE]
        /\ lock' = [lock EXCEPT ![i] = p]
        /\ th' = [th EXCEPT ![p] = PutDp(t, i, "created")]
  BY <1>0, Zenon DEF createNew, ialloc, CanLock
<1>2. /\ t.pc = "parent" /\ t.call.op \in {"creat", "mkdir"} /\ lock[d] = None
      /\ inode[d].ent[n] = None /\ bitmap' = bitmap /\ cwd' = cwd /\ fd' = fd
  BY <1>0, Zenon DEF createNew, At, CanLock, dirlookup
<1> DEFINE u == PutDp(t, i, "created")
           r == WithEntry(inode[d], n, i, k)
<1>3. /\ t \in Thread /\ Shape(t) /\ KindOf(p) /\ d \in Ptr
      /\ t.path \in Seq(Names) /\ t.call \in Calls \cup {NoCall}
      /\ cwd[p] \in Inums /\ fd[p] \in Ptr
  BY <1>0, Of, Zenon
<1>4. Stage(t) = "parent" /\ ty \in {"file", "dir"} /\ k \in Nat
  BY <1>2, Zenon DEF Stage, Type
<1>5. /\ d \in Inums /\ d # None /\ t.put = None /\ t.call \in Calls /\ t.path # <<>> /\ t.ip = None
  BY <1>0, <1>2, <1>3, <1>4, Zenon DEF Shape, Ptr
<1>6. n \in Names /\ inode[d].type # "none" /\ i # d /\ i # None /\ i \in Ptr
  BY <1>0, <1>1, <1>3, <1>5, FirstName, FsAssumption, Zenon DEF KindOf, Ptr, None
<1>7. u \in Thread
  <2>1. "created" \in PCs
    BY Zenon DEF PCs
  <2> QED
    BY <1>0, <1>3, <1>6, <2>1, Records, Zenon
<1>8. Alone(p) /\ th'[p] = u
  BY <1>1, <1>2, <1>7, AloneTh, Zenon DEF FsInv, TypeOK
<1>9. /\ u.dp = None /\ u.ip = i /\ u.put = d /\ u.call = t.call /\ u.path = t.path
      /\ u.pc = "put" /\ u.then = "created"
  BY <1>0, Zenon DEF PutDp, PutThen
<1>10. Stage(u) = "created" /\ Owes(t) = None /\ Owes(u) = None /\ Type(u) = ty
  BY <1>4, <1>5, <1>9, Zenon DEF Stage, Owes, Type
<1> HIDE DEF u
<1>11. ref' \in [Inums -> Nat] /\ \A j \in Inums : ref'[j] = ref[j] + One(i = j)
  BY <1>1, CountsUp, Zenon
<1>12. valid' \in [Inums -> BOOLEAN]
  <2>1. valid \in [Inums -> BOOLEAN]
    BY Zenon DEF FsInv, TypeOK
  <2> QED
    BY <1>1, <2>1, Zenon
<1>13. Cached /\ Polite(p) /\ lock'[i] = p
  <2>1. /\ lock' \in [Inums -> Procs \cup {None}] /\ lock'[i] = p
        /\ \A j \in Inums \ {i} : lock'[j] = lock[j]
    BY <1>1, Zenon DEF FsInv, TypeOK
  <2> QED
    BY <1>1, <1>11, <1>12, <2>1, FsAssumption, Zenon DEF Cached, Polite
<1> Counted(p)
  <2>1. \A j \in Inums : ref[j] \in Nat /\ j # None
    BY FsAssumption, Zenon DEF FsInv, TypeOK, None
  <2> QED
    BY <1>0, <1>2, <1>5, <1>8, <1>9, <1>11, <2>1 DEF Counted, Uses, One
<1> Shape(th'[p])
  BY <1>5, <1>6, <1>8, <1>9, <1>10, Zenon DEF Shape
<1> LockOf(p)'
  BY <1>8, <1>9, <1>10, <1>13, Zenon DEF LockOf
<1>17. inode \in [Inums -> Inode] /\ inode[d] \in Inode /\ inode[d].nlink \in Nat
  BY <1>5, Zenon DEF FsInv, TypeOK, Inode
<1> HIDE DEF k, ty
<1>18. /\ r \in Inode /\ r.type = inode[d].type /\ r.nlink = inode[d].nlink + k
       /\ r.ent = [inode[d].ent EXCEPT ![n] = i] /\ r.blocks = inode[d].blocks
  <2>1. k \in Int /\ inode[d].nlink + k \in Nat
    BY <1>4, <1>17
  <2> QED
    BY <1>6, <1>17, <2>1, EntryRecord
<1>19. Linked(ty) \in Inode
  BY <1>4, Zenon DEF Linked, Inode, NoEntries, Ptr
<1>20. /\ inode' \in [Inums -> Inode] /\ inode'[d] = r /\ inode'[i] = Linked(ty)
       /\ \A j \in Inums \ {d, i} : inode'[j] = inode[j]
  <2>1. inode' = [[inode EXCEPT ![i] = Linked(ty)] EXCEPT ![d] = r]
    BY <1>1, <1>6, <1>17, Zenon
  <2> HIDE DEF r
  <2> QED
    BY <1>5, <1>6, <1>17, <1>18, <1>19, <2>1, Zenon
<1> HIDE DEF r
<1>21. inode[i] = Free
  BY <1>1, Zenon DEF FsInv, Blank
<1>22. /\ inode'[i].type = ty /\ inode'[i].nlink = 1 /\ inode'[i].ent = inode[i].ent
       /\ inode'[i].blocks = {} /\ inode[i].blocks = {} /\ inode[i].nlink = 0
  BY <1>20, <1>21 DEF Linked, Free
<1>23. /\ \A j \in Inums \ {i} : inode'[j].type = inode[j].type
       /\ \A j \in Inums : inode'[j].blocks = inode[j].blocks
  BY <1>18, <1>20, <1>22, Zenon
<1>24. Enters(d, n, i)
  BY <1>18, <1>20, <1>22, Zenon DEF Enters
<1>25. \A q \in Procs : /\ cwd[q] # i /\ fd[q] # i /\ th[q].dp # i /\ th[q].ip # i
                        /\ cwd[q] \in Inums /\ fd[q] \in Ptr /\ th[q].dp \in Ptr /\ th[q].ip \in Ptr
  <2> SUFFICES ASSUME NEW q \in Procs
               PROVE  /\ cwd[q] # i /\ fd[q] # i /\ th[q].dp # i /\ th[q].ip # i
                      /\ cwd[q] \in Inums /\ fd[q] \in Ptr /\ th[q].dp \in Ptr /\ th[q].ip \in Ptr
    BY Zenon
  <2>1. KindOf(q) /\ cwd[q] \in Inums /\ fd[q] \in Ptr /\ th[q].dp \in Ptr /\ th[q].ip \in Ptr
    BY Of, Zenon
  <2> QED
    BY <1>1, <1>6, <2>1, Zenon DEF KindOf
<1> KindOf(p)'
  <2> /\ inode'[cwd[p]].type = "dir"
      /\ fd[p] # None => inode'[fd[p]].type = "file"
    BY <1>3, <1>23, <1>25, Zenon DEF KindOf, Ptr
  <2> inode'[i].type # "none" /\ cwd'[p] = cwd[p] /\ fd'[p] = fd[p]
    BY <1>2, <1>4, <1>22, Zenon
  <2> QED
    BY <1>8, <1>9, <1>10, <1>22, Zenon DEF KindOf
<1> Links'
  <2> KeepTypes(d, n)
    <3> SUFFICES ASSUME NEW j \in Inums, NEW m \in Names, inode[j].ent[m] # None
                 PROVE  inode'[inode[j].ent[m]].type = inode[inode[j].ent[m]].type
      BY Zenon DEF KeepTypes
    <3>1. inode[j].ent[m] \in Inums /\ inode[inode[j].ent[m]].type # "none"
      BY EntryAllocated, Zenon
    <3> QED
      BY <1>1, <1>23, <3>1, Zenon
  <2>2. ~DirAt(d, n)
    BY <1>2, Zenon DEF DirAt
  <2>3. DirAt(d, n)' <=> ty = "dir"
    <3>1. inode'[d].ent[n] = i
      <4>1. inode[d].ent \in [Names -> Ptr] /\ inode'[d].ent = [inode[d].ent EXCEPT ![n] = i]
        BY <1>17, <1>24, Zenon DEF Inode, Enters
      <4> QED
        BY <1>6, <4>1, Zenon
    <3>2. inode'[inode'[d].ent[n]].type = ty /\ inode'[d].ent[n] # None
      BY <1>6, <1>22, <3>1, Zenon
    <3>3. DirAt(d, n)' <=> (inode'[d].ent[n] # None /\ inode'[inode'[d].ent[n]].type = "dir")
      BY Zenon DEF DirAt
    <3> QED
      BY <3>2, <3>3, Zenon
  <2>4. \A j \in Inums : inode[j].nlink \in Nat /\ j # None
    BY <1>17, FsAssumption, Zenon DEF Inode, None
  <2>5. ASSUME NEW j \in Inums
        PROVE  inode'[j].nlink + One(inode[d].ent[n] = j) + One(j = d /\ DirAt(d, n))
                   + One(Owes(t) = j)
                 = inode[j].nlink + One(i = j) + One(j = d /\ DirAt(d, n)')
                   + One(Owes(th'[p]) = j)
    <3>1. /\ One(Owes(t) = j) = 0 /\ One(inode[d].ent[n] = j) = 0 /\ One(j = d /\ DirAt(d, n)) = 0
          /\ One(Owes(th'[p]) = j) = 0
      BY <1>2, <1>8, <1>10, <2>2, <2>4, Zenon DEF One
    <3> DEFINE A == One(i = j)
               B == One(j = d /\ DirAt(d, n)')
               N == inode'[j].nlink
               M == inode[j].nlink
    <3>2. A \in Nat /\ B \in Nat /\ M \in Nat /\ N = M + A + B
      <4>1. CASE j = d
        <5>1. N = M + k
          BY <1>18, <1>20, <4>1, Zenon
        <5>2. A = 0 /\ B = k /\ B \in Nat
          BY <1>6, <2>3, <4>1, Zenon DEF One, k
        <5> QED
          BY <2>4, <5>1, <5>2
      <4>2. CASE j = i
        <5>1. N = 1 /\ M = 0
          BY <1>22, <4>2, Zenon
        <5>2. A = 1 /\ B = 0
          BY <1>6, <4>2, Zenon DEF One
        <5> QED
          BY <5>1, <5>2
      <4>3. CASE j # i /\ j # d
        <5>1. N = M
          BY <1>20, <4>3, Zenon
        <5>2. A = 0 /\ B = 0
          BY <4>3, Zenon DEF One
        <5> QED
          BY <2>4, <5>1, <5>2
      <4> QED
        BY <4>1, <4>2, <4>3, Zenon
    <3> HIDE DEF A, B, N, M
    <3>3. N + 0 + 0 + 0 = M + A + B + 0
      BY <3>2
    <3> QED
      BY <3>1, <3>3, Zenon DEF A, B, N, M
  <2> Balanced(p, d, n, i)
    BY <2>5, Zenon DEF Balanced
  <2> QED
    BY <1>5, <1>6, <1>8, <1>24, EntryCovered, Zenon
<1> Blank'
  BY <1>4, <1>6, <1>18, <1>20, <1>22, Zenon DEF FsInv, Blank
<1> BlocksExact' /\ bitmap' \subseteq Blocks
  <2>1. bitmap' = bitmap /\ \A j \in Inums : inode'[j].blocks = inode[j].blocks
    BY <1>2, <1>23, Zenon
  <2>2. BlocksExact /\ bitmap \subseteq Blocks
    BY Zenon DEF FsInv, TypeOK
  <2> QED
    BY <2>1, <2>2 DEF BlocksExact
<1> \A j \in Inums : Cardinality(inode'[j].blocks) <= MAXFILE
  BY <1>23, Zenon DEF FsInv, TypeOK
<1> \A j \in Inums : lock[j] \in Procs \ {p} => inode'[j].ent = inode[j].ent
  BY <1>1, <1>2, <1>20, FsAssumption, Zenon
<1> \A q \in Procs \ {p} :
      /\ inode'[cwd[q]].type = inode[cwd[q]].type
      /\ fd[q] # None => inode'[fd[q]].type = inode[fd[q]].type
      /\ th[q].dp # None => inode'[th[q].dp].type = inode[th[q].dp].type
      /\ th[q].ip # None => inode'[th[q].ip].type = inode[th[q].ip].type
  BY <1>23, <1>25, Zenon DEF Ptr
<1> QED
  BY <1>8, <1>13, <1>20, Changes, Zenon
-----------------------------------------------------------------------------
\* The invariant

\* Boot: every process is in the root directory and nothing else is.
LEMMA InitFs ==
    ASSUME FiniteFacts, Init
    PROVE  FsInv
<1> USE DEF Init
<1>0. /\ Root \in Inums /\ None \in Ptr /\ Free \in Inode /\ Linked("dir") \in Inode
      /\ \A i \in Inums : i # None
  BY FsAssumption, Zenon DEF Ptr, Free, Linked, Inode, NoEntries, None
<1>1. Cardinality(Procs) \in Nat /\ Cardinality({}) = 0
  BY FsAssumption, Zenon DEF FiniteFacts, CardinalityNat, EmptyCounts
<1>2. Idle \in Thread /\ Shape(Idle) /\ Stage(Idle) = "idle" /\ Owes(Idle) = None
      /\ Idle.dp = None /\ Idle.ip = None /\ Idle.put = None
  BY <1>0, Last, Zenon DEF Owes
<1>3. \A i \in Inums : inode[i].ent = NoEntries /\ inode[i].blocks = {} /\ inode[i].nlink \in Nat
  BY Zenon DEF Free, Linked
<1> TypeOK
  <2>1. inode \in [Inums -> Inode] /\ \A i \in Inums : Cardinality(inode[i].blocks) <= MAXFILE
    <3>1. inode \in [Inums -> Inode]
      BY <1>0, Zenon
    <3>2. \A i \in Inums : Cardinality(inode[i].blocks) = 0
      BY <1>1, <1>3, Zenon
    <3> HIDE DEF Init
    <3> QED
      BY <3>1, <3>2, FsAssumption
  <2>2. ref \in [Inums -> Nat] /\ lock \in [Inums -> Procs \cup {None}] /\ bitmap \subseteq Blocks
    BY <1>1, Zenon
  <2>3. valid \in [Inums -> BOOLEAN]
    BY Zenon
  <2>4. cwd \in [Procs -> Inums] /\ fd \in [Procs -> Ptr] /\ th \in [Procs -> Thread]
    BY <1>0, <1>2, Zenon
  <2> QED
    BY <2>1, <2>2, <2>3, <2>4, Zenon DEF TypeOK
<1> RefsExact
  <2> SUFFICES ASSUME NEW i \in Inums
               PROVE  ref[i] = Cardinality({p \in Procs : cwd[p] = i})
                        + Cardinality({p \in Procs : fd[p] = i})
                        + Cardinality({p \in Procs : th[p].dp = i})
                        + Cardinality({p \in Procs : th[p].ip = i})
                        + Cardinality({p \in Procs : th[p].put = i})
    BY Zenon DEF RefsExact
  <2>1. {p \in Procs : fd[p] = i} = {} /\ {p \in Procs : th[p].dp = i} = {}
    BY <1>0, <1>2, Zenon
  <2>2. {p \in Procs : th[p].ip = i} = {} /\ {p \in Procs : th[p].put = i} = {}
    BY <1>0, <1>2, Zenon
  <2>3. {p \in Procs : cwd[p] = i} = IF i = Root THEN Procs ELSE {}
    BY Zenon
  <2>4. ref[i] = Cardinality({p \in Procs : cwd[p] = i}) /\ ref[i] \in Nat
    BY <1>1, <2>3, Zenon
  <2>5. /\ Cardinality({p \in Procs : fd[p] = i}) = 0
        /\ Cardinality({p \in Procs : th[p].dp = i}) = 0
        /\ Cardinality({p \in Procs : th[p].ip = i}) = 0
        /\ Cardinality({p \in Procs : th[p].put = i}) = 0
    BY <1>1, <2>1, <2>2, Zenon
  <2> HIDE DEF Init
  <2> QED
    BY <2>4, <2>5
<1> Shapes
  BY <1>2, Zenon DEF Shapes
<1> Locks
  BY <1>2, Zenon DEF Locks, LockOf
<1> Kinds
  BY <1>0, <1>2, Zenon DEF Kinds, KindOf, Linked
<1> Blank
  BY Zenon DEF Blank, Linked
<1> Links
  <2> SUFFICES ASSUME NEW i \in Inums
               PROVE  Cardinality(NamesOf(i)) + Cardinality(SubDirs(i)) + Cardinality(Owners(i))
                        <= inode[i].nlink
    BY Zenon DEF Links
  <2>1. NamesOf(i) = {} /\ SubDirs(i) = {}
    BY <1>0, <1>3 DEF NamesOf, SubDirs, NoEntries
  <2>2. Owners(i) = {}
    BY <1>0, <1>2, Zenon DEF Owners
  <2> QED
    BY <1>1, <1>3, <2>1, <2>2
<1> BlocksExact
  BY <1>3, Zenon DEF BlocksExact
<1> QED
  BY Zenon DEF FsInv

\* Every step of every process keeps the invariant.
LEMMA NextFs ==
    ASSUME FiniteFacts, FsInv, [Next]_vars
    PROVE  FsInv'
<1>1. CASE UNCHANGED vars
  <2>1. /\ inode' = inode /\ ref' = ref /\ valid' = valid /\ lock' = lock
        /\ bitmap' = bitmap /\ cwd' = cwd /\ fd' = fd /\ th' = th
    BY <1>1, Zenon DEF vars
  <2>2. TypeOK' /\ RefsExact' /\ Shapes' /\ Blank' /\ BlocksExact'
    BY <2>1, Zenon DEF FsInv, TypeOK, RefsExact, Shapes, Blank, BlocksExact
  <2>3. Locks' /\ Kinds'
    BY <2>1, Zenon DEF FsInv, Locks, LockOf, Kinds, KindOf
  <2>4. Links'
    BY <2>1, Zenon DEF FsInv, Links, NamesOf, SubDirs, Owners
  <2> QED
    BY <2>2, <2>3, <2>4, Zenon DEF FsInv
<1>2. ASSUME NEW p \in Procs, Proceed(p) PROVE FsInv'
  <2>1. CASE iput(p) \/ unref(p) \/ namex(p) \/ sys_open(p) \/ sys_chdir(p)
    BY <2>1, PutKeeps, UnrefKeeps, NamexKeeps, OpenKeeps, ChdirKeeps, Zenon
  <2>2. CASE createExisting(p) \/ exists(p) \/ createNew(p) \/ created(p)
    BY <2>2, CreateExistingKeeps, ExistsKeeps, CreateNewKeeps, CreatedKeeps, Zenon
  <2>3. CASE sys_link(p) \/ dirlink(p) \/ taken(p) \/ bad(p) \/ linked(p)
    BY <2>3, LinkKeeps, DirlinkKeeps, TakenKeeps, BadKeeps, LinkedKeeps, Zenon
  <2>4. CASE sys_unlink(p) \/ removeEntry(p) \/ notempty(p) \/ unlinked(p)
    BY <2>4, UnlinkKeeps, RemoveKeeps, NotEmptyKeeps, UnlinkedKeeps, Zenon
  <2> QED
    BY <1>2, <2>1, <2>2, <2>3, <2>4, Zenon DEF Proceed
<1> QED
  BY <1>1, <1>2, CloseKeeps, WriteKeeps, StartKeeps, Zenon DEF Next

-----------------------------------------------------------------------------
\* The theorems

INSTANCE FiniteSetTheorems

\* The facts about finite sets that the lemmas take as a hypothesis.
LEMMA CountsFinite == FiniteFacts
<1> SubsetFinite
  BY FS_Subset, Zenon DEF SubsetFinite
<1> CardinalityNat
  BY FS_CardinalityType, Zenon DEF CardinalityNat
<1> ProductFinite
  BY FS_Product, Zenon DEF ProductFinite
<1> OneMore
  BY FS_AddElement, Zenon DEF OneMore
<1> OneLess
  BY FS_RemoveElement, Zenon DEF OneLess
<1> EmptyCounts
  BY FS_EmptySet, Zenon DEF EmptyCounts
<1> QED
  BY Zenon DEF FiniteFacts

\* The inductive invariant holds in every reachable state.
LEMMA Invariant == Spec => []FsInv
<1>1. Init => FsInv
  BY CountsFinite, InitFs, Zenon
<1>2. FsInv /\ [Next]_vars => FsInv'
  BY CountsFinite, NextFs, Zenon
<1> QED
  BY <1>1, <1>2, PTL DEF Spec

\* Every variable has its type and no file outgrows MAXFILE blocks, however writes,
\* creations and removals interleave (fs.c, writei and bmap).
THEOREM TypesKept == Spec => []TypeOK
<1>1. FsInv => TypeOK
  BY Zenon DEF FsInv
<1> QED
  BY <1>1, Invariant, PTL

\* The reference count of a cached inode is the number of pointers to it, in the
\* middle of every system call and on every error path (fs.c, iget, idup, iput).
THEOREM RefsCounted == Spec => []RefsExact
<1>1. FsInv => RefsExact
  BY Zenon DEF FsInv
<1> QED
  BY <1>1, Invariant, PTL

\* No name is left without a link that keeps its inode: link, unlink, mkdir and
\* iput of any number of processes interleaved (sysfile.c, fs.c).
THEOREM NamesCovered == Spec => []LinksCoverNames
<1>1. ASSUME FsInv PROVE LinksCoverNames
  <2> SUFFICES ASSUME NEW i \in Inums
               PROVE  Cardinality(NamesOf(i)) + Cardinality(SubDirs(i)) <= inode[i].nlink
    BY Zenon DEF LinksCoverNames
  <2>1. Cardinality(NamesOf(i)) + Cardinality(SubDirs(i)) + Cardinality(Owners(i)) <= inode[i].nlink
    BY <1>1, Zenon DEF FsInv, Links
  <2>2. Cardinality(NamesOf(i)) \in Nat /\ Cardinality(SubDirs(i)) \in Nat
    BY CountsFinite, NamesFinite, Zenon
  <2>3. Owners(i) \subseteq Procs
    BY Zenon DEF Owners
  <2>4. Cardinality(Owners(i)) \in Nat
    BY <2>3, FsAssumption, FS_Subset, FS_CardinalityType, Zenon
  <2>5. inode[i].nlink \in Nat
    BY <1>1, Zenon DEF FsInv, TypeOK, Inode
  <2> QED
    BY <2>1, <2>2, <2>4, <2>5
<1> QED
  BY <1>1, Invariant, PTL

\* What a process has open, is in or looks at is never freed under it (fs.c, iput
\* frees with the last reference only).
THEOREM UsedStays == Spec => []InUseAllocated
<1>1. FsInv => InUseAllocated
  BY Zenon DEF FsInv, Kinds, KindOf, InUseAllocated
<1> QED
  BY <1>1, Invariant, PTL

\* The bitmap marks exactly the blocks of the inodes, and no block is in two of
\* them (fs.c, balloc, bmap and itrunc).
THEOREM BlocksCounted == Spec => []BlocksExact
<1>1. FsInv => BlocksExact
  BY Zenon DEF FsInv
<1> QED
  BY <1>1, Invariant, PTL

\* unlink has found a name and waits for its inode, which has a link.
FoundLinked == \A p \in Procs : At(p, "found") => inode[th[p].ip].nlink >= 1

\* unlink never meets an inode without links (sysfile.c, sys_unlink: panic("unlink:
\* nlink < 1")): the directory is locked while it waits for the inode's lock, so
\* the name that keeps the link is still there, whatever the others unlink.
THEOREM UnlinkFindsLinks == Spec => []FoundLinked
<1>1. ASSUME FsInv PROVE FoundLinked
  <2> SUFFICES ASSUME NEW p \in Procs, th[p].pc = "found" PROVE inode[th[p].ip].nlink >= 1
    BY Zenon DEF FoundLinked, At
  <2>1. Shape(th[p]) /\ LockOf(p) /\ th[p].dp \in Ptr /\ th[p].ip \in Ptr /\ th[p].path \in Seq(Names)
    BY <1>1, Of, Zenon
  <2>2. Stage(th[p]) = "found"
    BY Zenon DEF Stage
  <2>3. th[p].dp \in Inums /\ th[p].ip # None /\ th[p].ip \in Inums /\ th[p].path # <<>>
    BY <2>1, <2>2, Zenon DEF Shape, Ptr
  <2>4. Head(th[p].path) \in Names /\ inode[th[p].dp].ent[Head(th[p].path)] = th[p].ip
    BY <2>1, <2>2, <2>3, FirstName, Zenon DEF LockOf
  <2>5. inode[th[p].ip].nlink # 0
    BY <1>1, <2>3, <2>4, CountsFinite, EntryAllocated, Zenon
  <2>6. inode[th[p].ip].nlink \in Nat
    BY <1>1, <2>3, Zenon DEF FsInv, TypeOK, Inode
  <2> QED
    BY <2>5, <2>6
<1> QED
  BY <1>1, Invariant, PTL
=============================================================================
