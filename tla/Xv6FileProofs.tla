--------------------------- MODULE Xv6FileProofs ----------------------------
(***************************************************************************)
(* Proofs about the open files and pipe ends of Xv6Pipe, for any number of *)
(* processes, files and descriptors: reference counts are exact and an end *)
(* stays open while somebody can use it.  The inductive invariant FInv is  *)
(* the types, FileRefsExact, Control and EndsInv.  Xv6PipeProofs goes on   *)
(* from here with the ring buffer.                                         *)
(***************************************************************************)
EXTENDS Xv6Pipe, FiniteSetTheorems, TLAPS

FileRec == [ref : Nat, type : {"none", "pipe"}, writable : BOOLEAN]

\* Types, of all but the ring buffer.
FTypes ==
    /\ file \in [Files -> FileRec]
    /\ ofile \in [Procs -> [Fds -> Files \cup {None}]]
    /\ exists \in BOOLEAN /\ readopen \in BOOLEAN /\ writeopen \in BOOLEAN
    /\ pc \in [Procs -> PCs] /\ killed \in [Procs -> BOOLEAN]
    /\ rf \in [Procs -> Files \cup {None}] /\ back \in [Procs -> {"user", "exit"}]
    /\ want \in [Procs -> Nat]

\* What the table of files and the descriptors have to do with where the
\* processes are: free files are blank, descriptors name pipe ends, a sys_pipe
\* under way has one blank file to itself, a free process has no descriptor,
\* and who is in a read or a write holds that end.
Fresh == [ref |-> 1, type |-> "none", writable |-> FALSE]
FreeBlank == \A f \in Files : file[f].ref = 0 => file[f] = NoFile
NamedPipes == \A p \in Procs, d \in Fds : ofile[p][d] # None => file[ofile[p][d]].type = "pipe"
Pending ==
    \A p \in Procs : IF pc[p] = "pipe" THEN rf[p] \in Files /\ file[rf[p]] = Fresh
                                       ELSE rf[p] = None
OnePending == \A p, q \in Procs : rf[p] = rf[q] /\ rf[p] # None => p = q
FreeShut == \A p \in Procs : pc[p] = "none" => ofile[p] = AllClosed
InCalls ==
    /\ \A p \in Procs : pc[p] \in {"write", "sleepw"} => Ends(p, TRUE)
    /\ \A p \in Procs : pc[p] \in {"read", "sleepr"} => Ends(p, FALSE) /\ want[p] > 0
Control == FreeBlank /\ NamedPipes /\ Pending /\ OnePending /\ FreeShut /\ InCalls

\* The files of one end of the pipe, the processes closing it, and whether it
\* is open.
Pipes(w) == {f \in Files : file[f].type = "pipe" /\ file[f].writable = w}
Closing(w) == {p \in Procs : pc[p] = IF w THEN "closew" ELSE "closer"}
OpenEnd(w) == IF w THEN writeopen ELSE readopen

\* Each end has one file, or one process closing it, while it is open.
EndsInv ==
    /\ exists <=> readopen \/ writeopen
    /\ \A w \in BOOLEAN :
         /\ Pipes(w) # {} \/ Closing(w) # {} => OpenEnd(w)
         /\ \A f, g \in Pipes(w) : f = g
         /\ \A p, q \in Closing(w) : p = q
         /\ Pipes(w) = {} \/ Closing(w) = {}

\* The inductive invariant of the files and the ends.
FInv == FTypes /\ FileRefsExact /\ Control /\ EndsInv

-----------------------------------------------------------------------------
\* Numbers and finite sets

\* Every set of naturals has a least element.
LEMMA LeastNatural ==
    ASSUME NEW S \in SUBSET Nat, S # {}
    PROVE  \E m \in S : \A n \in S : m <= n
  <1> DEFINE R == {ss \in Nat \X Nat : ss[1] < ss[2]}
  <1>1. IsWellFoundedOn(R, Nat)
    BY NatLessThanWellFounded, Zenon DEF OpToRel
  <1>2. \A x, y \in Nat : <<y, x>> \in R <=> y < x
    BY Zenon
  <1> HIDE DEF R
  <1>3. PICK x \in S : \A y \in S : ~ (<<y, x>> \in R)
    BY <1>1, WFMin, Zenon
  <1>4. \A y \in S : ~ (y < x)
    BY <1>2, <1>3, Zenon
  <1>5. \A y \in S : x <= y
    BY <1>4
  <1> QED
    BY <1>5, Zenon

\* fdalloc and filealloc take the first free one: there is a first.
LEMMA MinIn ==
    ASSUME NEW S \in SUBSET Nat, S # {}
    PROVE  Min(S) \in S
  BY LeastNatural, Zenon DEF Min

\* The references to a file are finitely many.
LEMMA HoldersFinite ==
    ASSUME NEW f
    PROVE  /\ IsFiniteSet(Holders(f)) /\ Cardinality(Holders(f)) \in Nat
           /\ Holders(f) = {} <=> Cardinality(Holders(f)) = 0
  <1>1. IsFiniteSet(Fds)
    BY TableAssumption, FS_Interval DEF Fds
  <1>2. IsFiniteSet(Fds \cup {None})
    BY <1>1, FS_AddElement, Zenon
  <1>3. IsFiniteSet(Procs \X (Fds \cup {None}))
    BY <1>2, TableAssumption, FS_Product, Zenon
  <1>4. Holders(f) \in SUBSET (Procs \X (Fds \cup {None}))
    BY Zenon DEF Holders
  <1>5. IsFiniteSet(Holders(f))
    BY <1>3, <1>4, FS_Subset
  <1> QED
    BY <1>5, FS_CardinalityType, FS_EmptySet, Zenon

\* Membership in Holders, by kind of reference.
LEMMA HoldersDef ==
    ASSUME NEW f, NEW p \in Procs
    PROVE  /\ <<p, None>> \in Holders(f) <=> rf[p] = f
           /\ \A d \in Fds : <<p, d>> \in Holders(f) <=> ofile[p][d] = f
  BY DEF Holders, Fds, None

\* ... and in the next state.
LEMMA HoldersDefNext ==
    ASSUME NEW f, NEW p \in Procs
    PROVE  /\ <<p, None>> \in Holders(f)' <=> rf'[p] = f
           /\ \A d \in Fds : <<p, d>> \in Holders(f)' <=> ofile'[p][d] = f
  BY DEF Holders, Fds, None

\* Two sets of references are equal when they agree on both kinds.
LEMMA HoldersPairs ==
    ASSUME NEW f, NEW h
    PROVE  h \in Holders(f) \/ h \in Holders(f)' =>
             \E p \in Procs : h = <<p, None>> \/ \E d \in Fds : h = <<p, d>>
  BY DEF Holders

-----------------------------------------------------------------------------
\* Steps that leave files and descriptors alone

\* Such a step keeps the counts, and the rest as long as it moves processes
\* only to where their descriptors let them be.
LEMMA FilesKept ==
    ASSUME FInv, UNCHANGED <<file, ofile, rf>>,
           \A p \in Procs : pc'[p] = "pipe" <=> pc[p] = "pipe",
           \A p \in Procs : pc'[p] = "none" => ofile[p] = AllClosed,
           \A p \in Procs : pc'[p] \in {"write", "sleepw"} => Ends(p, TRUE),
           \A p \in Procs : pc'[p] \in {"read", "sleepr"} => Ends(p, FALSE) /\ want'[p] > 0
    PROVE  FileRefsExact' /\ Control'
  <1>1. \A f : Holders(f)' = Holders(f)
    BY Zenon DEF Holders
  <1>2. FileRefsExact'
    BY <1>1, Zenon DEF FInv, FileRefsExact
  <1>3. \A p, w : Ends(p, w)' = Ends(p, w)
    BY Zenon DEF Ends, FreeFds
  <1>4. FreeBlank' /\ NamedPipes' /\ OnePending'
    BY Zenon DEF FInv, Control, FreeBlank, NamedPipes, OnePending
  <1>5. Pending'
    BY Zenon DEF FInv, Control, Pending
  <1>6. FreeShut' /\ InCalls'
    BY <1>3, Zenon DEF FreeShut, InCalls
  <1> QED
    BY <1>2, <1>4, <1>5, <1>6, Zenon DEF Control

\* The ends stay as they are while nobody starts or ends a pipeclose.
LEMMA EndsKept ==
    ASSUME FInv, UNCHANGED <<file, exists, readopen, writeopen>>,
           \A p \in Procs : pc'[p] \in {"closer", "closew"} => pc'[p] = pc[p]
    PROVE  EndsInv'
  <1>1. \A w \in BOOLEAN : Pipes(w)' = Pipes(w) /\ OpenEnd(w)' = OpenEnd(w)
    BY Zenon DEF Pipes, OpenEnd
  <1>2. \A w \in BOOLEAN : Closing(w)' \subseteq Closing(w)
    BY DEF Closing
  <1> QED
    BY <1>1, <1>2 DEF FInv, EndsInv

\* Init.
LEMMA InitFInv == Init => FInv
  <1> SUFFICES ASSUME Init PROVE FInv
    BY Zenon
  <1>1. FTypes
    BY Zenon DEF Init, FTypes, FileRec, NoFile, AllClosed, PCs
  <1>2. \A f \in Files : Holders(f) = {} /\ file[f].ref = 0
    BY DEF Init, Holders, AllClosed, NoFile, None, Files
  <1>3. FileRefsExact
    BY <1>2, FS_EmptySet, Zenon DEF FileRefsExact
  <1>4. Control
    BY Zenon DEF Init, Control, FreeBlank, NamedPipes, Pending, OnePending, FreeShut, InCalls, AllClosed, NoFile
  <1>5. EndsInv
    BY DEF Init, EndsInv, Pipes, Closing, OpenEnd, NoFile
  <1> QED
    BY <1>1, <1>3, <1>4, <1>5, Zenon DEF FInv

\* exit starts, exit ends, and kill wakes a sleeper.
LEMMA ExitFInv == ASSUME NEW p \in Procs, FInv, sys_exit(p) \/ exited(p) \/ kill(p) PROVE FInv'
  <1>1. UNCHANGED <<file, ofile, rf, exists, readopen, writeopen, want>>
    BY Zenon DEF sys_exit, exited, kill, pipe, calls
  <1>2. pc' \in [Procs -> PCs] /\ killed' \in [Procs -> BOOLEAN]
        /\ back' \in [Procs -> {"user", "exit"}]
    BY Zenon DEF FInv, FTypes, PCs, sys_exit, exited, kill, calls, Go
  <1>3. FTypes'
    BY <1>1, <1>2, Zenon DEF FInv, FTypes
  <1>4. \A q \in Procs : /\ pc'[q] = "pipe" <=> pc[q] = "pipe"
                         /\ pc'[q] = "none" => ofile[q] = AllClosed
                         /\ pc'[q] \in {"write", "sleepw"} => pc[q] \in {"write", "sleepw"}
                         /\ pc'[q] \in {"read", "sleepr"} => pc[q] \in {"read", "sleepr"}
                         /\ pc'[q] \in {"closer", "closew"} => pc'[q] = pc[q]
    BY DEF FInv, FTypes, Control, FreeShut, PCs, sys_exit, exited, kill, Go, At
  <1>5. FileRefsExact' /\ Control'
    <2>1. \A q \in Procs : /\ pc'[q] \in {"write", "sleepw"} => Ends(q, TRUE)
                           /\ pc'[q] \in {"read", "sleepr"} => Ends(q, FALSE) /\ want'[q] > 0
      BY <1>1, <1>4, Zenon DEF FInv, Control, InCalls
    <2> QED
      BY <1>1, <1>4, <2>1, FilesKept, Zenon
  <1>6. EndsInv'
    BY <1>1, <1>4, EndsKept
  <1> QED
    BY <1>3, <1>5, <1>6, Zenon DEF FInv

\* A read or write call starts.
LEMMA CallFInv == ASSUME NEW p \in Procs, FInv, sys_write(p) \/ sys_read(p) PROVE FInv'
  <1>1. UNCHANGED <<file, ofile, rf, exists, readopen, writeopen, killed, back>>
    BY Zenon DEF sys_write, sys_read, pipe
  <1>2. PICK s \in {"read", "write"} : pc' = [pc EXCEPT ![p] = s] /\ pc[p] = "user"
                                       /\ Ends(p, s = "write")
    <2>1. CASE sys_write(p)
      BY <2>1, Zenon DEF sys_write, Go, InUser, At
    <2>2. CASE sys_read(p)
      BY <2>2, Zenon DEF sys_read, Go, InUser, At
    <2> QED
      BY <2>1, <2>2, Zenon
  <1>3. want' \in [Procs -> Nat] /\ (s = "read" => want'[p] > 0)
        /\ \A q \in Procs \ {p} : want'[q] = want[q]
    <2>1. want \in [Procs -> Nat] /\ pc \in [Procs -> PCs]
      BY Zenon DEF FInv, FTypes
    <2>2. CASE sys_write(p)
      BY <1>2, <2>1, <2>2, Zenon DEF sys_write, Go
    <2>3. CASE sys_read(p)
      BY <2>1, <2>3, InputAssumption DEF sys_read
    <2> QED
      BY <2>2, <2>3, Zenon
  <1>4. pc' \in [Procs -> PCs] /\ pc \in [Procs -> PCs]
    BY <1>2, Zenon DEF FInv, FTypes, PCs
  <1>5. FTypes'
    BY <1>1, <1>3, <1>4, Zenon DEF FInv, FTypes
  <1>6. \A q \in Procs : q # p => pc'[q] = pc[q]
    BY <1>2, <1>4, Zenon
  <1>7. pc'[p] = s
    BY <1>2, <1>4, Zenon
  <1>8. FileRefsExact' /\ Control'
    <2>1. \A q \in Procs : /\ pc'[q] = "pipe" <=> pc[q] = "pipe"
                           /\ pc'[q] = "none" => ofile[q] = AllClosed
      BY <1>2, <1>6, <1>7, Zenon DEF FInv, Control, FreeShut
    <2>2. \A q \in Procs : pc'[q] \in {"write", "sleepw"} => Ends(q, TRUE)
      BY <1>2, <1>6, <1>7, Zenon DEF FInv, Control, InCalls
    <2>3. \A q \in Procs : pc'[q] \in {"read", "sleepr"} => Ends(q, FALSE) /\ want'[q] > 0
      BY <1>2, <1>3, <1>6, <1>7, Zenon DEF FInv, Control, InCalls
    <2> QED
      BY <1>1, <2>1, <2>2, <2>3, FilesKept, Zenon
  <1>9. EndsInv'
    BY <1>1, <1>2, <1>6, <1>7, EndsKept
  <1> QED
    BY <1>5, <1>8, <1>9, Zenon DEF FInv

\* A step of piperead, pipewrite or pipeclose moves its process, and wakes some.
LEMMA TransferPc ==
    ASSUME NEW p \in Procs, FInv, piperead(p) \/ pipewrite(p) \/ pipeclose(p)
    PROVE  /\ pc' \in [Procs -> PCs]
           /\ pc[p] \in {"read", "write", "closer", "closew"}
           /\ pc'[p] \in {"user", "exit", "sleepr", "sleepw"}
           /\ pc'[p] = "sleepr" => pc[p] = "read"
           /\ pc'[p] = "sleepw" => pc[p] = "write"
           /\ \A q \in Procs : q # p =>
                \/ pc'[q] = pc[q]
                \/ pc[q] = "sleepr" /\ pc'[q] = "read"
                \/ pc[q] = "sleepw" /\ pc'[q] = "write"
  <1> USE DEF FInv, FTypes
  <1>1. CASE piperead(p)
    <2>1. PICK s \in {"user", "sleepr"} : Go(p, s) \/ GoWaking(p, s, "sleepw", "write")
      BY <1>1, Zenon DEF piperead
    <2> QED
      BY <1>1, <2>1, Zenon DEF piperead, At, Go, GoWaking, PCs
  <1>2. CASE pipewrite(p)
    <2>1. PICK s \in {"user", "sleepw"} : Go(p, s) \/ GoWaking(p, s, "sleepr", "read")
      BY <1>2, Zenon DEF pipewrite
    <2>2. pc[p] = "write"
      BY <1>2, Zenon DEF pipewrite, At
    <2> QED
      BY <2>1, <2>2, Zenon DEF Go, GoWaking, PCs
  <1>3. CASE pipeclose(p)
    <2>1. back[p] \in {"user", "exit"}
      OBVIOUS
    <2> QED
      BY <1>3, <2>1 DEF pipeclose, At, GoWaking, PCs
  <1> QED
    BY <1>1, <1>2, <1>3, Zenon

\* ... and leaves files and descriptors alone.
LEMMA TransferFiles ==
    ASSUME NEW p \in Procs, FInv, piperead(p) \/ pipewrite(p) \/ pipeclose(p)
    PROVE  /\ UNCHANGED <<file, ofile, rf, killed>>
           /\ back' \in [Procs -> {"user", "exit"}] /\ want' \in [Procs -> Nat]
           /\ \A q \in Procs : q # p => want'[q] = want[q]
           /\ pc'[p] = "sleepr" => want'[p] = want[p]
           /\ FileRefsExact' /\ Control'
  <1>1. /\ UNCHANGED <<file, ofile, rf, killed>>
        /\ back' \in [Procs -> {"user", "exit"}]
    BY Zenon DEF FInv, FTypes, piperead, pipewrite, pipeclose
  <1>2. /\ want' \in [Procs -> Nat]
        /\ \A q \in Procs : q # p => want'[q] = want[q]
        /\ pc'[p] = "sleepr" => want'[p] = want[p]
    <2>1. want \in [Procs -> Nat] /\ pc \in [Procs -> PCs]
      BY Zenon DEF FInv, FTypes
    <2>2. CASE pipewrite(p) \/ pipeclose(p)
      BY <2>1, <2>2, Zenon DEF pipewrite, pipeclose
    <2>3. CASE piperead(p)
      BY <2>1, <2>3 DEF piperead, GoWaking, Go
    <2> QED
      BY <2>2, <2>3, Zenon
  <1>3. FileRefsExact' /\ Control'
    <2>1. \A q \in Procs : /\ pc'[q] = "pipe" <=> pc[q] = "pipe"
                           /\ pc'[q] = "none" => pc[q] = "none"
                           /\ pc'[q] \in {"write", "sleepw"} => pc[q] \in {"write", "sleepw"}
                           /\ pc'[q] \in {"read", "sleepr"} =>
                                pc[q] \in {"read", "sleepr"} /\ want'[q] = want[q]
      BY <1>2, TransferPc, Zenon
    <2>2. \A q \in Procs : /\ pc'[q] = "none" => ofile[q] = AllClosed
                           /\ pc'[q] \in {"write", "sleepw"} => Ends(q, TRUE)
                           /\ pc'[q] \in {"read", "sleepr"} => Ends(q, FALSE) /\ want'[q] > 0
      BY <2>1, Zenon DEF FInv, Control, FreeShut, InCalls
    <2> QED
      BY <1>1, <2>1, <2>2, FilesKept, Zenon
  <1> QED
    BY <1>1, <1>2, <1>3, Zenon

\* Reading and writing keep the invariant of the files.
LEMMA TransferFInv == ASSUME NEW p \in Procs, FInv, piperead(p) \/ pipewrite(p) PROVE FInv'
  <1>1. UNCHANGED <<exists, readopen, writeopen>>
    BY Zenon DEF piperead, pipewrite
  <1>2. FTypes'
    BY <1>1, TransferPc, TransferFiles DEF FInv, FTypes
  <1>3. EndsInv'
    BY <1>1, TransferPc, TransferFiles, EndsKept, Zenon
  <1> QED
    BY <1>2, <1>3, TransferFiles, Zenon DEF FInv

\* pipeclose: nobody else closes the same end, and no file is left of it.
LEMMA PipecloseFInv == ASSUME NEW p \in Procs, FInv, pipeclose(p) PROVE FInv'
  <1>1. PICK w \in BOOLEAN : /\ pc[p] = IF w THEN "closew" ELSE "closer"
                             /\ OpenEnd(w)' = FALSE /\ OpenEnd(~w)' = OpenEnd(~w)
    BY Zenon DEF pipeclose, At, OpenEnd
  <1>2. exists' = (readopen' \/ writeopen')
    BY Zenon DEF pipeclose
  <1>3. FTypes'
    <2>1. readopen' \in BOOLEAN /\ writeopen' \in BOOLEAN
      BY Zenon DEF FInv, FTypes, pipeclose
    <2> QED
      BY <1>2, <2>1, TransferPc, TransferFiles DEF FInv, FTypes
  <1>4. EndsInv'
    <2>1. \A v \in BOOLEAN : Pipes(v)' = Pipes(v)
      BY TransferFiles, Zenon DEF Pipes
    <2>2. p \in Closing(w)
      BY <1>1, Zenon DEF Closing
    <2>3. Pipes(w) = {} /\ Closing(w) = {p}
      BY <2>2, Zenon DEF FInv, EndsInv
    <2>4. Closing(w)' = {} /\ Closing(~w)' \subseteq Closing(~w)
      <3>1. \A q \in Procs : pc'[q] \in {"closer", "closew"} => q # p /\ pc'[q] = pc[q]
        BY TransferPc, Zenon
      <3> QED
        BY <2>3, <3>1, Zenon DEF Closing
    <2>5. \A v \in BOOLEAN : v = w \/ v = ~w
      BY Zenon
    <2>6. \A v \in BOOLEAN : Closing(v)' \subseteq Closing(v)
      BY <2>4, <2>5, Zenon
    <2>7. /\ Pipes(w)' # {} \/ Closing(w)' # {} => OpenEnd(w)'
          /\ Pipes(~w)' # {} \/ Closing(~w)' # {} => OpenEnd(~w)'
      BY <1>1, <2>1, <2>3, <2>4, Zenon DEF FInv, EndsInv
    <2>8. exists' <=> readopen' \/ writeopen'
      BY <1>2, Zenon
    <2>9. \A v \in BOOLEAN : /\ Pipes(v)' # {} \/ Closing(v)' # {} => OpenEnd(v)'
                             /\ \A f, g \in Pipes(v)' : f = g
                             /\ \A q, r \in Closing(v)' : q = r
                             /\ Pipes(v)' = {} \/ Closing(v)' = {}
      BY <2>1, <2>5, <2>6, <2>7 DEF FInv, EndsInv
    <2> QED
      BY <2>8, <2>9, Zenon DEF EndsInv
  <1> QED
    BY <1>3, <1>4, TransferFiles, Zenon DEF FInv

-----------------------------------------------------------------------------
\* Steps that change files and descriptors

\* Descriptor d of p becomes free.
Drop(p, d) == ofile' = [ofile EXCEPT ![p][d] = None]

\* What the close of descriptor d of p, which names f, does.
Closed(p, d, f) ==
    /\ f \in Files /\ file[f] \in FileRec /\ file[f].type = "pipe"
    /\ FileRefsExact'
    /\ file[f].ref <= 1 => Holders(f) = {<<p, d>>}
    /\ file' \in [Files -> FileRec]
    /\ \A g \in Files : g # f => file'[g] = file[g]
    /\ file[f].ref <= 1 => file'[f] = NoFile
    /\ file[f].ref > 1 => file'[f] = [ref |-> file[f].ref - 1, type |-> "pipe",
                                      writable |-> file[f].writable]
    /\ \A q \in Procs, e \in Fds :
         ofile'[q][e] = IF q = p /\ e = d THEN None ELSE ofile[q][e]

\* fileclose of a descriptor, by close or by exit: one reference less.
LEMMA CloseCount ==
    ASSUME NEW p \in Procs, FInv, NEW d \in Fds, NEW f, f = ofile[p][d], f # None,
           NEW then, fileclose(p, f, then), Drop(p, d), UNCHANGED rf
    PROVE  Closed(p, d, f)
  <1>1. f \in Files /\ file[f].type = "pipe" /\ file[f] \in FileRec /\ file[f].ref \in Nat
    BY DEF FInv, FTypes, Control, NamedPipes, FileRec
  <1>2. \A q \in Procs : rf[q] # f
    BY <1>1 DEF FInv, Control, Pending, Fresh, Files, None
  <1>3. \A q \in Procs, e \in Fds :
          ofile'[q][e] = IF q = p /\ e = d THEN None ELSE ofile[q][e]
    BY Zenon DEF FInv, FTypes, Drop
  <1>4. \A g \in Files, h \in Procs \X (Fds \cup {None}) :
          h \in Holders(g)' <=> h \in Holders(g) /\ h # <<p, d>>
    <2> SUFFICES ASSUME NEW g \in Files, NEW h \in Procs \X (Fds \cup {None})
                 PROVE  h \in Holders(g)' <=> h \in Holders(g) /\ h # <<p, d>>
      BY Zenon
    <2>1. g # None /\ d # None
      BY DEF Files, Fds, None
    <2>2. PICK q \in Procs, e \in Fds \cup {None} : h = <<q, e>>
      OBVIOUS
    <2>3. CASE e = None
      BY <2>1, <2>2, <2>3, HoldersDef, HoldersDefNext
    <2>4. CASE e \in Fds
      <3>1. <<q, e>> \in Holders(g)' <=> ofile'[q][e] = g
        BY <2>4 DEF Holders, Fds, None
      <3>2. <<q, e>> \in Holders(g) <=> ofile[q][e] = g
        BY <2>4 DEF Holders, Fds, None
      <3>3. CASE q = p /\ e = d
        BY <1>3, <2>1, <2>2, <3>1, <3>3, Zenon
      <3>4. CASE ~(q = p /\ e = d)
        BY <1>3, <2>2, <2>4, <3>1, <3>2, <3>4, Zenon
      <3> QED
        BY <3>3, <3>4, Zenon
    <2> QED
      BY <2>3, <2>4, Zenon
  <1>5. <<p, d>> \in Holders(f)
    BY HoldersDef, Zenon
  <1>6. /\ Holders(f)' = Holders(f) \ {<<p, d>>}
        /\ \A g \in Files : g # f => Holders(g)' = Holders(g)
    <2>1. \A g \in Files : Holders(g)' = Holders(g) \ {<<p, d>>}
      BY <1>4 DEF Holders
    <2>2. \A g \in Files : g # f => <<p, d>> \notin Holders(g)
      BY HoldersDef, Zenon
    <2> QED
      BY <1>1, <2>1, <2>2, Zenon
  <1>7. file[f].ref = Cardinality(Holders(f))
    BY <1>1, Zenon DEF FInv, FileRefsExact
  <1>8. Cardinality(Holders(f)') = file[f].ref - 1 /\ file[f].ref >= 1
    <2>1. Cardinality(Holders(f) \ {<<p, d>>}) = Cardinality(Holders(f)) - 1
      BY <1>5, HoldersFinite, FS_RemoveElement, Zenon
    <2>2. Cardinality(Holders(f)) # 0
      BY <1>5, HoldersFinite, Zenon
    <2> QED
      BY <1>1, <1>6, <1>7, <2>1, <2>2
  <1>9. /\ \A g \in Files : g # f => file'[g] = file[g]
        /\ file[f].ref <= 1 => file'[f] = NoFile
        /\ file[f].ref > 1 => file'[f] = [ref |-> file[f].ref - 1, type |-> "pipe",
                                          writable |-> file[f].writable]
        /\ file' \in [Files -> FileRec]
    <2>1. file \in [Files -> FileRec]
      BY DEF FInv, FTypes
    <2>2. CASE file[f].ref > 1
      <3>1. file' = [file EXCEPT ![f].ref = @ - 1]
        BY <2>2, Zenon DEF fileclose
      <3>2. file'[f] = [file[f] EXCEPT !.ref = @ - 1]
        BY <1>1, <2>1, <3>1, Zenon
      <3>3. file'[f] = [ref |-> file[f].ref - 1, type |-> "pipe", writable |-> file[f].writable]
        BY <1>1, <3>2, Zenon DEF FileRec
      <3>4. file'[f] \in FileRec
        BY <1>1, <2>2, <3>3 DEF FileRec
      <3> QED
        BY <1>1, <2>1, <2>2, <3>1, <3>3, <3>4
    <2>3. CASE ~(file[f].ref > 1)
      <3>1. file' = [file EXCEPT ![f] = NoFile]
        BY <2>3, Zenon DEF fileclose
      <3>2. NoFile \in FileRec
        BY Zenon DEF FileRec, NoFile
      <3> QED
        BY <1>1, <2>1, <2>3, <3>1, <3>2, Zenon
    <2> QED
      BY <2>2, <2>3, Zenon
  <1>10. FileRefsExact'
    <2> SUFFICES ASSUME NEW g \in Files PROVE file'[g].ref = Cardinality(Holders(g)')
      BY Zenon DEF FileRefsExact
    <2>1. CASE g # f
      BY <1>6, <1>9, <2>1, Zenon DEF FInv, FileRefsExact
    <2>2. CASE g = f
      <3>1. file'[f].ref = file[f].ref - 1
        BY <1>1, <1>8, <1>9 DEF NoFile
      <3> QED
        BY <1>8, <2>2, <3>1, Zenon
    <2> QED
      BY <2>1, <2>2, Zenon
  <1>11. file[f].ref <= 1 => Holders(f) = {<<p, d>>}
    <2> SUFFICES ASSUME file[f].ref <= 1 PROVE Holders(f) = {<<p, d>>}
      BY Zenon
    <2>1. Cardinality(Holders(f) \ {<<p, d>>}) = 0
      <3>1. file[f].ref = 1
        BY <1>1, <1>8
      <3> QED
        BY <1>6, <1>8, <3>1
    <2>2. IsFiniteSet(Holders(f) \ {<<p, d>>})
      BY HoldersFinite, FS_RemoveElement, Zenon
    <2> QED
      BY <1>5, <2>1, <2>2, FS_EmptySet, Zenon
  <1> QED
    BY <1>1, <1>3, <1>9, <1>10, <1>11, Zenon DEF Closed

Closes(p, d, f, then) ==
    /\ f = ofile[p][d] /\ f # None /\ pc[p] \in {"user", "exit"}
    /\ fileclose(p, f, then) /\ Drop(p, d)
    /\ UNCHANGED <<exists, readopen, writeopen, want, rf, killed>>

\* fileclose of a descriptor keeps the invariant; the last one of an end leaves
\* its process in pipeclose.
LEMMA CloseFInv ==
    ASSUME NEW p \in Procs, FInv, NEW d \in Fds, NEW f, NEW then \in {"user", "exit"},
           Closes(p, d, f, then)
    PROVE  FInv'
  <1> DEFINE last == file[f].ref <= 1
  <1>0. Closed(p, d, f)
    <2>1. UNCHANGED rf /\ f = ofile[p][d] /\ f # None /\ fileclose(p, f, then) /\ Drop(p, d)
      BY Zenon DEF Closes
    <2> QED
      BY <2>1, CloseCount, Zenon
  <1>10. fileclose(p, f, then) /\ Drop(p, d)
    BY Zenon DEF Closes
  <1>11. /\ exists' = exists /\ readopen' = readopen /\ writeopen' = writeopen
         /\ want' = want /\ rf' = rf /\ killed' = killed
    BY Zenon DEF Closes
  <1>12. pc[p] \in {"user", "exit"}
    BY Zenon DEF Closes
  <1>1. /\ f \in Files /\ file[f].type = "pipe" /\ FileRefsExact'
        /\ last => Holders(f) = {<<p, d>>}
    <2>1. f \in Files /\ file[f].type = "pipe" /\ FileRefsExact'
      BY <1>0, Zenon DEF Closed
    <2>2. file[f].ref <= 1 => Holders(f) = {<<p, d>>}
      BY <1>0, Zenon DEF Closed
    <2> QED
      BY <2>1, <2>2, Zenon
  <1>2. /\ file[f] \in FileRec /\ file' \in [Files -> FileRec]
        /\ file[f].ref \in Nat /\ file[f].writable \in BOOLEAN
        /\ \A g \in Files : g # f => file'[g] = file[g]
        /\ last => file'[f] = NoFile
        /\ ~last => /\ file'[f] = [ref |-> file[f].ref - 1, type |-> "pipe",
                                   writable |-> file[f].writable]
                    /\ file[f].ref > 1
    <2>1. file[f] \in FileRec /\ file[f].ref \in Nat /\ file[f].writable \in BOOLEAN
      BY <1>0, Zenon DEF Closed, FileRec
    <2>2. ~last => file[f].ref > 1
      BY <2>1
    <2>3. file' \in [Files -> FileRec] /\ \A g \in Files : g # f => file'[g] = file[g]
      BY <1>0, Zenon DEF Closed
    <2>4. /\ file[f].ref <= 1 => file'[f] = NoFile
          /\ file[f].ref > 1 => file'[f] = [ref |-> file[f].ref - 1, type |-> "pipe",
                                            writable |-> file[f].writable]
      BY <1>0, Zenon DEF Closed
    <2> QED
      BY <2>1, <2>2, <2>3, <2>4, Zenon
  <1>3. pc' = [pc EXCEPT ![p] = IF ~last THEN then
                                ELSE IF file[f].writable THEN "closew" ELSE "closer"]
    BY <1>2, <1>10 DEF fileclose, Go
  <1>4. back' = [back EXCEPT ![p] = then]
    BY <1>10, Zenon DEF fileclose
  <1>5. /\ pc' \in [Procs -> PCs]
        /\ pc'[p] = IF ~last THEN then ELSE IF file[f].writable THEN "closew" ELSE "closer"
        /\ \A q \in Procs : q # p => pc'[q] = pc[q]
    BY <1>3, Zenon DEF FInv, FTypes, PCs
  <1>6. /\ ofile' \in [Procs -> [Fds -> Files \cup {None}]]
        /\ \A q \in Procs, e \in Fds : ofile'[q][e] = IF q = p /\ e = d THEN None ELSE ofile[q][e]
        /\ \A q \in Procs : q # p => ofile'[q] = ofile[q]
    BY <1>10, Zenon DEF FInv, FTypes, Drop
  <1> HIDE DEF last
  <1>7. FTypes'
    BY <1>2, <1>4, <1>5, <1>6, <1>11, Zenon DEF FInv, FTypes
  <1>8. Control'
    <2>1. \A g \in Files : file'[g].ref = 0 => file'[g] = NoFile
      BY <1>2 DEF FInv, Control, FreeBlank
    <2>2. \A q \in Procs, e \in Fds : ofile'[q][e] = f => ~last
      <3> SUFFICES ASSUME NEW q \in Procs, NEW e \in Fds, ofile'[q][e] = f, last PROVE FALSE
        BY Zenon
      <3>1. f # None
        BY <1>1 DEF Files, None
      <3>2. ofile[q][e] = f /\ <<q, e>> # <<p, d>>
        BY <1>6, <3>1, Zenon
      <3>3. <<q, e>> \in Holders(f)
        BY <3>2, HoldersDef, Zenon
      <3> QED
        BY <1>1, <3>2, <3>3, Zenon
    <2>3. \A q \in Procs, e \in Fds :
             ofile'[q][e] # None => file'[ofile'[q][e]].type = "pipe"
                                    /\ file'[ofile'[q][e]].writable = file[ofile[q][e]].writable
      <3> SUFFICES ASSUME NEW q \in Procs, NEW e \in Fds, ofile'[q][e] # None
                   PROVE  file'[ofile'[q][e]].type = "pipe"
                          /\ file'[ofile'[q][e]].writable = file[ofile[q][e]].writable
        BY Zenon
      <3>1. ofile'[q][e] = ofile[q][e] /\ ofile[q][e] \in Files
        BY <1>6 DEF FInv, FTypes
      <3>2. CASE ofile[q][e] = f
        BY <1>1, <1>2, <2>2, <3>1, <3>2
      <3>3. CASE ofile[q][e] # f
        BY <1>2, <3>1, <3>3 DEF FInv, Control, NamedPipes
      <3> QED
        BY <3>2, <3>3, Zenon
    <2>4. \A q \in Procs : IF pc'[q] = "pipe" THEN rf'[q] \in Files /\ file'[rf'[q]] = Fresh
                                             ELSE rf'[q] = None
      <3> SUFFICES ASSUME NEW q \in Procs
                   PROVE  IF pc'[q] = "pipe" THEN rf[q] \in Files /\ file'[rf[q]] = Fresh
                                             ELSE rf[q] = None
        BY <1>11, Zenon
      <3>1. IF pc[q] = "pipe" THEN rf[q] \in Files /\ file[rf[q]] = Fresh ELSE rf[q] = None
        BY Zenon DEF FInv, Control, Pending
      <3>2. pc'[q] = "pipe" <=> pc[q] = "pipe"
        BY <1>5, <1>12, Zenon
      <3>3. CASE pc[q] = "pipe"
        <4>1. rf[q] # f
          <5>1. Fresh.type = "none"
            BY Zenon DEF Fresh
          <5> QED
            BY <1>1, <3>1, <3>3, <5>1, Zenon
        <4> QED
          BY <1>2, <3>1, <3>2, <3>3, <4>1, Zenon
      <3> QED
        BY <3>1, <3>2, <3>3, Zenon
    <2>5. \A q \in Procs : pc'[q] = "none" => ofile'[q] = AllClosed
      BY <1>5, <1>6, Zenon DEF FInv, Control, FreeShut
    <2>6. \A q \in Procs, w \in BOOLEAN : q # p /\ Ends(q, w) => Ends(q, w)'
      BY <1>6, <2>3 DEF Ends, FreeFds
    <2>7. \A q \in Procs : /\ pc'[q] \in {"write", "sleepw"} => Ends(q, TRUE)'
                           /\ pc'[q] \in {"read", "sleepr"} => Ends(q, FALSE)' /\ want'[q] > 0
      BY <1>5, <1>11, <2>6, Zenon DEF FInv, Control, InCalls
    <2>8. FreeBlank' /\ NamedPipes' /\ Pending'
      BY <2>1, <2>3, <2>4, Zenon DEF FreeBlank, NamedPipes, Pending
    <2>9. OnePending' /\ FreeShut' /\ InCalls'
      BY <1>11, <2>5, <2>7, Zenon DEF FInv, Control, OnePending, FreeShut, InCalls
    <2> QED
      BY <2>8, <2>9, Zenon DEF Control
  <1>9. EndsInv'
    <2>1. CASE ~last
      <3>1. \A w \in BOOLEAN : Pipes(w)' = Pipes(w)
        <4>1. ASSUME NEW g \in Files
              PROVE  file'[g].type = file[g].type /\ file'[g].writable = file[g].writable
          <5>1. CASE g = f
            BY <1>1, <1>2, <2>1, <5>1
          <5> QED
            BY <1>2, <5>1, Zenon
        <4> QED
          BY <4>1, Zenon DEF Pipes
      <3>2. \A w \in BOOLEAN : Closing(w)' = Closing(w) /\ OpenEnd(w)' = OpenEnd(w)
        BY <1>5, <1>11, <1>12, <2>1, Zenon DEF Closing, OpenEnd
      <3> QED
        BY <1>11, <3>1, <3>2 DEF FInv, EndsInv
    <2>2. CASE last
      <3>0. PICK w \in BOOLEAN : w = file[f].writable
        BY <1>2, Zenon
      <3>1. w \in BOOLEAN /\ f \in Pipes(w)
        BY <1>1, <3>0, Zenon DEF Pipes
      <3>2. Pipes(w) = {f} /\ Closing(w) = {} /\ OpenEnd(w)
        BY <3>1, Zenon DEF FInv, EndsInv
      <3>3. Pipes(w)' = {}
        BY <1>2, <2>2, <3>2 DEF Pipes, NoFile
      <3>4. Closing(w)' = {p}
        BY <1>5, <2>2, <3>0, <3>2, Zenon DEF Closing
      <3>5. Pipes(~w)' = Pipes(~w)
        <4>1. NoFile.type = "none"
          BY Zenon DEF NoFile
        <4>2. f \notin Pipes(~w) /\ f \notin Pipes(~w)'
          BY <1>2, <2>2, <3>0, <4>1, Zenon DEF Pipes
        <4>3. ASSUME NEW g \in Files, g # f PROVE g \in Pipes(~w)' <=> g \in Pipes(~w)
          BY <1>2, <4>3, Zenon DEF Pipes
        <4>4. Pipes(~w) \subseteq Files /\ Pipes(~w)' \subseteq Files
          BY Zenon DEF Pipes
        <4> QED
          BY <4>2, <4>3, <4>4
      <3>6. Closing(~w)' = Closing(~w)
        BY <1>5, <1>12, <2>2, <3>0, Zenon DEF Closing
      <3>7. \A v \in BOOLEAN : OpenEnd(v)' = OpenEnd(v)
        BY <1>11, Zenon DEF OpenEnd
      <3>8. \A v \in BOOLEAN : v = w \/ v = ~w
        BY <3>1, Zenon
      <3>9. \A v \in BOOLEAN : /\ Pipes(v)' # {} \/ Closing(v)' # {} => OpenEnd(v)'
                               /\ \A g, h \in Pipes(v)' : g = h
                               /\ \A q, r \in Closing(v)' : q = r
                               /\ Pipes(v)' = {} \/ Closing(v)' = {}
        BY <3>1, <3>2, <3>3, <3>4, <3>5, <3>6, <3>7, <3>8 DEF FInv, EndsInv
      <3> QED
        BY <1>11, <3>9, Zenon DEF FInv, EndsInv
    <2> QED
      BY <2>1, <2>2, Zenon
  <1> QED
    BY <1>1, <1>7, <1>8, <1>9, Zenon DEF FInv

\* close(fd).
LEMMA SysCloseFInv == ASSUME NEW p \in Procs, FInv, sys_close(p) PROVE FInv'
  <1>1. PICK d \in Fds \ FreeFds(p) : /\ fileclose(p, ofile[p][d], "user")
                                      /\ Drop(p, d)
    BY Zenon DEF sys_close, Drop
  <1> QED
    <2>1. Closes(p, d, ofile[p][d], "user")
      BY <1>1, Zenon DEF Closes, sys_close, pipe, InUser, At, FreeFds
    <2> QED
      BY <2>1, CloseFInv, Zenon

\* One turn of exit's loop over the descriptors.
LEMMA ExitCloseFInv == ASSUME NEW p \in Procs, FInv, exit(p) PROVE FInv'
  <1> DEFINE d == Min(Fds \ FreeFds(p))
  <1>1. d \in Fds \ FreeFds(p)
    BY MinIn DEF exit, Fds
  <1>2. d \in Fds /\ ofile[p][d] # None
    BY <1>1, Zenon DEF FreeFds
  <1>3. /\ fileclose(p, ofile[p][d], "exit") /\ Drop(p, d)
        /\ pc[p] = "exit" /\ UNCHANGED <<exists, readopen, writeopen, want, rf, killed>>
    BY DEF exit, pipe, At, Drop
  <1> HIDE DEF d
  <1> QED
    <2>1. Closes(p, d, ofile[p][d], "exit")
      BY <1>2, <1>3, Zenon DEF Closes
    <2> QED
      BY <1>2, <2>1, CloseFInv, Zenon

\* Files keep their types, and those without descriptors stay as they are.
SameFiles ==
    /\ file' \in [Files -> FileRec]
    /\ \A f \in Files : /\ file'[f].type = file[f].type /\ file'[f].writable = file[f].writable
                        /\ file'[f].ref >= file[f].ref
                        /\ file[f] = Fresh \/ file[f] = NoFile => file'[f] = file[f]

\* What dup and fork do: processes in user mode get descriptors of files that
\* other descriptors name.
Shares ==
    /\ UNCHANGED <<exists, readopen, writeopen, want, rf, killed, back>>
    /\ pc' \in [Procs -> PCs]
    /\ \A p \in Procs : pc'[p] = pc[p] \/ (pc[p] = "none" /\ pc'[p] = "user")
    /\ ofile' \in [Procs -> [Fds -> Files \cup {None}]]
    /\ \A p \in Procs : pc[p] \notin {"none", "user"} \/ pc'[p] = "none" => ofile'[p] = ofile[p]
    /\ \A p \in Procs, d \in Fds : ofile'[p][d] # None =>
         \E q \in Procs, e \in Fds : ofile'[p][d] = ofile[q][e]

\* ... which keeps the invariant, once the counts are known to be right.
LEMMA SharedFInv == ASSUME FInv, SameFiles, FileRefsExact', Shares PROVE FInv'
  <1>1. FTypes'
    BY Zenon DEF FInv, FTypes, SameFiles, Shares
  <1>2. Control'
    <2>1. \A f \in Files : file'[f].ref = 0 => file'[f] = NoFile
      <3> SUFFICES ASSUME NEW f \in Files, file'[f].ref = 0 PROVE file'[f] = NoFile
        BY Zenon
      <3>1. file[f].ref = 0
        BY DEF SameFiles, FInv, FTypes, FileRec
      <3> QED
        BY <3>1, Zenon DEF SameFiles, FInv, Control, FreeBlank
    <2>2. \A p \in Procs, d \in Fds : ofile'[p][d] # None => file'[ofile'[p][d]].type = "pipe"
      <3> SUFFICES ASSUME NEW p \in Procs, NEW d \in Fds, ofile'[p][d] # None
                   PROVE  file'[ofile'[p][d]].type = "pipe"
        BY Zenon
      <3>1. PICK q \in Procs, e \in Fds : ofile'[p][d] = ofile[q][e]
        BY Zenon DEF Shares
      <3>2. ofile[q][e] \in Files /\ file[ofile[q][e]].type = "pipe"
        BY <3>1 DEF FInv, FTypes, Control, NamedPipes
      <3> QED
        BY <3>1, <3>2, Zenon DEF SameFiles
    <2>3. \A p \in Procs : IF pc'[p] = "pipe" THEN rf'[p] \in Files /\ file'[rf'[p]] = Fresh
                                             ELSE rf'[p] = None
      <3> SUFFICES ASSUME NEW p \in Procs
                   PROVE  IF pc'[p] = "pipe" THEN rf'[p] \in Files /\ file'[rf'[p]] = Fresh
                                             ELSE rf'[p] = None
        BY Zenon
      <3>1. rf' = rf /\ (pc'[p] = "pipe" <=> pc[p] = "pipe")
        BY Zenon DEF Shares
      <3>2. IF pc[p] = "pipe" THEN rf[p] \in Files /\ file[rf[p]] = Fresh ELSE rf[p] = None
        BY Zenon DEF FInv, Control, Pending
      <3>3. rf[p] \in Files /\ file[rf[p]] = Fresh => file'[rf[p]] = Fresh
        BY Zenon DEF SameFiles
      <3> QED
        BY <3>1, <3>2, <3>3, Zenon
    <2>4. \A p \in Procs, w \in BOOLEAN : pc[p] \notin {"none", "user"} /\ Ends(p, w) => Ends(p, w)'
      <3> SUFFICES ASSUME NEW p \in Procs, NEW w \in BOOLEAN, ofile'[p] = ofile[p], Ends(p, w)
                   PROVE  Ends(p, w)'
        BY Zenon DEF Shares
      <3>1. PICK d \in Fds : ofile[p][d] # None /\ file[ofile[p][d]].writable = w
        BY Zenon DEF Ends, FreeFds
      <3>2. ofile[p][d] \in Files
        BY <3>1 DEF FInv, FTypes
      <3> QED
        BY <3>1, <3>2, Zenon DEF Ends, FreeFds, SameFiles
    <2>5. \A p \in Procs : /\ pc'[p] = "none" => ofile'[p] = AllClosed
                           /\ pc'[p] \in {"write", "sleepw"} => Ends(p, TRUE)'
                           /\ pc'[p] \in {"read", "sleepr"} => Ends(p, FALSE)' /\ want'[p] > 0
      BY <2>4, Zenon DEF FInv, Control, FreeShut, InCalls, Shares
    <2>6. FreeBlank' /\ NamedPipes' /\ Pending'
      BY <2>1, <2>2, <2>3, Zenon DEF FreeBlank, NamedPipes, Pending
    <2>7. OnePending' /\ FreeShut' /\ InCalls'
      BY <2>5, Zenon DEF FInv, Control, OnePending, FreeShut, InCalls, Shares
    <2> QED
      BY <2>6, <2>7, Zenon DEF Control
  <1>3. EndsInv'
    <2>1. \A w \in BOOLEAN : Pipes(w)' = Pipes(w)
      BY Zenon DEF Pipes, SameFiles
    <2>2. \A w \in BOOLEAN : Closing(w)' = Closing(w) /\ OpenEnd(w)' = OpenEnd(w)
      BY Zenon DEF Closing, OpenEnd, Shares
    <2> QED
      BY <2>1, <2>2 DEF FInv, EndsInv, Shares
  <1> QED
    BY <1>1, <1>2, <1>3, Zenon DEF FInv

\* dup: one more reference to the file of descriptor d.
LEMMA DupFInv == ASSUME NEW p \in Procs, FInv, sys_dup(p) PROVE FInv'
  <1>1. PICK d \in Fds \ FreeFds(p) :
          /\ ofile' = [ofile EXCEPT ![p][Min(FreeFds(p))] = ofile[p][d]]
          /\ file' = [file EXCEPT ![ofile[p][d]].ref = @ + 1]
    BY Zenon DEF sys_dup
  <1>2. Min(FreeFds(p)) \in FreeFds(p)
    BY MinIn DEF sys_dup, FreeFds, Fds
  <1>3. PICK e \in Fds : e = Min(FreeFds(p)) /\ ofile[p][e] = None
    BY <1>2, Zenon DEF FreeFds
  <1>4. PICK f \in Files : f = ofile[p][d] /\ file[f].type = "pipe"
    BY DEF FInv, FTypes, Control, NamedPipes, FreeFds
  <1>5. /\ file \in [Files -> FileRec] /\ file[f] \in FileRec /\ file[f].ref \in Nat
        /\ file[f].ref = Cardinality(Holders(f))
    BY Zenon DEF FInv, FTypes, FileRec, FileRefsExact
  <1>6. /\ \A q \in Procs, c \in Fds : ofile'[q][c] = IF q = p /\ c = e THEN f ELSE ofile[q][c]
        /\ ofile' \in [Procs -> [Fds -> Files \cup {None}]]
        /\ \A q \in Procs : q # p => ofile'[q] = ofile[q]
    BY <1>1, <1>3, <1>4, Zenon DEF FInv, FTypes
  <1>7. UNCHANGED <<exists, readopen, writeopen, want, rf, killed, back, pc>> /\ pc[p] = "user"
    BY Zenon DEF sys_dup, pipe, calls, InUser, At
  <1>8. f # None /\ e # None /\ \A q \in Procs : rf[q] # f
    BY <1>4 DEF FInv, Control, Pending, Fresh, Files, Fds, None
  <1>9. /\ file'[f] = [ref |-> file[f].ref + 1, type |-> file[f].type, writable |-> file[f].writable]
        /\ \A g \in Files : g # f => file'[g] = file[g]
        /\ DOMAIN file' = Files /\ file' = [g \in Files |-> file'[g]]
    <2>1. file' = [file EXCEPT ![f].ref = @ + 1]
      BY <1>1, <1>4, Zenon
    <2>2. file'[f] = [file[f] EXCEPT !.ref = @ + 1]
      BY <1>5, <2>1, Zenon
    <2> QED
      BY <1>5, <2>1, <2>2, Zenon DEF FileRec
  <1>10. SameFiles
    <2>1. file'[f] \in FileRec /\ file'[f].ref >= file[f].ref
      BY <1>5, <1>9 DEF FileRec
    <2>2. file[f] # Fresh /\ file[f] # NoFile
      BY <1>4 DEF Fresh, NoFile
    <2>3. \A g \in Files : file[g].ref \in Nat /\ file[g] \in FileRec
      BY <1>5, Zenon DEF FileRec
    <2>4. file' \in [Files -> FileRec]
      BY <1>9, <2>1, <2>3, Zenon
    <2>5. \A g \in Files : file[g].ref >= file[g].ref
      BY <2>3
    <2> QED
      BY <1>9, <2>1, <2>2, <2>4, <2>5 DEF SameFiles
  <1>11. /\ Holders(f)' = Holders(f) \cup {<<p, e>>} /\ <<p, e>> \notin Holders(f)
         /\ \A g \in Files : g # f => Holders(g)' = Holders(g)
    <2>1. ASSUME NEW g \in Files, NEW h \in Procs \X (Fds \cup {None})
          PROVE  h \in Holders(g)' <=> h \in Holders(g) \/ (g = f /\ h = <<p, e>>)
      <3>1. PICK q \in Procs, c \in Fds \cup {None} : h = <<q, c>>
        OBVIOUS
      <3>2. g # None
        BY DEF Files, None
      <3>3. CASE c = None
        BY <1>7, <1>8, <3>1, <3>3, Zenon DEF Holders
      <3>4. CASE c \in Fds
        <4>1. c # None
          BY <3>4 DEF Fds, None
        <4>2. h \in Holders(g)' <=> ofile'[q][c] = g
          BY <3>1, <3>4, <4>1, Zenon DEF Holders
        <4>3. h \in Holders(g) <=> ofile[q][c] = g
          BY <3>1, <3>4, <4>1, Zenon DEF Holders
        <4>4. CASE q = p /\ c = e
          BY <1>3, <1>6, <3>1, <3>2, <4>2, <4>3, <4>4, Zenon
        <4>5. CASE ~(q = p /\ c = e)
          BY <1>6, <3>1, <3>4, <4>2, <4>3, <4>5, Zenon
        <4> QED
          BY <4>4, <4>5, Zenon
      <3> QED
        BY <3>3, <3>4, Zenon
    <2>2. \A g \in Files : Holders(g) \subseteq Procs \X (Fds \cup {None})
                           /\ Holders(g)' \subseteq Procs \X (Fds \cup {None})
      BY Zenon DEF Holders
    <2>3. <<p, e>> \notin Holders(f)
      BY <1>3, <1>8, Zenon DEF Holders
    <2>4. <<p, e>> \in Procs \X (Fds \cup {None})
      BY Zenon
    <2>5. Holders(f)' = Holders(f) \cup {<<p, e>>}
      BY <2>1, <2>2, <2>4, Zenon
    <2>6. \A g \in Files : g # f => Holders(g)' = Holders(g)
      BY <2>1, <2>2, Zenon
    <2> QED
      BY <2>3, <2>5, <2>6, Zenon
  <1>12. FileRefsExact'
    <2>1. Cardinality(Holders(f)') = file[f].ref + 1
      <3>1. IsFiniteSet(Holders(f))
        BY HoldersFinite, Zenon
      <3>2. Cardinality(Holders(f) \cup {<<p, e>>}) = Cardinality(Holders(f)) + 1
        BY <1>11, <3>1, FS_AddElement, Zenon
      <3> QED
        BY <1>5, <1>11, <3>2, Zenon
    <2>2. file'[f].ref = Cardinality(Holders(f)')
      BY <1>9, <2>1
    <2>3. \A g \in Files : g # f => file'[g].ref = Cardinality(Holders(g)')
      BY <1>9, <1>11, Zenon DEF FInv, FileRefsExact
    <2> QED
      BY <2>2, <2>3, Zenon DEF FileRefsExact
  <1>13. /\ pc' \in [Procs -> PCs]
         /\ \A q \in Procs : pc[q] \notin {"none", "user"} \/ pc'[q] = "none" => ofile'[q] = ofile[q]
    BY <1>6, <1>7 DEF FInv, FTypes
  <1>14. \A q \in Procs, c \in Fds : ofile'[q][c] # None =>
           \E r \in Procs, b \in Fds : ofile'[q][c] = ofile[r][b]
    BY <1>4, <1>6
  <1>15. UNCHANGED <<exists, readopen, writeopen, want, rf, killed, back>> /\ pc' = pc
    BY <1>7, Zenon
  <1>16. Shares
    <2>1. \A q \in Procs : pc'[q] = pc[q] \/ (pc[q] = "none" /\ pc'[q] = "user")
      BY <1>15, Zenon
    <2> QED
      BY <1>6, <1>13, <1>14, <1>15, <2>1, Zenon DEF Shares
  <1> QED
    BY <1>10, <1>12, <1>16, SharedFInv, Zenon

\* fork: every descriptor of the parent is one more reference to its file.
LEMMA ForkFInv == ASSUME NEW p \in Procs, NEW q \in Procs, FInv, fork(p, q) PROVE FInv'
  <1> DEFINE D(f) == {d \in Fds : ofile[p][d] = f}
  <1>1. /\ pc[p] = "user" /\ pc[q] = "none" /\ p # q
        /\ pc' = [pc EXCEPT ![q] = "user"]
        /\ ofile' = [ofile EXCEPT ![q] = ofile[p]]
        /\ file' = [f \in Files |-> [file[f] EXCEPT !.ref = @ + Cardinality(D(f))]]
        /\ UNCHANGED <<exists, readopen, writeopen, want, rf, killed, back>>
    BY Zenon DEF fork, InUser, At, Go, pipe, calls
  <1>2. file \in [Files -> FileRec] /\ ofile \in [Procs -> [Fds -> Files \cup {None}]]
        /\ pc \in [Procs -> PCs]
    BY Zenon DEF FInv, FTypes
  <1>3. \A f \in Files : /\ IsFiniteSet(D(f)) /\ Cardinality(D(f)) \in Nat
                         /\ D(f) = {} => Cardinality(D(f)) = 0
    <2>1. IsFiniteSet(Fds)
      BY TableAssumption, FS_Interval DEF Fds
    <2>2. \A f \in Files : D(f) \in SUBSET Fds
      BY Zenon
    <2> QED
      BY <2>1, <2>2, FS_Subset, FS_CardinalityType, FS_EmptySet, Zenon
  <1>4. /\ \A r \in Procs, d \in Fds : ofile'[r][d] = IF r = q THEN ofile[p][d] ELSE ofile[r][d]
        /\ ofile' \in [Procs -> [Fds -> Files \cup {None}]]
        /\ \A r \in Procs : r # q => ofile'[r] = ofile[r]
    BY <1>1, <1>2, Zenon
  <1>5. \A d \in Fds : ofile[q][d] = None
    BY <1>1, Zenon DEF FInv, Control, FreeShut, AllClosed
  <1>6. ASSUME NEW f \in Files
        PROVE  /\ file'[f] = [ref |-> file[f].ref + Cardinality(D(f)), type |-> file[f].type,
                              writable |-> file[f].writable]
               /\ file[f] \in FileRec /\ file[f].ref \in Nat
    <2>1. file'[f] = [file[f] EXCEPT !.ref = @ + Cardinality(D(f))]
      BY <1>1, Zenon
    <2> QED
      BY <1>2, <2>1 DEF FileRec
  <1>7. ASSUME NEW f \in Files
        PROVE  /\ IsFiniteSet({q} \X D(f)) /\ Cardinality({q} \X D(f)) = Cardinality(D(f))
    <2>1. IsFiniteSet(D(f)) /\ Cardinality(D(f)) \in Nat
      BY <1>3, Zenon
    <2>2. IsFiniteSet({q}) /\ Cardinality({q}) = 1
      BY FS_Singleton, Zenon
    <2> HIDE DEF D
    <2>3. /\ IsFiniteSet({q} \X D(f))
          /\ Cardinality({q} \X D(f)) = Cardinality({q}) * Cardinality(D(f))
      BY <2>1, <2>2, FS_Product, Zenon
    <2> QED
      BY <2>1, <2>2, <2>3
  <1>8. ASSUME NEW f \in Files
        PROVE  Holders(f)' = Holders(f) \cup ({q} \X D(f)) /\ Holders(f) \cap ({q} \X D(f)) = {}
    <2>1. ASSUME NEW h \in Procs \X (Fds \cup {None})
          PROVE  /\ h \in Holders(f)' <=> h \in Holders(f) \/ h \in {q} \X D(f)
                 /\ ~(h \in Holders(f) /\ h \in {q} \X D(f))
      <3>1. PICK r \in Procs, c \in Fds \cup {None} : h = <<r, c>>
        OBVIOUS
      <3>2. f # None /\ None \notin Fds
        BY DEF Files, Fds, None
      <3>3. CASE c = None
        BY <1>1, <3>1, <3>2, <3>3, Zenon DEF Holders
      <3>4. CASE c \in Fds
        <4>1. c # None
          BY <3>4 DEF Fds, None
        <4>2. h \in Holders(f)' <=> ofile'[r][c] = f
          BY <3>1, <3>4, <4>1, Zenon DEF Holders
        <4>3. h \in Holders(f) <=> ofile[r][c] = f
          BY <3>1, <3>4, <4>1, Zenon DEF Holders
        <4>4. h \in {q} \X D(f) <=> r = q /\ ofile[p][c] = f
          BY <3>1, <3>4, Zenon
        <4> QED
          BY <1>4, <1>5, <3>2, <3>4, <4>2, <4>3, <4>4, Zenon
      <3> QED
        BY <3>3, <3>4, Zenon
    <2>2. Holders(f) \subseteq Procs \X (Fds \cup {None})
          /\ Holders(f)' \subseteq Procs \X (Fds \cup {None})
      BY Zenon DEF Holders
    <2>3. {q} \X D(f) \subseteq Procs \X (Fds \cup {None})
      BY Zenon
    <2> HIDE DEF D
    <2> QED
      BY <2>1, <2>2, <2>3, Zenon
  <1>9. FileRefsExact'
    <2> SUFFICES ASSUME NEW f \in Files PROVE file'[f].ref = Cardinality(Holders(f)')
      BY Zenon DEF FileRefsExact
    <2> HIDE DEF D
    <2>1. Cardinality(Holders(f) \cap ({q} \X D(f))) = 0
      BY <1>8, FS_EmptySet, Zenon
    <2>2. Cardinality(Holders(f)') =
            Cardinality(Holders(f)) + Cardinality({q} \X D(f))
              - Cardinality(Holders(f) \cap ({q} \X D(f)))
      BY <1>7, <1>8, HoldersFinite, FS_Union
    <2>3. Cardinality(Holders(f)') = Cardinality(Holders(f)) + Cardinality(D(f))
      <3>1. Cardinality(D(f)) \in Nat /\ Cardinality({q} \X D(f)) = Cardinality(D(f))
        BY <1>3, <1>7, Zenon
      <3>2. Cardinality(Holders(f)) \in Nat
        BY HoldersFinite, Zenon
      <3> QED
        BY <2>1, <2>2, <3>1, <3>2
    <2>4. file[f].ref = Cardinality(Holders(f))
      BY Zenon DEF FInv, FileRefsExact
    <2>5. file'[f] = [ref |-> file[f].ref + Cardinality(D(f)), type |-> file[f].type,
                      writable |-> file[f].writable]
      BY <1>6, Zenon
    <2> QED
      BY <2>3, <2>4, <2>5
  <1>10. SameFiles
    <2>1. ASSUME NEW f \in Files, file[f] = Fresh \/ file[f] = NoFile PROVE file'[f] = file[f]
      <3>1. \A d \in Fds : ofile[p][d] # f
        BY <2>1 DEF FInv, Control, NamedPipes, Fresh, NoFile, Files, None
      <3>2. Cardinality(D(f)) = 0
        BY <1>3, <3>1, Zenon
      <3> HIDE DEF D
      <3>3. file[f].ref \in Nat
        BY <1>6, Zenon
      <3>4. file'[f] = [ref |-> file[f].ref, type |-> file[f].type, writable |-> file[f].writable]
        BY <1>6, <3>2, <3>3
      <3> QED
        BY <2>1, <3>4, Zenon DEF Fresh, NoFile
    <2> HIDE DEF D
    <2>2. ASSUME NEW f \in Files
          PROVE  /\ file'[f].type = file[f].type /\ file'[f].writable = file[f].writable
                 /\ file'[f].ref >= file[f].ref /\ file'[f] \in FileRec
      <3>1. Cardinality(D(f)) \in Nat /\ file[f] \in FileRec /\ file[f].ref \in Nat
        BY <1>3, <1>6, Zenon
      <3>2. file'[f] = [ref |-> file[f].ref + Cardinality(D(f)), type |-> file[f].type,
                        writable |-> file[f].writable]
        BY <1>6, Zenon
      <3>3. file[f].ref + Cardinality(D(f)) \in Nat
            /\ file[f].ref + Cardinality(D(f)) >= file[f].ref
        BY <3>1
      <3> QED
        BY <3>1, <3>2, <3>3 DEF FileRec
    <2>3. file' \in [Files -> FileRec]
      BY <1>1, <2>2, Zenon
    <2> QED
      BY <2>1, <2>2, <2>3, Zenon DEF SameFiles
  <1>11. /\ pc' \in [Procs -> PCs]
         /\ \A r \in Procs : pc'[r] = pc[r] \/ (pc[r] = "none" /\ pc'[r] = "user")
         /\ pc'[q] = "user"
    <2>1. "user" \in PCs
      BY Zenon DEF PCs
    <2>2. pc' \in [Procs -> PCs] /\ pc'[q] = "user" /\ \A r \in Procs : r # q => pc'[r] = pc[r]
      BY <1>1, <1>2, <2>1, Zenon
    <2>3. \A r \in Procs : pc'[r] = pc[r] \/ (pc[r] = "none" /\ pc'[r] = "user")
      <3>1. pc[q] = "none"
        BY <1>1, Zenon
      <3> QED
        BY <2>2, <3>1, Zenon
    <2> QED
      BY <2>2, <2>3, Zenon
  <1>12. \A r \in Procs : pc[r] \notin {"none", "user"} \/ pc'[r] = "none" => ofile'[r] = ofile[r]
    BY <1>1, <1>4, <1>11, Zenon
  <1>13. Shares
    BY <1>1, <1>4, <1>11, <1>12 DEF Shares
  <1> QED
    BY <1>9, <1>10, <1>13, SharedFInv, Zenon

\* Nobody refers to a free file, and only its sys_pipe to a fresh one.
LEMMA FreeUnnamed ==
    ASSUME FInv, NEW f \in Files, file[f].ref = 0
    PROVE  /\ file[f] = NoFile /\ Holders(f) = {}
           /\ \A q \in Procs : rf[q] # f
           /\ \A q \in Procs, e \in Fds : ofile[q][e] # f
  <1>1. file[f] = NoFile /\ Holders(f) = {}
    BY HoldersFinite, Zenon DEF FInv, Control, FreeBlank, FileRefsExact
  <1>2. \A q \in Procs : rf[q] # f
    BY <1>1, HoldersDef, Zenon
  <1>3. \A q \in Procs, e \in Fds : ofile[q][e] # f
    BY <1>1, HoldersDef, Zenon
  <1> QED
    BY <1>1, <1>2, <1>3, Zenon

\* The file that a sys_pipe under way has taken is nobody else's.
LEMMA FreshUnnamed ==
    ASSUME FInv, NEW p \in Procs, pc[p] = "pipe"
    PROVE  /\ rf[p] \in Files /\ file[rf[p]] = Fresh /\ Holders(rf[p]) = {<<p, None>>}
           /\ \A q \in Procs : q # p => rf[q] # rf[p]
           /\ \A q \in Procs, e \in Fds : ofile[q][e] # rf[p]
  <1>1. rf[p] \in Files /\ file[rf[p]] = Fresh /\ rf[p] # None
    BY DEF FInv, Control, Pending, Files, None
  <1>2. \A q \in Procs : q # p => rf[q] # rf[p]
    BY <1>1, Zenon DEF FInv, Control, OnePending
  <1>3. \A q \in Procs, e \in Fds : ofile[q][e] # rf[p]
    BY <1>1 DEF FInv, Control, NamedPipes, Fresh
  <1>4. Holders(rf[p]) = {<<p, None>>}
    <2>1. \A h \in Procs \X (Fds \cup {None}) : h \in Holders(rf[p]) <=> h = <<p, None>>
      BY <1>1, <1>2, <1>3 DEF Holders, Fds, None
    <2>2. Holders(rf[p]) \subseteq Procs \X (Fds \cup {None})
      BY DEF Holders
    <2> QED
      BY <2>1, <2>2, Zenon
  <1> QED
    BY <1>1, <1>2, <1>3, <1>4, Zenon

\* What sys_pipe does to the files: f is taken for p, or given back.
Takes(p, f, s, new) ==
    /\ file' = [file EXCEPT ![f] = new] /\ UNCHANGED ofile
    /\ rf' = [rf EXCEPT ![p] = s]
    /\ UNCHANGED <<exists, readopen, writeopen, want, back, killed>>

TakesOrGives(p, f, s, new) ==
    \/ /\ pc[p] = "user" /\ file[f].ref = 0
       /\ s = f /\ new = Fresh /\ pc' = [pc EXCEPT ![p] = "pipe"]
    \/ /\ pc[p] = "pipe" /\ f = rf[p]
       /\ s = None /\ new = NoFile /\ pc' = [pc EXCEPT ![p] = "user"]

\* Taking the first file and giving it back keep the invariant.
LEMMA TakesFInv ==
    ASSUME FInv, NEW p \in Procs, NEW f \in Files, NEW s, NEW new,
           Takes(p, f, s, new), TakesOrGives(p, f, s, new)
    PROVE  FInv'
  <1>1. /\ file \in [Files -> FileRec] /\ rf \in [Procs -> Files \cup {None}]
        /\ pc \in [Procs -> PCs] /\ f # None
    BY DEF FInv, FTypes, Files, None
  <1>2. /\ pc' \in [Procs -> PCs] /\ pc'[p] = IF s = f THEN "pipe" ELSE "user"
        /\ \A q \in Procs : q # p => pc'[q] = pc[q]
    BY <1>1, Zenon DEF PCs, TakesOrGives
  <1>3. /\ new \in FileRec /\ new.type = "none" /\ file[f].type = "none"
        /\ \A q \in Procs, e \in Fds : ofile[q][e] # f
        /\ \A q \in Procs : q # p => rf[q] # f
        /\ s \in Files \cup {None} /\ (new = IF s = f THEN Fresh ELSE NoFile)
        /\ s = f \/ s = None
    <2>1. /\ Fresh \in FileRec /\ NoFile \in FileRec /\ Fresh # NoFile
          /\ Fresh.type = "none" /\ NoFile.type = "none"
      BY DEF FileRec, Fresh, NoFile
    <2>2. CASE pc[p] = "user" /\ file[f].ref = 0 /\ s = f /\ new = Fresh
      <3>1. file[f] = NoFile /\ (\A q \in Procs : rf[q] # f)
            /\ \A q \in Procs, e \in Fds : ofile[q][e] # f
        BY <2>2, FreeUnnamed, Zenon
      <3> QED
        BY <2>1, <2>2, <3>1, Zenon
    <2>3. CASE pc[p] = "pipe" /\ f = rf[p] /\ s = None /\ new = NoFile
      <3>1. file[f] = Fresh /\ (\A q \in Procs : q # p => rf[q] # f)
            /\ \A q \in Procs, e \in Fds : ofile[q][e] # f
        BY <2>3, FreshUnnamed, Zenon
      <3> QED
        BY <1>1, <2>1, <2>3, <3>1, Zenon
    <2> QED
      BY <2>2, <2>3, Zenon DEF TakesOrGives
  <1>4. /\ file' \in [Files -> FileRec] /\ file'[f] = new
        /\ \A g \in Files : g # f => file'[g] = file[g]
        /\ rf' \in [Procs -> Files \cup {None}] /\ rf'[p] = s
        /\ \A q \in Procs : q # p => rf'[q] = rf[q]
    BY <1>1, <1>3, Zenon DEF Takes
  <1>5. FTypes'
    BY <1>2, <1>4, Zenon DEF FInv, FTypes, Takes
  <1>6. /\ Holders(f)' = IF s = f THEN {<<p, None>>} ELSE {}
        /\ \A g \in Files : g # f => Holders(g)' = Holders(g)
    <2>1. ofile' = ofile
      BY Zenon DEF Takes
    <2>2. rf[p] = f \/ rf[p] = None
      BY <1>3, <1>1, Zenon DEF FInv, Control, Pending, TakesOrGives
    <2>3. ASSUME NEW h \in Procs \X (Fds \cup {None})
          PROVE  /\ h \in Holders(f)' <=> (s = f /\ h = <<p, None>>)
                 /\ \A g \in Files : g # f => (h \in Holders(g)' <=> h \in Holders(g))
      <3>1. PICK q \in Procs, c \in Fds \cup {None} : h = <<q, c>>
        OBVIOUS
      <3>2. \A g : h \in Holders(g) <=> IF c = None THEN rf[q] = g ELSE ofile[q][c] = g
        BY <3>1, Zenon DEF Holders
      <3>3. \A g : h \in Holders(g)' <=> IF c = None THEN rf'[q] = g ELSE ofile[q][c] = g
        BY <2>1, <3>1, Zenon DEF Holders
      <3>4. CASE c = None
        <4>1. \A g \in Files : g # None
          BY DEF Files, None
        <4>2. CASE q = p
          <5>1. h = <<p, None>> /\ rf'[q] = s
            BY <1>4, <3>1, <3>4, <4>2, Zenon
          <5>2. (s = f \/ s = None) /\ f # None
            BY <1>1, <1>3, Zenon
          <5>3. \A g \in Files : g # f => rf'[q] # g /\ rf[q] # g
            BY <2>2, <4>1, <4>2, <5>1, <5>2, Zenon
          <5> QED
            BY <3>2, <3>3, <3>4, <5>1, <5>2, <5>3, Zenon
        <4>3. CASE q # p
          BY <1>3, <1>4, <3>1, <3>2, <3>3, <3>4, <4>3, Zenon
        <4> QED
          BY <4>2, <4>3, Zenon
      <3>5. CASE c # None
        BY <1>3, <3>1, <3>2, <3>3, <3>5, Zenon
      <3> QED
        BY <3>4, <3>5, Zenon
    <2>4. \A g : Holders(g) \subseteq Procs \X (Fds \cup {None})
                 /\ Holders(g)' \subseteq Procs \X (Fds \cup {None})
      BY Zenon DEF Holders
    <2>5. <<p, None>> \in Procs \X (Fds \cup {None})
      BY Zenon
    <2>6. Holders(f)' = IF s = f THEN {<<p, None>>} ELSE {}
      <3>1. \A h : h \in Holders(f)' <=> (s = f /\ h = <<p, None>>)
        BY <2>3, <2>4, <2>5, Zenon
      <3> QED
        BY <3>1, Zenon
    <2>7. \A g \in Files : g # f => Holders(g)' = Holders(g)
      BY <2>3, <2>4
    <2> QED
      BY <2>6, <2>7, Zenon
  <1>7. FileRefsExact'
    <2>1. file'[f].ref = Cardinality(Holders(f)')
      <3>1. Cardinality({}) = 0 /\ Cardinality({<<p, None>>}) = 1
        BY FS_EmptySet, FS_Singleton, Zenon
      <3>2. Fresh.ref = 1 /\ NoFile.ref = 0
        BY Zenon DEF Fresh, NoFile
      <3>3. CASE s = f
        BY <1>3, <1>4, <1>6, <3>1, <3>2, <3>3, Zenon
      <3>4. CASE s # f
        BY <1>3, <1>4, <1>6, <3>1, <3>2, <3>4, Zenon
      <3> QED
        BY <3>3, <3>4, Zenon
    <2>2. \A g \in Files : g # f => file'[g].ref = Cardinality(Holders(g)')
      BY <1>4, <1>6, Zenon DEF FInv, FileRefsExact
    <2> QED
      BY <2>1, <2>2, Zenon DEF FileRefsExact
  <1>8. Control'
    <2>1. \A g \in Files : file'[g].ref = 0 => file'[g] = NoFile
      BY <1>3, <1>4 DEF FInv, Control, FreeBlank, Fresh, NoFile
    <2>2. \A q \in Procs, e \in Fds : ofile'[q][e] = ofile[q][e]
                                      /\ (ofile[q][e] # None => file'[ofile[q][e]] = file[ofile[q][e]])
      BY <1>3, <1>4 DEF Takes, FInv, FTypes
    <2>3. \A q \in Procs, e \in Fds : ofile'[q][e] # None => file'[ofile'[q][e]].type = "pipe"
      <3> SUFFICES ASSUME NEW q \in Procs, NEW e \in Fds, ofile'[q][e] # None
                   PROVE  file'[ofile'[q][e]].type = "pipe"
        BY Zenon
      <3>1. ofile'[q][e] = ofile[q][e]
        BY <2>2, Zenon
      <3>2. file'[ofile[q][e]] = file[ofile[q][e]]
        BY <2>2, <3>1, Zenon
      <3>3. file[ofile[q][e]].type = "pipe"
        BY <3>1, Zenon DEF FInv, Control, NamedPipes
      <3> QED
        BY <3>1, <3>2, <3>3, Zenon
    <2>4. \A q \in Procs : IF pc'[q] = "pipe" THEN rf'[q] \in Files /\ file'[rf'[q]] = Fresh
                                             ELSE rf'[q] = None
      <3> SUFFICES ASSUME NEW q \in Procs
                   PROVE  IF pc'[q] = "pipe" THEN rf'[q] \in Files /\ file'[rf'[q]] = Fresh
                                             ELSE rf'[q] = None
        BY Zenon
      <3>1. CASE q = p
        BY <1>1, <1>2, <1>3, <1>4, <3>1, Zenon
      <3>2. CASE q # p
        <4>1. pc'[q] = pc[q] /\ rf'[q] = rf[q] /\ rf[q] # f
          BY <1>2, <1>3, <1>4, <3>2, Zenon
        <4>2. IF pc[q] = "pipe" THEN rf[q] \in Files /\ file[rf[q]] = Fresh ELSE rf[q] = None
          BY Zenon DEF FInv, Control, Pending
        <4>3. rf[q] \in Files => file'[rf[q]] = file[rf[q]]
          BY <1>4, <4>1, Zenon
        <4> QED
          BY <4>1, <4>2, <4>3, Zenon
      <3> QED
        BY <3>1, <3>2, Zenon
    <2>5. \A q, r \in Procs : rf'[q] = rf'[r] /\ rf'[q] # None => q = r
      <3> SUFFICES ASSUME NEW q \in Procs, NEW r \in Procs, rf'[q] = rf'[r], rf'[q] # None, q # r
                   PROVE  FALSE
        BY Zenon
      <3>1. q # p /\ r # p
        BY <1>3, <1>4, Zenon
      <3>2. rf[q] = rf[r] /\ rf[q] # None
        BY <1>4, <3>1, Zenon
      <3> QED
        BY <3>2, Zenon DEF FInv, Control, OnePending
    <2>6. \A q \in Procs, w \in BOOLEAN : Ends(q, w)' = Ends(q, w)
      <3> TAKE q \in Procs, w \in BOOLEAN
      <3>1. \A e \in Fds : ofile'[q][e] = ofile[q][e]
        BY <2>2, Zenon
      <3>2. FreeFds(q)' = FreeFds(q)
        BY <3>1, Zenon DEF FreeFds
      <3>3. \A e \in Fds \ FreeFds(q) : file'[ofile'[q][e]] = file[ofile[q][e]]
        BY <2>2 DEF FreeFds
      <3> QED
        BY <3>2, <3>3, Zenon DEF Ends
    <2>7. \A q \in Procs : /\ pc'[q] = "none" => ofile'[q] = AllClosed
                           /\ pc'[q] \in {"write", "sleepw"} => Ends(q, TRUE)'
                           /\ pc'[q] \in {"read", "sleepr"} => Ends(q, FALSE)' /\ want'[q] > 0
      BY <1>2, <2>6, Zenon DEF FInv, Control, FreeShut, InCalls, Takes
    <2>8. FreeBlank' /\ NamedPipes' /\ Pending'
      BY <2>1, <2>3, <2>4, Zenon DEF FreeBlank, NamedPipes, Pending
    <2>9. OnePending' /\ FreeShut' /\ InCalls'
      BY <2>5, <2>7, Zenon DEF OnePending, FreeShut, InCalls
    <2> QED
      BY <2>8, <2>9, Zenon DEF Control
  <1>9. EndsInv'
    <2>1. \A w \in BOOLEAN : Pipes(w)' = Pipes(w)
      BY <1>3, <1>4 DEF Pipes
    <2>2. \A w \in BOOLEAN : Closing(w)' = Closing(w)
      BY <1>2, Zenon DEF Closing, TakesOrGives
    <2>3. \A w \in BOOLEAN : OpenEnd(w)' = OpenEnd(w)
      BY DEF OpenEnd, Takes
    <2> QED
      BY <2>1, <2>2, <2>3 DEF FInv, EndsInv, Takes
  <1> QED
    BY <1>5, <1>7, <1>8, <1>9, Zenon DEF FInv

\* The first filealloc of sys_pipe.
LEMMA SysPipeFInv == ASSUME NEW p \in Procs, FInv, sys_pipe(p) PROVE FInv'
  <1> DEFINE f == Min(FreeFiles)
  <1>1. f \in FreeFiles
    BY MinIn DEF sys_pipe, FreeFiles, Files
  <1>2. f \in Files /\ file[f].ref = 0 /\ file[f] = NoFile
    BY <1>1, FreeUnnamed, Zenon DEF FreeFiles
  <1>3. /\ pc[p] = "user" /\ pc' = [pc EXCEPT ![p] = "pipe"] /\ rf' = [rf EXCEPT ![p] = f]
        /\ file' = [file EXCEPT ![f].ref = 1]
        /\ UNCHANGED <<ofile, exists, readopen, writeopen, want, back, killed>>
    BY Zenon DEF sys_pipe, InUser, At, Go, pipe
  <1> HIDE DEF f
  <1>4. file \in [Files -> FileRec]
    BY Zenon DEF FInv, FTypes
  <1>5. file' = [file EXCEPT ![f] = [file[f] EXCEPT !.ref = 1]]
    BY <1>2, <1>3, <1>4, Zenon
  <1>6. [file[f] EXCEPT !.ref = 1] = Fresh
    <2>1. \A r \in FileRec :
            [r EXCEPT !.ref = 1] = [ref |-> 1, type |-> r.type, writable |-> r.writable]
      BY DEF FileRec
    <2>2. NoFile \in FileRec /\ NoFile.type = "none" /\ NoFile.writable = FALSE
      BY Zenon DEF NoFile, FileRec
    <2> QED
      BY <1>2, <2>1, <2>2, Zenon DEF Fresh
  <1>7. Takes(p, f, f, Fresh)
    BY <1>3, <1>5, <1>6, Zenon DEF Takes
  <1> QED
    <2>1. TakesOrGives(p, f, f, Fresh)
      BY <1>2, <1>3, Zenon DEF TakesOrGives
    <2> QED
      BY <1>2, <1>7, <2>1, TakesFInv, Zenon

\* What pipealloc does to the files when it succeeds: the file r of p becomes
\* the read end and the free file w the write end, named by descriptors d0, d1.
Makes(p, r, w, d0, d1) ==
    /\ file' = [file EXCEPT ![r] = [ref |-> 1, type |-> "pipe", writable |-> FALSE],
                            ![w] = [ref |-> 1, type |-> "pipe", writable |-> TRUE]]
    /\ ofile' = [ofile EXCEPT ![p][d0] = r, ![p][d1] = w]
    /\ rf' = [rf EXCEPT ![p] = None] /\ pc' = [pc EXCEPT ![p] = "user"]
    /\ exists' = TRUE /\ readopen' = TRUE /\ writeopen' = TRUE
    /\ UNCHANGED <<want, back, killed>>

\* ... and when it can.
MayMake(p, r, w, d0, d1) ==
    /\ pc[p] = "pipe" /\ ~exists /\ r = rf[p] /\ file[w].ref = 0
    /\ d0 # d1 /\ ofile[p][d0] = None /\ ofile[p][d1] = None

\* ... which keeps the invariant.
LEMMA MakesFInv ==
    ASSUME FInv, NEW p \in Procs, NEW r, NEW w \in Files, NEW d0 \in Fds, NEW d1 \in Fds,
           MayMake(p, r, w, d0, d1), Makes(p, r, w, d0, d1)
    PROVE  FInv'
  <1> DEFINE R == [ref |-> 1, type |-> "pipe", writable |-> FALSE]
             W == [ref |-> 1, type |-> "pipe", writable |-> TRUE]
  <1>1. /\ file \in [Files -> FileRec] /\ rf \in [Procs -> Files \cup {None}]
        /\ pc \in [Procs -> PCs] /\ ofile \in [Procs -> [Fds -> Files \cup {None}]]
    BY Zenon DEF FInv, FTypes
  <1>2. /\ r \in Files /\ file[r] = Fresh
        /\ \A q \in Procs : q # p => rf[q] # r
        /\ \A q \in Procs, e \in Fds : ofile[q][e] # r
    <2>1. pc[p] = "pipe" /\ r = rf[p]
      BY Zenon DEF MayMake
    <2> QED
      BY <2>1, FreshUnnamed, Zenon
  <1>3. /\ file[w] = NoFile /\ \A q \in Procs : rf[q] # w
        /\ \A q \in Procs, e \in Fds : ofile[q][e] # w
    BY FreeUnnamed, Zenon DEF MayMake
  <1>4. r # w /\ \A f \in Files : f # None
    <2>1. r # w
      BY <1>2, <1>3, Zenon DEF MayMake
    <2> QED
      BY <2>1 DEF Files, None
  <1>5. R \in FileRec /\ W \in FileRec
    BY Zenon DEF FileRec
  <1> HIDE DEF R, W
  <1>6. /\ file' \in [Files -> FileRec] /\ file'[r] = R /\ file'[w] = W
        /\ \A g \in Files : g # r /\ g # w => file'[g] = file[g]
    <2>1. file' = [file EXCEPT ![r] = R, ![w] = W]
      BY Zenon DEF Makes, R, W
    <2> QED
      BY <1>1, <1>2, <1>4, <1>5, <2>1, Zenon
  <1>7. /\ ofile' \in [Procs -> [Fds -> Files \cup {None}]]
        /\ \A q \in Procs, e \in Fds :
             ofile'[q][e] = IF q = p /\ e = d0 THEN r ELSE IF q = p /\ e = d1 THEN w ELSE ofile[q][e]
        /\ \A q \in Procs : q # p => ofile'[q] = ofile[q]
    <2>1. PICK o1 \in [Procs -> [Fds -> Files \cup {None}]] : o1 = [ofile EXCEPT ![p][d0] = r]
      BY <1>1, <1>2, Zenon
    <2>2. ofile' = [o1 EXCEPT ![p][d1] = w]
      BY <2>1, Zenon DEF Makes
    <2> QED
      BY <1>1, <2>1, <2>2
  <1>8. /\ rf' \in [Procs -> Files \cup {None}] /\ rf'[p] = None
        /\ \A q \in Procs : q # p => rf'[q] = rf[q]
        /\ pc' \in [Procs -> PCs] /\ pc'[p] = "user"
        /\ \A q \in Procs : q # p => pc'[q] = pc[q]
    BY <1>1, Zenon DEF Makes, PCs
  <1>9. FTypes'
    BY <1>6, <1>7, <1>8, Zenon DEF FInv, FTypes, Makes
  <1>10. /\ Holders(r)' = {<<p, d0>>} /\ Holders(w)' = {<<p, d1>>}
         /\ \A g \in Files : g # r /\ g # w => Holders(g)' = Holders(g)
    <2>1. ASSUME NEW h \in Procs \X (Fds \cup {None})
          PROVE  /\ h \in Holders(r)' <=> h = <<p, d0>>
                 /\ h \in Holders(w)' <=> h = <<p, d1>>
                 /\ \A g \in Files : g # r /\ g # w => (h \in Holders(g)' <=> h \in Holders(g))
      <3>1. PICK q \in Procs, c \in Fds \cup {None} : h = <<q, c>>
        OBVIOUS
      <3>2. \A g : h \in Holders(g) <=> IF c = None THEN rf[q] = g ELSE ofile[q][c] = g
        BY <3>1 DEF Holders
      <3>3. \A g : h \in Holders(g)' <=> IF c = None THEN rf'[q] = g ELSE ofile'[q][c] = g
        BY <3>1, Zenon DEF Holders
      <3>4. d0 # None /\ d1 # None
        BY DEF Fds, None
      <3>5. CASE c = None
        <4>1. h # <<p, d0>> /\ h # <<p, d1>>
          BY <3>1, <3>4, <3>5, Zenon
        <4>2. rf'[q] # r /\ rf'[q] # w
          BY <1>2, <1>3, <1>4, <1>8, Zenon
        <4>3. \A g \in Files : g # r /\ g # w => (rf'[q] = g <=> rf[q] = g)
          BY <1>4, <1>8, Zenon DEF MayMake
        <4> QED
          BY <3>2, <3>3, <3>5, <4>1, <4>2, <4>3, Zenon
      <3>6. CASE c # None
        <4>1. c \in Fds
          BY <3>6, Zenon
        <4>2. ofile'[q][c] = IF q = p /\ c = d0 THEN r ELSE IF q = p /\ c = d1 THEN w ELSE ofile[q][c]
          BY <1>7, <4>1, Zenon
        <4>3. CASE q = p /\ (c = d0 \/ c = d1)
          <5>1. d0 # d1
            BY Zenon DEF MayMake
          <5>2. h = <<p, c>> /\ (h = <<p, d0>> <=> c = d0) /\ (h = <<p, d1>> <=> c = d1)
            BY <3>1, <4>3, Zenon
          <5>3. /\ c = d0 => ofile'[q][c] = r /\ c # d1
                /\ c = d1 => ofile'[q][c] = w /\ c # d0
            BY <4>2, <4>3, <5>1, Zenon
          <5>4. \A g \in Files : g # r /\ g # w => h \notin Holders(g)' /\ h \notin Holders(g)
            <6>1. ofile[q][c] = None
              BY <4>3, Zenon DEF MayMake
            <6> QED
              <7>1. ASSUME NEW g \in Files, g # r, g # w PROVE ofile'[q][c] # g /\ ofile[q][c] # g
                BY <1>4, <4>3, <5>3, <6>1, <7>1, Zenon
              <7> QED
                BY <3>2, <3>3, <3>6, <7>1, Zenon
          <5> QED
            BY <1>4, <3>3, <3>6, <4>3, <5>2, <5>3, <5>4, Zenon
        <4>4. CASE ~(q = p /\ (c = d0 \/ c = d1))
          BY <1>2, <1>3, <3>1, <3>2, <3>3, <3>6, <4>1, <4>2, <4>4, Zenon
        <4> QED
          BY <4>3, <4>4, Zenon
      <3> QED
        BY <3>5, <3>6, Zenon
    <2>2. \A g : Holders(g) \subseteq Procs \X (Fds \cup {None})
                 /\ Holders(g)' \subseteq Procs \X (Fds \cup {None})
      BY Zenon DEF Holders
    <2>3. <<p, d0>> \in Procs \X (Fds \cup {None}) /\ <<p, d1>> \in Procs \X (Fds \cup {None})
      BY Zenon
    <2>4. Holders(r)' = {<<p, d0>>}
      <3>1. \A h : h \in Holders(r)' <=> h = <<p, d0>>
        BY <2>1, <2>2, <2>3, Zenon
      <3> QED
        BY <3>1, Zenon
    <2>5. Holders(w)' = {<<p, d1>>}
      <3>1. \A h : h \in Holders(w)' <=> h = <<p, d1>>
        BY <2>1, <2>2, <2>3, Zenon
      <3> QED
        BY <3>1, Zenon
    <2>6. ASSUME NEW g \in Files, g # r, g # w PROVE Holders(g)' = Holders(g)
      <3>1. \A h \in Procs \X (Fds \cup {None}) : h \in Holders(g)' <=> h \in Holders(g)
        BY <2>1, <2>6, Zenon
      <3> QED
        BY <2>2, <3>1, Zenon
    <2> QED
      BY <2>4, <2>5, <2>6, Zenon
  <1>11. FileRefsExact'
    <2>1. Cardinality({<<p, d0>>}) = 1 /\ Cardinality({<<p, d1>>}) = 1 /\ R.ref = 1 /\ W.ref = 1
      BY FS_Singleton, Zenon DEF R, W
    <2>2. file'[r].ref = Cardinality(Holders(r)') /\ file'[w].ref = Cardinality(Holders(w)')
      BY <1>6, <1>10, <2>1, Zenon
    <2>3. \A g \in Files : g # r /\ g # w => file'[g].ref = Cardinality(Holders(g)')
      BY <1>6, <1>10, Zenon DEF FInv, FileRefsExact
    <2> QED
      BY <2>2, <2>3, Zenon DEF FileRefsExact
  <1>12. Control'
    <2>0. R.ref = 1 /\ W.ref = 1 /\ R.type = "pipe" /\ W.type = "pipe"
      BY Zenon DEF R, W
    <2>1. \A g \in Files : file'[g].ref = 0 => file'[g] = NoFile
      <3> SUFFICES ASSUME NEW g \in Files, file'[g].ref = 0 PROVE file'[g] = NoFile
        OBVIOUS
      <3>1. g # r /\ g # w
        BY <1>6, <2>0
      <3>2. file'[g] = file[g]
        BY <1>6, <3>1, Zenon
      <3> QED
        BY <3>2, Zenon DEF FInv, Control, FreeBlank
    <2>2. \A q \in Procs, e \in Fds : ofile[q][e] # None => file'[ofile[q][e]] = file[ofile[q][e]]
      BY <1>1, <1>2, <1>3, <1>6
    <2>3. \A q \in Procs, e \in Fds : ofile'[q][e] # None => file'[ofile'[q][e]].type = "pipe"
      <3> SUFFICES ASSUME NEW q \in Procs, NEW e \in Fds, ofile'[q][e] # None
                   PROVE  file'[ofile'[q][e]].type = "pipe"
        BY Zenon
      <3>1. CASE ofile'[q][e] = r \/ ofile'[q][e] = w
        BY <1>6, <2>0, <3>1, Zenon
      <3>2. CASE ofile'[q][e] # r /\ ofile'[q][e] # w
        <4>1. ofile'[q][e] = ofile[q][e]
          BY <1>7, <3>2, Zenon
        <4> QED
          <5>1. file[ofile[q][e]].type = "pipe"
            BY <4>1, Zenon DEF FInv, Control, NamedPipes
          <5> QED
            BY <2>2, <4>1, <5>1, Zenon
      <3> QED
        BY <3>1, <3>2, Zenon
    <2>4. \A q \in Procs : IF pc'[q] = "pipe" THEN rf'[q] \in Files /\ file'[rf'[q]] = Fresh
                                             ELSE rf'[q] = None
      <3> SUFFICES ASSUME NEW q \in Procs
                   PROVE  IF pc'[q] = "pipe" THEN rf'[q] \in Files /\ file'[rf'[q]] = Fresh
                                             ELSE rf'[q] = None
        BY Zenon
      <3>1. CASE q = p
        BY <1>8, <3>1, Zenon
      <3>2. CASE q # p
        <4>1. pc'[q] = pc[q] /\ rf'[q] = rf[q] /\ rf[q] # r /\ rf[q] # w
          BY <1>2, <1>3, <1>8, <3>2, Zenon
        <4>2. IF pc[q] = "pipe" THEN rf[q] \in Files /\ file[rf[q]] = Fresh ELSE rf[q] = None
          BY Zenon DEF FInv, Control, Pending
        <4>3. rf[q] \in Files => file'[rf[q]] = file[rf[q]]
          BY <1>6, <4>1, Zenon
        <4> QED
          BY <4>1, <4>2, <4>3, Zenon
      <3> QED
        BY <3>1, <3>2, Zenon
    <2>5. \A q, s \in Procs : rf'[q] = rf'[s] /\ rf'[q] # None => q = s
      BY <1>8, Zenon DEF FInv, Control, OnePending
    <2>6. \A q \in Procs, v \in BOOLEAN : q # p /\ Ends(q, v) => Ends(q, v)'
      <3> SUFFICES ASSUME NEW q \in Procs, NEW v \in BOOLEAN, q # p, Ends(q, v)
                   PROVE  Ends(q, v)'
        BY Zenon
      <3>1. PICK e \in Fds : ofile[q][e] # None /\ file[ofile[q][e]].writable = v
        BY Zenon DEF Ends, FreeFds
      <3>2. ofile'[q][e] = ofile[q][e] /\ file'[ofile[q][e]] = file[ofile[q][e]]
        BY <1>7, <2>2, <3>1, Zenon
      <3> QED
        BY <3>1, <3>2, Zenon DEF Ends, FreeFds
    <2>7. \A q \in Procs : /\ pc'[q] = "none" => ofile'[q] = AllClosed
                           /\ pc'[q] \in {"write", "sleepw"} => Ends(q, TRUE)'
                           /\ pc'[q] \in {"read", "sleepr"} => Ends(q, FALSE)' /\ want'[q] > 0
      BY <1>7, <1>8, <2>6, Zenon DEF FInv, Control, FreeShut, InCalls, Makes
    <2>8. FreeBlank' /\ NamedPipes' /\ Pending'
      BY <2>1, <2>3, <2>4, Zenon DEF FreeBlank, NamedPipes, Pending
    <2>9. OnePending' /\ FreeShut' /\ InCalls'
      BY <2>5, <2>7, Zenon DEF OnePending, FreeShut, InCalls
    <2> QED
      BY <2>8, <2>9, Zenon DEF Control
  <1>13. EndsInv'
    <2>1. \A v \in BOOLEAN : Pipes(v) = {} /\ Closing(v) = {}
      BY Zenon DEF FInv, EndsInv, OpenEnd, MayMake
    <2>2. \A v \in BOOLEAN : Closing(v)' = {}
      BY <1>8, <2>1, Zenon DEF Closing
    <2>3. R.type = "pipe" /\ R.writable = FALSE /\ W.type = "pipe" /\ W.writable = TRUE
      BY Zenon DEF R, W
    <2>4. Pipes(TRUE)' \subseteq {w} /\ Pipes(FALSE)' \subseteq {r}
      BY <1>6, <2>1, <2>3, Zenon DEF Pipes
    <2>5. \A v \in BOOLEAN : OpenEnd(v)'
      BY Zenon DEF OpenEnd, Makes
    <2>6. \A v \in BOOLEAN : \A f, g \in Pipes(v)' : f = g
      <3>1. /\ \A f, g \in Pipes(TRUE)' : f = g
            /\ \A f, g \in Pipes(FALSE)' : f = g
        BY <2>4, Zenon
      <3> QED
        BY <3>1, Zenon
    <2>7. exists' <=> readopen' \/ writeopen'
      BY Zenon DEF Makes
    <2> QED
      BY <2>2, <2>5, <2>6, <2>7, Zenon DEF EndsInv
  <1> QED
    BY <1>9, <1>11, <1>12, <1>13, Zenon DEF FInv

\* pipealloc makes the pipe, or closes the file it has.
LEMMA PipeallocFInv == ASSUME NEW p \in Procs, FInv, pipealloc(p) PROVE FInv'
  <1> DEFINE d0 == Min(FreeFds(p))
             d1 == Min(FreeFds(p) \ {d0})
             wf == Min(FreeFiles)
  <1>1. pc[p] = "pipe" /\ rf[p] \in Files
    BY FreshUnnamed, Zenon DEF pipealloc, At
  <1>2. CASE FreeFiles # {} /\ ~exists /\ Cardinality(FreeFds(p)) >= 2
    <2>1. wf \in Files /\ file[wf].ref = 0
      <3>1. wf \in FreeFiles
        BY <1>2, MinIn DEF FreeFiles, Files
      <3> QED
        BY <3>1, Zenon DEF FreeFiles
    <2>2. FreeFds(p) # {} /\ FreeFds(p) \ {d0} # {}
      <3>1. IsFiniteSet(FreeFds(p))
        <4>1. IsFiniteSet(Fds) /\ FreeFds(p) \in SUBSET Fds
          BY TableAssumption, FS_Interval DEF Fds, FreeFds
        <4> QED
          BY <4>1, FS_Subset, Zenon
      <3>2. Cardinality(FreeFds(p)) # 0 /\ Cardinality(FreeFds(p)) # 1
        BY <1>2
      <3>3. \A x : Cardinality({x}) = 1
        BY FS_Singleton, Zenon
      <3>4. Cardinality({}) = 0
        BY FS_EmptySet, Zenon
      <3>5. FreeFds(p) # {} /\ \A x : FreeFds(p) # {x}
        BY <3>2, <3>3, <3>4, Zenon
      <3> QED
        BY <3>5, Zenon
    <2>3. d0 \in FreeFds(p) /\ d1 \in FreeFds(p) \ {d0}
      <3>1. FreeFds(p) \in SUBSET Nat /\ FreeFds(p) \ {d0} \in SUBSET Nat
        BY DEF FreeFds, Fds
      <3> QED
        BY <2>2, <3>1, MinIn, Zenon
    <2>4. d0 \in Fds /\ d1 \in Fds /\ d0 # d1 /\ ofile[p][d0] = None /\ ofile[p][d1] = None
      BY <2>3, Zenon DEF FreeFds
    <2>5. Makes(p, rf[p], wf, d0, d1)
      BY <1>2, Zenon DEF pipealloc, Makes, Go
    <2> HIDE DEF d0, d1, wf
    <2> QED
      <3>1. MayMake(p, rf[p], wf, d0, d1)
        BY <1>1, <1>2, <2>1, <2>4, Zenon DEF MayMake
      <3> QED
        BY <2>1, <2>4, <2>5, <3>1, MakesFInv, Zenon
  <1>3. CASE ~(FreeFiles # {} /\ ~exists /\ Cardinality(FreeFds(p)) >= 2)
    <2>1. Takes(p, rf[p], None, NoFile) /\ pc' = [pc EXCEPT ![p] = "user"]
      BY <1>3 DEF pipealloc, Takes, Go
    <2> QED
      <3>1. TakesOrGives(p, rf[p], None, NoFile)
        BY <1>1, <2>1, Zenon DEF TakesOrGives
      <3> QED
        BY <1>1, <2>1, <3>1, TakesFInv, Zenon
  <1> QED
    BY <1>2, <1>3, Zenon

-----------------------------------------------------------------------------
\* Theorems

\* Every step keeps the invariant of the files.
LEMMA NextFInv == FInv /\ [Next]_vars => FInv'
  <1> SUFFICES ASSUME FInv, [Next]_vars PROVE FInv'
    BY Zenon
  <1>1. CASE UNCHANGED vars
    <2>1. UNCHANGED <<file, ofile, rf, exists, readopen, writeopen, pc, want, killed, back>>
      BY <1>1, Zenon DEF vars, pipe, calls
    <2>2. FTypes'
      BY <2>1, Zenon DEF FInv, FTypes
    <2>3. FileRefsExact' /\ Control'
      <3>1. \A q \in Procs : /\ pc'[q] = "none" => ofile[q] = AllClosed
                             /\ pc'[q] \in {"write", "sleepw"} => Ends(q, TRUE)
                             /\ pc'[q] \in {"read", "sleepr"} => Ends(q, FALSE) /\ want'[q] > 0
        BY <2>1, Zenon DEF FInv, Control, FreeShut, InCalls
      <3> QED
        BY <2>1, <3>1, FilesKept, Zenon
    <2>4. EndsInv'
      BY <2>1, EndsKept, Zenon
    <2> QED
      BY <2>2, <2>3, <2>4, Zenon DEF FInv
  <1>2. ASSUME NEW p \in Procs, Kernel(p) PROVE FInv'
    BY <1>2, ExitCloseFInv, ExitFInv, PipeallocFInv, PipecloseFInv, TransferFInv, Zenon DEF Kernel
  <1>3. ASSUME NEW p \in Procs,
               \/ sys_close(p) \/ sys_dup(p) \/ sys_exit(p) \/ kill(p)
               \/ sys_pipe(p) \/ sys_write(p) \/ sys_read(p)
        PROVE  FInv'
    BY <1>3, SysCloseFInv, DupFInv, ExitFInv, SysPipeFInv, CallFInv
  <1>4. ASSUME NEW p \in Procs, NEW q \in Procs, fork(p, q) PROVE FInv'
    BY <1>4, ForkFInv, Zenon
  <1> QED
    BY <1>1, <1>2, <1>3, <1>4, Zenon DEF Next

\* Descriptors, close, dup, fork, exit, and pipe when it fails half-way keep the
\* reference count of every open file equal to the references there are
\* (file.c, sysfile.c).
THEOREM RefsCounted == Spec => []FileRefsExact
  <1>1. FInv => FileRefsExact
    BY DEF FInv
  <1> QED
    BY <1>1, InitFInv, NextFInv, PTL DEF Spec

\* Who reads, writes or could finds the pipe there with that end open, and the
\* page is freed only after the last of them (pipe.c, pipeclose).
THEOREM EndsOpen == Spec => []EndsStayOpen
  <1>1. ASSUME FInv PROVE EndsStayOpen
    <2> SUFFICES ASSUME NEW p \in Procs
                 PROVE  /\ pc[p] \in {"write", "sleepw", "closew"} \/ Ends(p, TRUE) => exists /\ writeopen
                        /\ pc[p] \in {"read", "sleepr", "closer"} \/ Ends(p, FALSE) => exists /\ readopen
      BY Zenon DEF EndsStayOpen
    <2>1. ASSUME NEW w \in BOOLEAN, Ends(p, w) PROVE Pipes(w) # {}
      <3>1. PICK d \in Fds : ofile[p][d] # None /\ file[ofile[p][d]].writable = w
        BY <2>1, Zenon DEF Ends, FreeFds
      <3>2. ofile[p][d] \in Pipes(w)
        BY <1>1, <3>1 DEF FInv, FTypes, Control, NamedPipes, Pipes
      <3> QED
        BY <3>2, Zenon
    <2>2. pc[p] = "closew" => Closing(TRUE) # {}
      BY Zenon DEF Closing
    <2>3. pc[p] = "closer" => Closing(FALSE) # {}
      BY Zenon DEF Closing
    <2>4. Pipes(TRUE) # {} \/ Closing(TRUE) # {} => exists /\ writeopen
      BY <1>1, Zenon DEF FInv, EndsInv, OpenEnd
    <2>5. Pipes(FALSE) # {} \/ Closing(FALSE) # {} => exists /\ readopen
      BY <1>1, Zenon DEF FInv, EndsInv, OpenEnd
    <2>6. /\ pc[p] \in {"write", "sleepw"} => Ends(p, TRUE)
          /\ pc[p] \in {"read", "sleepr"} => Ends(p, FALSE)
      BY <1>1, Zenon DEF FInv, Control, InCalls
    <2> QED
      BY <2>1, <2>2, <2>3, <2>4, <2>5, <2>6, Zenon
  <1> QED
    BY <1>1, InitFInv, NextFInv, PTL DEF Spec
=============================================================================
