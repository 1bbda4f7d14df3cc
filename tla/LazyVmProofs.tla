---------------------------- MODULE LazyVmProofs ----------------------------
(***************************************************************************)
(* Proofs about LazyVm, for any number of slots, frames and pages: every   *)
(* frame is free or used in one place, no process sees what another left   *)
(* in a page, and the guard page below the stack stays.  The three are     *)
(* proved together with what they need: the types, how far each fork or    *)
(* exec is, and the same promises for the directory it is building.        *)
(***************************************************************************)
EXTENDS LazyVm, FiniteSetTheorems, TLAPS

\* A frame number in a page table, or nothing.
Frame0 == Frames \cup {None}

Space == [dir : Frame0, ktab : Frame0, tab : [Tables -> Frame0],
          pte : [Pages -> Frame0], user : SUBSET Pages]

\* The types of the variables.
VTypes ==
    /\ free \subseteq Frames
    /\ fill \in [Frames -> {"junk", "table", "zero", "data"}]
    /\ state \in [Slots -> {"UNUSED", "EMBRYO", "ALIVE", "ZOMBIE"}]
    /\ kstack \in [Slots -> Frame0]
    /\ vm \in [Slots -> Space] /\ new \in [Slots -> Space]
    /\ sz \in [Slots -> 0 .. TOP - 1]
    /\ call \in [Slots -> [op : {"none", "fork", "exec"}, child : Slots \cup {None},
                           i : 0 .. NPAGES]]

\* How far a slot's fork or exec is agrees with what its slot and the directory
\* it builds hold: a directory not begun is empty, and the pages above the loop
\* counter are not mapped.
Phase(p) ==
    /\ call[p].op # "none" => state[p] = "ALIVE"
    /\ call[p].op = "none" => new[p] = NoVm /\ call[p] = NoCall
    /\ state[p] \in {"UNUSED", "EMBRYO"} => vm[p] = NoVm
    /\ kstack[p] = None <=> state[p] = "UNUSED"
    /\ new[p].dir = None => new[p] = NoVm /\ call[p].i = 0
    /\ \A a \in Pages : a >= call[p].i => new[p].pte[a] = None

\* The child of a fork under way has not run, and has one parent.
Child(p) == call[p].op = "fork" => call[p].child \in Slots /\ state[call[p].child] = "EMBRYO"
OneParent ==
    \A p, q \in Slots :
      call[p].op = "fork" /\ call[q].op = "fork" /\ call[p].child = call[q].child => p = q

Phases == (\A p \in Slots : Phase(p) /\ Child(p)) /\ OneParent

\* The frames of address space v are filled as they should be.
Clean(v, w) ==
    /\ \A a \in Pages : v.pte[a] # None => w[v.pte[a]] \in {"zero", "data"}
    /\ \A d \in Tables : v.tab[d] # None => w[v.tab[d]] = "table"

AllClean == \A p \in Slots : Clean(vm[p], fill) /\ Clean(new[p], fill)

\* Every process has a directory.  The guard page is there in every address space
\* being built that has got past it; exec leaves it inaccessible, and fork does
\* when it is inaccessible in the parent.
GuardOf(p) ==
    /\ state[p] \in {"ALIVE", "ZOMBIE"} => vm[p].dir # None
    /\ call[p].op = "exec" => Guard \notin new[p].user
    /\ call[p].op = "fork" /\ Guard \in new[p].user => Guard \in vm[p].user
    /\ call[p].i > Guard => new[p].pte[Guard] # None

Guarded == \A p \in Slots : GuardOf(p)

VInv == VTypes /\ FramesOwnedOnce /\ Phases /\ AllClean /\ Guarded

-----------------------------------------------------------------------------
\* Address spaces

\* Page numbers, table numbers and the guard page are what they seem.
LEMMA Sizes ==
    /\ Text \in Nat /\ NPAGES \in Nat /\ NFRAMES \in Nat /\ Guard \in Pages /\ None \notin Frames
    /\ Pages \subseteq Nat /\ ProgSize \in Nat /\ ProgSize <= NPAGES /\ Guard < ProgSize
    /\ UserPages \subseteq Pages /\ TOP \in Nat /\ ProgSize \in 0 .. TOP - 1 /\ 0 \in 0 .. TOP - 1
    /\ Guard \in Nat
<1>1. TOP \in Nat /\ NPAGES + 1 <= TOP
  BY SizeAssumption DEF TOP
<1>2. Gap \subseteq Nat
  BY <1>1, SizeAssumption DEF Gap
<1>. QED
  BY <1>1, <1>2, SizeAssumption DEF Guard, ProgSize, Pages, UserPages, None, Frames

\* Every page has a table.
LEMMA TableOf == \A a \in Pages : PDX(a) \in Tables
<1>. QED  BY DEF PDX, Tables

\* The empty address space.
LEMMA NoVmSpace == NoVm \in Space
<1>. QED  BY DEF NoVm, Space, Frame0

\* The empty address space refers to nothing.
LEMMA NoVmAt == \A n \in Places : At(NoVm, n) = None
<1>1. TAKE n \in Places
<1>2. CASE n = <<"dir", 0>>
  BY <1>2, Zenon DEF At, NoVm
<1>3. CASE n = <<"ktab", 0>>
  BY <1>3, Zenon DEF At, NoVm
<1>4. CASE n \in {"tab"} \X Tables
  BY <1>4, Zenon DEF At, NoVm
<1>5. CASE n \in {"pte"} \X Pages
  BY <1>5 DEF At, NoVm
<1>. QED  BY <1>2, <1>3, <1>4, <1>5 DEF Places

\* What freevm frees is what the places of the address space refer to.
LEMMA FramesAre ==
  ASSUME NEW v \in Space
  PROVE  FramesOf(v) = {At(v, n) : n \in Places} \ {None}
<1>1. At(v, <<"dir", 0>>) = v.dir /\ At(v, <<"ktab", 0>>) = v.ktab
  BY DEF At
<1>2. \A d \in Tables : At(v, <<"tab", d>>) = v.tab[d]
  BY Zenon DEF At
<1>3. \A a \in Pages : At(v, <<"pte", a>>) = v.pte[a]
  BY Zenon DEF At
<1>4. {At(v, n) : n \in Places}
       = {v.dir, v.ktab} \cup {v.tab[d] : d \in Tables} \cup {v.pte[a] : a \in Pages}
  <2>1. ASSUME NEW f \in {At(v, n) : n \in Places}
        PROVE  f \in {v.dir, v.ktab} \cup {v.tab[d] : d \in Tables} \cup {v.pte[a] : a \in Pages}
    <3>1. PICK n \in Places : f = At(v, n)
      BY <2>1, Zenon
    <3>2. CASE n = <<"dir", 0>> \/ n = <<"ktab", 0>>
      BY <3>1, <3>2, <1>1, Zenon
    <3>3. CASE n \in {"tab"} \X Tables
      BY <3>1, <3>3, <1>2
    <3>4. CASE n \in {"pte"} \X Pages
      BY <3>1, <3>4, <1>3
    <3>. QED  BY <3>2, <3>3, <3>4 DEF Places
  <2>2. ASSUME NEW f \in {v.dir, v.ktab} \cup {v.tab[d] : d \in Tables} \cup {v.pte[a] : a \in Pages}
        PROVE  f \in {At(v, n) : n \in Places}
    <3>1. CASE f \in {v.dir, v.ktab}
      BY <3>1, <1>1, Zenon DEF Places
    <3>2. CASE f \in {v.tab[d] : d \in Tables}
      <4>1. PICK d \in Tables : f = v.tab[d]
        BY <3>2, Zenon
      <4>2. <<"tab", d>> \in Places
        BY Zenon DEF Places
      <4>. QED  BY <4>1, <4>2, <1>2
    <3>3. CASE f \in {v.pte[a] : a \in Pages}
      <4>1. PICK a \in Pages : f = v.pte[a]
        BY <3>3, Zenon
      <4>2. <<"pte", a>> \in Places
        BY Zenon DEF Places
      <4>. QED  BY <4>1, <4>2, <1>3
    <3>. QED  BY <2>2, <3>1, <3>2, <3>3
  <2>. QED  BY <2>1, <2>2
<1>5. {v.pte[a] : a \in Pages} = {v.pte[a] : a \in UserPages} \cup {v.pte[a] : a \in Gap}
  BY Zenon DEF Pages
<1>. QED  BY <1>4, <1>5 DEF FramesOf, Freed, Left, deallocuvm

\* Its frames are frames.
LEMMA FramesIn ==
  ASSUME NEW v \in Space
  PROVE  FramesOf(v) \subseteq Frames
<1>. QED  BY DEF FramesOf, Freed, Left, deallocuvm, Space, Frame0, Pages

\* The empty address space has no frame, none of them twice.
LEMMA NoVmEmpty == FramesOf(NoVm) = {} /\ Distinct(NoVm)
<1>1. FramesOf(NoVm) = {}
  BY NoVmAt, FramesAre, NoVmSpace
<1>. QED  BY <1>1, NoVmAt DEF Distinct

\* The frames of the pages and tables of an address space are among its frames.
LEMMA EntryFrames ==
  ASSUME NEW v \in Space
  PROVE  /\ \A a \in Pages : v.pte[a] # None => v.pte[a] \in FramesOf(v)
         /\ \A d \in Tables : v.tab[d] # None => v.tab[d] \in FramesOf(v)
<1>. QED  BY DEF FramesOf, Freed, Left, deallocuvm, Pages

\* What freevm frees and what it leaves share no frame.
LEMMA FreedNotLeft ==
  ASSUME NEW v \in Space, Distinct(v)
  PROVE  Freed(v) = FramesOf(v) \ Left(v) /\ Left(v) \subseteq FramesOf(v)
<1>1. ASSUME NEW f \in Left(v) PROVE f \notin Freed(v)
  <2>1. PICK a \in Gap : f = v.pte[a] /\ f # None
    BY <1>1, Zenon DEF Left
  <2>2. a \in Pages /\ a \notin UserPages
    BY SizeAssumption DEF Pages, UserPages, Gap
  <2>3. <<"pte", a>> \in Places /\ At(v, <<"pte", a>>) = f
    BY <2>1, <2>2, Zenon DEF Places, At
  <2>4. \A n \in Places : n # <<"pte", a>> => At(v, n) # f
    BY <2>1, <2>3, Zenon DEF Distinct
  <2>5. f # v.dir /\ f # v.ktab
    <3>1. /\ <<"dir", 0>> \in Places /\ <<"dir", 0>> # <<"pte", a>>
          /\ <<"ktab", 0>> \in Places /\ <<"ktab", 0>> # <<"pte", a>>
      BY DEF Places
    <3>2. At(v, <<"dir", 0>>) = v.dir /\ At(v, <<"ktab", 0>>) = v.ktab
      BY DEF At
    <3>. QED  BY <3>1, <3>2, <2>4, Zenon
  <2>6. \A d \in Tables : f # v.tab[d]
    <3>1. \A d \in Tables : /\ <<"tab", d>> \in Places /\ <<"tab", d>> # <<"pte", a>>
                            /\ At(v, <<"tab", d>>) = v.tab[d]
      BY Zenon DEF Places, At
    <3>. QED  BY <3>1, <2>4, Zenon
  <2>7. \A b \in UserPages : f # v.pte[b]
    <3>1. \A b \in UserPages : /\ <<"pte", b>> \in Places /\ <<"pte", b>> # <<"pte", a>>
                               /\ At(v, <<"pte", b>>) = v.pte[b]
      BY <2>2 DEF Places, At, Pages
    <3>. QED  BY <3>1, <2>4, Zenon
  <2>. QED  BY <2>5, <2>6, <2>7, Zenon DEF Freed, deallocuvm
<1>. QED  BY <1>1, Zenon DEF FramesOf

\* The same when a kernel stack that is not one of its frames goes with it.
LEMMA StackApart ==
  ASSUME NEW v \in Space, Distinct(v), NEW k, k \notin FramesOf(v)
  PROVE  /\ Freed(v) \cup {k} = (FramesOf(v) \cup {k}) \ Left(v)
         /\ Left(v) \subseteq FramesOf(v) \cup {k}
<1>1. Freed(v) = FramesOf(v) \ Left(v) /\ Left(v) \subseteq FramesOf(v)
  BY FreedNotLeft, Zenon
<1>. QED  BY <1>1, Zenon

\* freevm frees nothing of the empty address space, and leaves nothing.
LEMMA NoVmFreed == Freed(NoVm) = {} /\ Left(NoVm) = {}
<1>. QED  BY NoVmEmpty, Zenon DEF FramesOf

\* An address space none of whose frames is filled again stays clean.
LEMMA CleanStays ==
  ASSUME NEW v \in Space, NEW w, NEW x, Clean(v, w), \A f \in FramesOf(v) : x[f] = w[f]
  PROVE  Clean(v, x)
<1>. QED  BY EntryFrames DEF Clean

\* No page of the empty address space is a user page.
LEMMA NoVmUser == NoVm.user = {}
<1>. QED  BY DEF NoVm

\* The empty address space is clean.
LEMMA NoVmClean == \A w : Clean(NoVm, w)
<1>. QED  BY DEF Clean, NoVm

-----------------------------------------------------------------------------
\* Mapping a page

\* The frames the next two calls of kalloc return.
First == kalloc(free)
Second == kalloc(free \ {First})

\* What TakeFor(v, a, _) takes from the free list.
Taken(v, a) == IF v.tab[PDX(a)] = None THEN {First, Second} ELSE {First}

\* kalloc succeeds while there is a free frame.
LEMMA OneFree == free # {} => First \in free
<1>. QED  BY DEF First, kalloc

\* There are finitely many frames.
LEMMA FreeFinite == VTypes => IsFiniteSet(free) /\ Cardinality(free) \in Nat
<1>1. IsFiniteSet(1 .. NFRAMES)
  BY Sizes, FS_Interval
<1>. QED  BY <1>1, FS_Subset, FS_CardinalityType, Zenon DEF VTypes, Frames

\* With two free frames, two calls of kalloc return two frames.
LEMMA TwoFree == VTypes /\ Cardinality(free) >= 2 => First \in free /\ Second \in free \ {First}
<1>1. SUFFICES ASSUME VTypes, Cardinality(free) >= 2
               PROVE  First \in free /\ Second \in free \ {First}
  BY Zenon
<1>2. IsFiniteSet(free)
  BY <1>1, FreeFinite, Zenon
<1>3. free # {}
  BY <1>1, FS_EmptySet
<1>4. free \ {First} # {}
  <2>1. SUFFICES ASSUME free \ {First} = {} PROVE FALSE
    BY Zenon
  <2>2. free = {First}
    BY <2>1, <1>3, OneFree, Zenon
  <2>3. Cardinality(free) = 1
    BY <2>2, FS_Singleton, Zenon
  <2>. QED  BY <2>3, <1>1
<1>. QED  BY <1>3, <1>4, OneFree DEF Second, kalloc

\* CanMap: the frames mappages and walkpgdir need are there.
LEMMA CanMapFree ==
  ASSUME VTypes, NEW v \in Space, NEW a \in Pages, CanMap(v, a)
  PROVE  /\ First \in free /\ First \in Frames
         /\ v.tab[PDX(a)] = None => Second \in free \ {First} /\ Second \in Frames
         /\ Taken(v, a) \subseteq free
<1>1. IsFiniteSet(free) /\ Cardinality(free) \in Nat
  BY FreeFinite, Zenon
<1>2. First \in free
  <2>1. Cardinality(free) >= 1
    BY <1>1 DEF CanMap, TabsFor
  <2>2. free # {}
    BY <2>1, <1>1, FS_EmptySet
  <2>. QED  BY <2>2, OneFree
<1>3. v.tab[PDX(a)] = None => Second \in free \ {First}
  BY TwoFree, <1>1 DEF CanMap, TabsFor
<1>. QED  BY <1>2, <1>3 DEF VTypes, Taken

\* MapPage, field by field.
LEMMA MapFields ==
  ASSUME NEW v \in Space, NEW a \in Pages, NEW u \in BOOLEAN
  PROVE  MapPage(v, a, u) =
           [dir |-> v.dir, ktab |-> v.ktab,
            tab |-> [v.tab EXCEPT ![PDX(a)] = IF @ = None THEN Second ELSE @],
            pte |-> [v.pte EXCEPT ![a] = First],
            user |-> IF u THEN v.user \cup {a} ELSE v.user]
<1>. QED  BY DEF MapPage, First, Second

\* It is an address space again.
LEMMA MapSpace ==
  ASSUME VTypes, NEW v \in Space, NEW a \in Pages, NEW u \in BOOLEAN, CanMap(v, a)
  PROVE  MapPage(v, a, u) \in Space
<1>1. [v.pte EXCEPT ![a] = First] \in [Pages -> Frame0]
  BY CanMapFree, Zenon DEF Space, Frame0
<1>2. [v.tab EXCEPT ![PDX(a)] = IF @ = None THEN Second ELSE @] \in [Tables -> Frame0]
  BY CanMapFree, TableOf, Zenon DEF Space, Frame0
<1>3. (IF u THEN v.user \cup {a} ELSE v.user) \in SUBSET Pages
  BY Zenon DEF Space
<1>4. v.dir \in Frame0 /\ v.ktab \in Frame0
  BY Zenon DEF Space
<1>5. \A d, k \in Frame0, t \in [Tables -> Frame0], x \in [Pages -> Frame0], s \in SUBSET Pages :
        [dir |-> d, ktab |-> k, tab |-> t, pte |-> x, user |-> s] \in Space
  BY DEF Space
<1>. QED  BY <1>1, <1>2, <1>3, <1>4, <1>5, Zenon DEF MapPage, First, Second

\* Which places MapPage changes.
LEMMA MapAt ==
  ASSUME NEW v \in Space, NEW a \in Pages, NEW u \in BOOLEAN, NEW n \in Places
  PROVE  At(MapPage(v, a, u), n) =
           IF n = <<"pte", a>> THEN First
           ELSE IF n = <<"tab", PDX(a)>> /\ v.tab[PDX(a)] = None THEN Second
           ELSE At(v, n)
<1>1. CASE n = <<"dir", 0>>
  BY <1>1, MapFields DEF At
<1>2. CASE n = <<"ktab", 0>>
  BY <1>2, MapFields DEF At
<1>3. CASE n \in {"tab"} \X Tables
  <2>1. PICK d \in Tables : n = <<"tab", d>>
    BY <1>3
  <2>2. At(v, n) = v.tab[d] /\ At(MapPage(v, a, u), n) = MapPage(v, a, u).tab[d]
    BY <2>1, Zenon DEF At
  <2>3. MapPage(v, a, u).tab = [v.tab EXCEPT ![PDX(a)] = IF @ = None THEN Second ELSE @]
    BY MapFields
  <2>. QED  BY <2>1, <2>2, <2>3, TableOf DEF Space
<1>4. CASE n \in {"pte"} \X Pages
  <2>1. PICK b \in Pages : n = <<"pte", b>>
    BY <1>4
  <2>2. At(v, n) = v.pte[b] /\ At(MapPage(v, a, u), n) = MapPage(v, a, u).pte[b]
    BY <2>1, Zenon DEF At
  <2>3. MapPage(v, a, u).pte = [v.pte EXCEPT ![a] = First]
    BY MapFields
  <2>. QED  BY <2>1, <2>2, <2>3 DEF Space
<1>. QED  BY <1>1, <1>2, <1>3, <1>4 DEF Places

\* Mapping a page that was not mapped adds the frames taken, and an address space
\* that had none of the free frames still refers to each of its frames once.
LEMMA MapOwns ==
  ASSUME VTypes, NEW v \in Space, NEW a \in Pages, NEW u \in BOOLEAN,
         CanMap(v, a), v.pte[a] = None, FramesOf(v) \cap free = {}, Distinct(v)
  PROVE  /\ FramesOf(MapPage(v, a, u)) = FramesOf(v) \cup Taken(v, a)
         /\ Distinct(MapPage(v, a, u))
<1>. DEFINE w == MapPage(v, a, u)
            new1 == <<"pte", a>>
            new2 == <<"tab", PDX(a)>>
<1>1. new1 \in Places /\ new2 \in Places /\ new1 # new2
  BY TableOf, Zenon DEF Places
<1>2. At(v, new1) = None /\ At(v, new2) = v.tab[PDX(a)]
  BY Zenon DEF At
<1>3. \A n \in Places : At(w, n) = IF n = new1 THEN First
                        ELSE IF n = new2 /\ At(v, new2) = None THEN Second ELSE At(v, n)
  BY MapAt, <1>2
<1>4. First \in free /\ First # None /\ (At(v, new2) = None => Second \in free /\ Second # First /\ Second # None)
  BY CanMapFree, Sizes, <1>2, Zenon
<1>5. Taken(v, a) = IF At(v, new2) = None THEN {First, Second} ELSE {First}
  BY <1>2, Zenon DEF Taken
<1>6. FramesOf(v) = {At(v, n) : n \in Places} \ {None}
  BY FramesAre, Zenon
<1>7. FramesOf(w) = {At(w, n) : n \in Places} \ {None}
  BY FramesAre, MapSpace, Zenon
<1>8. \A n \in Places : At(v, n) \notin free \/ At(v, n) = None
  BY <1>6, Zenon
<1>. HIDE DEF w, new1, new2
<1>9. FramesOf(w) = FramesOf(v) \cup Taken(v, a)
  <2>1. ASSUME NEW f \in FramesOf(w) PROVE f \in FramesOf(v) \cup Taken(v, a)
    <3>1. PICK n \in Places : f = At(w, n) /\ f # None
      BY <1>7, Zenon
    <3>. QED  BY <3>1, <1>3, <1>5, <1>6
  <2>2. ASSUME NEW f \in FramesOf(v) PROVE f \in FramesOf(w)
    <3>1. PICK n \in Places : f = At(v, n) /\ f # None
      BY <1>6, Zenon
    <3>2. At(w, n) = f
      BY <3>1, <1>2, <1>3, Zenon
    <3>. QED  BY <3>1, <3>2, <1>7
  <2>3. First \in FramesOf(w)
    BY <1>1, <1>3, <1>4, <1>7, Zenon
  <2>4. At(v, new2) = None => Second \in FramesOf(w)
    BY <1>1, <1>3, <1>4, <1>7, Zenon
  <2>. QED  BY <2>1, <2>2, <2>3, <2>4, <1>5
<1>10. Distinct(w)
  <2>1. SUFFICES ASSUME NEW m \in Places, At(w, m) # None, NEW n \in Places, At(w, n) = At(w, m)
                 PROVE  n = m
    BY Zenon DEF Distinct
  <2>2. At(v, m) # None /\ At(v, n) = At(v, m) => n = m
    BY DEF Distinct
  <2>. QED  BY <2>1, <2>2, <1>3, <1>4, <1>8
<1>. QED  BY <1>9, <1>10 DEF w

\* Filling: the frame taken for the page gets what the caller writes, the one
\* for a page table is zeroed, and every other frame keeps its contents.
Filled(v, a, with) ==
    /\ fill'[First] = with
    /\ v.tab[PDX(a)] = None => fill'[Second] = "table"
    /\ \A f \in Frames : f \notin Taken(v, a) => fill'[f] = fill[f]

\* TakeFor, in these words.
LEMMA TakeForDoes ==
  ASSUME VTypes, NEW v \in Space, NEW a \in Pages, CanMap(v, a),
         NEW with \in {"zero", "data"}, TakeFor(v, a, with)
  PROVE  /\ free' = free \ Taken(v, a)
         /\ Filled(v, a, with)
         /\ fill' \in [Frames -> {"junk", "table", "zero", "data"}]
<1>1. /\ free' = free \ Taken(v, a)
      /\ fill' = [g \in Frames |-> IF g = First THEN with
                                   ELSE IF g \in Taken(v, a) THEN "table" ELSE fill[g]]
  BY Zenon DEF TakeFor, Taken, First, Second
<1>2. First \in Frames /\ (v.tab[PDX(a)] = None => Second \in Frames /\ Second # First)
  BY CanMapFree, Zenon
<1>3. Filled(v, a, with)
  BY <1>1, <1>2, Zenon DEF Filled, Taken
<1>4. fill' \in [Frames -> {"junk", "table", "zero", "data"}]
  BY <1>1 DEF VTypes
<1>. QED  BY <1>1, <1>3, <1>4

\* A clean address space is clean after mapping a page of it.
LEMMA MapClean ==
  ASSUME VTypes, NEW v \in Space, NEW a \in Pages, NEW u \in BOOLEAN, CanMap(v, a),
         FramesOf(v) \cap free = {}, Clean(v, fill),
         NEW with \in {"zero", "data"}, Filled(v, a, with)
  PROVE  Clean(MapPage(v, a, u), fill')
<1>. DEFINE w == MapPage(v, a, u)
<1>1. \A f \in FramesOf(v) : fill'[f] = fill[f]
  BY CanMapFree, FramesIn, Zenon DEF Filled
<1>2. w.pte = [v.pte EXCEPT ![a] = First] /\ w.tab = [v.tab EXCEPT ![PDX(a)] = IF @ = None THEN Second ELSE @]
  BY MapFields
<1>3. ASSUME NEW b \in Pages, w.pte[b] # None PROVE fill'[w.pte[b]] \in {"zero", "data"}
  <2>1. CASE b = a
    BY <2>1, <1>2, Zenon DEF Filled, Space
  <2>2. CASE b # a
    <3>1. w.pte[b] = v.pte[b]
      BY <2>2, <1>2, Zenon DEF Space
    <3>2. v.pte[b] \in FramesOf(v)
      BY <3>1, <1>3, EntryFrames, Zenon
    <3>. QED  BY <3>1, <3>2, <1>1, <1>3 DEF Clean
  <2>. QED  BY <2>1, <2>2
<1>4. ASSUME NEW d \in Tables, w.tab[d] # None PROVE fill'[w.tab[d]] = "table"
  <2>1. CASE d = PDX(a) /\ v.tab[d] = None
    BY <2>1, <1>2, TableOf, Zenon DEF Filled, Space
  <2>2. CASE ~(d = PDX(a) /\ v.tab[d] = None)
    <3>1. w.tab[d] = v.tab[d]
      BY <2>2, <1>2, Zenon DEF Space
    <3>2. v.tab[d] \in FramesOf(v)
      BY <3>1, <1>4, EntryFrames
    <3>. QED  BY <3>1, <3>2, <1>1, <1>4 DEF Clean
  <2>. QED  BY <2>1, <2>2
<1>. QED  BY <1>3, <1>4 DEF Clean

-----------------------------------------------------------------------------
\* Ownership

\* The part of FramesOwnedOnce about owners.
Shared ==
    /\ (UNION {Owned(o) : o \in Owners}) \cup lost = Frames \ free
    /\ \A o \in Owners : Owned(o) \cap lost = {}
    /\ \A o, q \in Owners : o # q => Owned(o) \cap Owned(q) = {}

\* Owners outside G keep what they own.
Keeps(G) == \A o \in Owners \ G : Owned(o)' = Owned(o)

\* Owner o takes frames F from the free list.
Gains(o, F) ==
    /\ F \subseteq free /\ free' = free \ F /\ lost' = lost
    /\ Owned(o)' = Owned(o) \cup F /\ Keeps({o})

\* Owners G give back all they own but the frames L, which are lost.
Frees(G, L) ==
    /\ L \subseteq UNION {Owned(o) : o \in G} /\ lost' = lost \cup L
    /\ free' = free \cup ((UNION {Owned(o) : o \in G}) \ L)
    /\ \A o \in G : Owned(o)' = {}
    /\ Keeps(G)

\* Owner q gives back all it owns but L and gets what owner o had.
Hands(o, q, L) ==
    /\ L \subseteq Owned(q) /\ lost' = lost \cup L
    /\ free' = free \cup (Owned(q) \ L)
    /\ Owned(q)' = Owned(o) /\ Owned(o)' = {}
    /\ Keeps({o, q})

\* Of the frames U that their owners give up, L are lost and the others are free.
LEMMA Losing ==
  ASSUME NEW W, NEW U, NEW L, NEW F, NEW K, W \cup U \cup K = Frames \ F,
         W \cap U = {}, W \cap K = {}, U \cap K = {}, L \subseteq U, F \subseteq Frames
  PROVE  /\ W \cup (K \cup L) = Frames \ (F \cup (U \ L))
         /\ F \cup (U \ L) \subseteq Frames
<1>. QED  OBVIOUS

\* Each way of moving frames keeps every frame owned once.
LEMMA GainsShared ==
  ASSUME Shared, free \subseteq Frames, NEW o \in Owners, NEW F, Gains(o, F)
  PROVE  Shared'
<1>1. \A q \in Owners : Owned(q) \subseteq Frames \ free
  BY Zenon DEF Shared
<1>2. \A q \in Owners : Owned(q)' = IF q = o THEN Owned(o) \cup F ELSE Owned(q)
  BY Zenon DEF Gains, Keeps
<1>3. UNION {Owned(q)' : q \in Owners} = (UNION {Owned(q) : q \in Owners}) \cup F
  BY <1>2, Zenon
<1>4. (UNION {Owned(q)' : q \in Owners}) \cup lost' = Frames \ free'
  BY <1>3, Zenon DEF Shared, Gains
<1>5. \A q, r \in Owners : q # r => Owned(q)' \cap Owned(r)' = {}
  BY <1>1, <1>2 DEF Shared, Gains
<1>6. lost \subseteq Frames \ free
  BY DEF Shared
<1>7. \A q \in Owners : Owned(q)' \cap lost' = {}
  BY <1>2, <1>6 DEF Shared, Gains
<1>. QED  BY <1>4, <1>5, <1>7 DEF Shared

\* The same for owners that give frames back.
LEMMA FreesShared ==
  ASSUME Shared, free \subseteq Frames, NEW G \in SUBSET Owners, NEW L, Frees(G, L)
  PROVE  Shared' /\ free' \subseteq Frames
<1>1. \A q \in Owners : Owned(q) \subseteq Frames \ free
  BY Zenon DEF Shared
<1>2. \A q \in Owners : Owned(q)' = IF q \in G THEN {} ELSE Owned(q)
  BY Zenon DEF Frees, Keeps
<1>. DEFINE U == UNION {Owned(o) : o \in G}
<1>3. L \subseteq U /\ lost' = lost \cup L /\ free' = free \cup (U \ L)
  BY DEF Frees
<1>5. ASSUME NEW q \in Owners PROVE Owned(q)' \cap U = {} /\ Owned(q)' \cap lost = {}
  <2>1. CASE q \in G
    BY <2>1, <1>2, Zenon
  <2>2. CASE q \notin G
    <3>1. Owned(q)' = Owned(q) /\ Owned(q) \cap lost = {}
      BY <2>2, <1>2, Zenon DEF Shared
    <3>2. \A r \in G : Owned(q) \cap Owned(r) = {}
      BY <2>2, Zenon DEF Shared
    <3>3. Owned(q) \cap U = {}
      BY <3>2, Zenon
    <3>. QED  BY <3>1, <3>3, Zenon
  <2>. QED  BY <2>1, <2>2
<1>6. U \cap lost = {}
  BY Zenon DEF Shared
<1>. DEFINE W == UNION {Owned(q)' : q \in Owners}
<1>7. W \cap U = {} /\ W \cap lost = {}
  <2>. HIDE DEF U
  <2>. QED  BY <1>5, Zenon
<1>8. UNION {Owned(q) : q \in Owners} = W \cup U
  <2>1. \A q \in Owners : Owned(q) \subseteq W \cup U
    BY <1>2, Zenon
  <2>2. \A q \in Owners : Owned(q)' \subseteq UNION {Owned(r) : r \in Owners}
    BY <1>2, Zenon
  <2>3. U \subseteq UNION {Owned(q) : q \in Owners}
    BY Zenon
  <2>. QED  BY <2>1, <2>2, <2>3
<1>9. W \cup U \cup lost = Frames \ free
  BY <1>8, Zenon DEF Shared
<1>10. W \cup lost' = Frames \ free' /\ free' \subseteq Frames
  <2>. HIDE DEF W, U
  <2>1. W \cup (lost \cup L) = Frames \ (free \cup (U \ L)) /\ free \cup (U \ L) \subseteq Frames
    BY <1>3, <1>6, <1>7, <1>9, Losing, Zenon
  <2>. QED  BY <2>1, <1>3, Zenon
<1>11. \A q \in Owners : Owned(q)' \cap lost' = {}
  <2>. HIDE DEF U
  <2>. QED  BY <1>3, <1>5
<1>12. \A q, r \in Owners : q # r => Owned(q)' \cap Owned(r)' = {}
  BY <1>2 DEF Shared
<1>. QED  BY <1>10, <1>11, <1>12, Zenon DEF Shared

\* The same for an owner that hands its frames over.
LEMMA HandsShared ==
  ASSUME Shared, free \subseteq Frames, NEW o \in Owners, NEW q \in Owners, o # q,
         NEW L, Hands(o, q, L)
  PROVE  Shared' /\ free' \subseteq Frames
<1>1. \A r \in Owners : Owned(r) \subseteq Frames \ free
  BY Zenon DEF Shared
<1>2. \A r \in Owners : Owned(r)' = IF r = q THEN Owned(o) ELSE IF r = o THEN {} ELSE Owned(r)
  BY Zenon DEF Hands, Keeps
<1>3. L \subseteq Owned(q) /\ lost' = lost \cup L /\ free' = free \cup (Owned(q) \ L)
  BY Zenon DEF Hands
<1>4. Owned(q) \cap lost = {}
  BY Zenon DEF Shared
<1>5. \A r \in Owners : Owned(r)' \cap Owned(q) = {} /\ Owned(r)' \cap lost = {}
  <2>1. TAKE r \in Owners
  <2>2. CASE r = q
    BY <2>2, <1>2, Zenon DEF Shared
  <2>3. CASE r # q
    BY <2>3, <1>2, Zenon DEF Shared
  <2>. QED  BY <2>2, <2>3
<1>. DEFINE W == UNION {Owned(r)' : r \in Owners}
<1>6. UNION {Owned(r) : r \in Owners} = W \cup Owned(q)
  <2>1. ASSUME NEW r \in Owners PROVE Owned(r) \subseteq W \cup Owned(q)
    <3>1. CASE r = o
      BY <3>1, <1>2, Zenon
    <3>2. CASE r # o
      BY <3>2, <1>2, Zenon
    <3>. QED  BY <3>1, <3>2
  <2>2. \A r \in Owners : Owned(r)' \subseteq UNION {Owned(t) : t \in Owners}
    BY <1>2, Zenon
  <2>3. Owned(q) \subseteq UNION {Owned(r) : r \in Owners}
    BY Zenon
  <2>. QED  BY <2>1, <2>2, <2>3
<1>7. W \cap Owned(q) = {} /\ W \cap lost = {}
  BY <1>5, Zenon
<1>8. W \cup Owned(q) \cup lost = Frames \ free
  BY <1>6, Zenon DEF Shared
<1>9. W \cup lost' = Frames \ free' /\ free' \subseteq Frames
  <2>. HIDE DEF W
  <2>1. /\ W \cup (lost \cup L) = Frames \ (free \cup (Owned(q) \ L))
        /\ free \cup (Owned(q) \ L) \subseteq Frames
    BY <1>3, <1>4, <1>7, <1>8, Losing, Zenon
  <2>. QED  BY <2>1, <1>3, Zenon
<1>10. \A r \in Owners : Owned(r)' \cap lost' = {}
  BY <1>3, <1>5
<1>11. \A r, t \in Owners : r # t => Owned(r)' \cap Owned(t)' = {}
  BY <1>2 DEF Shared
<1>. QED  BY <1>9, <1>10, <1>11, Zenon DEF Shared

\* What each owner owns.
LEMMA OwnedAre ==
  ASSUME NEW p \in Slots
  PROVE  /\ Owned(<<p, "kstack">>) = {kstack[p]} \ {None}
         /\ Owned(<<p, "vm">>) = FramesOf(vm[p])
         /\ Owned(<<p, "new">>) = FramesOf(new[p])
<1>. QED  BY DEF Owned

\* No address space has a frame that is free.
LEMMA NotFree ==
  ASSUME FramesOwnedOnce, NEW p \in Slots
  PROVE  FramesOf(vm[p]) \cap free = {} /\ FramesOf(new[p]) \cap free = {}
<1>1. \A o \in Owners : Owned(o) \cap free = {}
  BY Zenon DEF FramesOwnedOnce
<1>2. <<p, "vm">> \in Owners /\ <<p, "new">> \in Owners
  BY DEF Owners
<1>. QED  BY <1>1, <1>2, OwnedAre, Zenon

-----------------------------------------------------------------------------
\* What the actions do to memory

\* The part of the invariant about memory.
Mem ==
    /\ free \subseteq Frames
    /\ fill \in [Frames -> {"junk", "table", "zero", "data"}]
    /\ kstack \in [Slots -> Frame0]
    /\ vm \in [Slots -> Space] /\ new \in [Slots -> Space]
    /\ FramesOwnedOnce
    /\ AllClean

\* It is part of the invariant.
LEMMA VInvMem == VInv => Mem
<1>. QED  BY DEF VInv, VTypes, Mem

\* Owners share nothing.
LEMMA MemShared == Mem => Shared
<1>. QED  BY DEF Mem, FramesOwnedOnce, Shared

\* A step that leaves memory alone.
LEMMA SameMem == Mem /\ UNCHANGED <<free, fill, kstack, vm, new, lost>> => Mem'
<1>1. SUFFICES ASSUME Mem, UNCHANGED <<free, fill, kstack, vm, new, lost>> PROVE Mem'
  BY Zenon
<1>2. \A o : Owned(o)' = Owned(o)
  BY <1>1, Zenon DEF Owned
<1>3. FramesOwnedOnce'
  BY <1>1, <1>2, Zenon DEF Mem, FramesOwnedOnce
<1>4. AllClean'
  BY <1>1 DEF Mem, AllClean
<1>. QED  BY <1>1, <1>3, <1>4 DEF Mem

\* The three kinds of owner.
LEMMA OwnerKinds ==
  ASSUME NEW o \in Owners
  PROVE  \E p \in Slots : o \in {<<p, "kstack">>, <<p, "vm">>, <<p, "new">>}
<1>. QED  BY DEF Owners

\* An owner is known by its slot and its kind.
LEMMA OwnerEq ==
  \A p, q \in Slots : /\ <<p, "kstack">> \in Owners /\ <<p, "vm">> \in Owners /\ <<p, "new">> \in Owners
                     /\ <<p, "kstack">> # <<q, "vm">> /\ <<p, "kstack">> # <<q, "new">>
                     /\ <<p, "vm">> # <<q, "new">>
                     /\ p # q => /\ <<p, "kstack">> # <<q, "kstack">> /\ <<p, "vm">> # <<q, "vm">>
                                 /\ <<p, "new">> # <<q, "new">>
<1>. QED  BY DEF Owners

\* The frames of the other address spaces are not those a step fills.
Untouched(F) == \A f \in Frames : f \notin F => fill'[f] = fill[f]

\* An address space with no frame in F stays clean when a step fills F.
LEMMA UntouchedClean ==
  ASSUME Mem, NEW F, Untouched(F), NEW v \in Space, Clean(v, fill), FramesOf(v) \cap F = {}
  PROVE  Clean(v, fill')
<1>1. \A f \in FramesOf(v) : fill'[f] = fill[f]
  BY FramesIn DEF Untouched
<1>. QED  BY <1>1, CleanStays

\* A page mapped in the directory p's fork or exec is building.
Builds(p, a, u, with) ==
    /\ CanMap(new[p], a) /\ new[p].pte[a] = None
    /\ new' = [new EXCEPT ![p] = MapPage(@, a, u)]
    /\ TakeFor(new[p], a, with)
    /\ UNCHANGED <<kstack, vm, lost>>

\* A page mapped in p's own address space.
Faults(p, a) ==
    /\ CanMap(vm[p], a) /\ vm[p].pte[a] = None
    /\ vm' = [vm EXCEPT ![p] = MapPage(@, a, TRUE)]
    /\ TakeFor(vm[p], a, "zero")
    /\ UNCHANGED <<kstack, new, lost>>

\* copyuvm and allocuvm: mapping one more page.
LEMMA BuildsMem ==
  ASSUME VTypes, Mem, NEW p \in Slots, NEW a \in Pages, NEW u \in BOOLEAN,
         NEW with \in {"zero", "data"}, Builds(p, a, u, with)
  PROVE  Mem'
<1>. DEFINE v == new[p]
            w == MapPage(v, a, u)
            o == <<p, "new">>
<1>1. v \in Space /\ FramesOf(v) \cap free = {} /\ Distinct(v) /\ Clean(v, fill) /\ CanMap(v, a)
      /\ v.pte[a] = None /\ TakeFor(v, a, with)
  BY NotFree, Zenon DEF Mem, Builds, FramesOwnedOnce, AllClean
<1>2. w \in Space /\ new' = [new EXCEPT ![p] = w]
  BY <1>1, MapSpace, Zenon DEF Builds
<1>3. FramesOf(w) = FramesOf(v) \cup Taken(v, a) /\ Distinct(w)
  BY <1>1, MapOwns, Zenon
<1>4. /\ free' = free \ Taken(v, a) /\ Filled(v, a, with)
      /\ fill' \in [Frames -> {"junk", "table", "zero", "data"}]
  BY <1>1, TakeForDoes, Zenon
<1>5. Clean(w, fill')
  BY <1>1, <1>4, MapClean, Zenon
<1>6. Taken(v, a) \subseteq free
  BY <1>1, CanMapFree, Zenon
<1>7. kstack' = kstack /\ vm' = vm /\ lost' = lost
  BY Zenon DEF Builds
<1>. HIDE DEF v, w
<1>8. \A q \in Slots : q # p => new'[q] = new[q]
  BY <1>2, Zenon DEF Mem
<1>9. new'[p] = w /\ new[p] = v
  BY <1>2, Zenon DEF Mem, v
<1>10. Gains(o, Taken(v, a))
  <2>1. Owned(o)' = Owned(o) \cup Taken(v, a)
    BY <1>3, <1>9, Zenon DEF Owned
  <2>2. ASSUME NEW r \in Owners, r # o PROVE Owned(r)' = Owned(r)
    <3>1. PICK q \in Slots : r \in {<<q, "kstack">>, <<q, "vm">>, <<q, "new">>}
      BY OwnerKinds, Zenon
    <3>. QED  BY <3>1, <2>2, <1>7, <1>8 DEF Owned
  <2>. QED  BY <2>1, <2>2, <1>4, <1>6, <1>7 DEF Gains, Keeps
<1>11. Shared'
  <2>1. o \in Owners
    BY Zenon DEF Owners
  <2>. QED  BY <2>1, <1>10, GainsShared, MemShared DEF Mem
<1>12. \A q \in Slots : Distinct(vm'[q]) /\ Distinct(new'[q])
  BY <1>3, <1>7, <1>8, <1>9, Zenon DEF Mem, FramesOwnedOnce
<1>13. Untouched(Taken(v, a))
  BY <1>4, Zenon DEF Filled, Untouched
<1>14. ASSUME NEW q \in Slots PROVE Clean(vm'[q], fill') /\ Clean(new'[q], fill')
  <2>1. Clean(vm[q], fill')
    BY <1>6, <1>13, NotFree, UntouchedClean DEF Mem, AllClean
  <2>2. Clean(new[q], fill')
    BY <1>6, <1>13, NotFree, UntouchedClean DEF Mem, AllClean
  <2>. QED  BY <2>1, <2>2, <1>5, <1>7, <1>8, <1>9
<1>15. free' \subseteq Frames /\ new' \in [Slots -> Space]
  BY <1>2, <1>4 DEF Mem
<1>. QED  BY <1>4, <1>7, <1>11, <1>12, <1>14, <1>15 DEF Mem, FramesOwnedOnce, Shared, AllClean

\* The page fault handler: mapping the page that was missing.
LEMMA FaultsMem ==
  ASSUME VTypes, Mem, NEW p \in Slots, NEW a \in Pages, Faults(p, a)
  PROVE  Mem'
<1>. DEFINE v == vm[p]
            w == MapPage(v, a, TRUE)
            o == <<p, "vm">>
<1>1. v \in Space /\ FramesOf(v) \cap free = {} /\ Distinct(v) /\ Clean(v, fill) /\ CanMap(v, a)
      /\ v.pte[a] = None /\ TakeFor(v, a, "zero")
  BY NotFree, Zenon DEF Mem, Faults, FramesOwnedOnce, AllClean
<1>2. w \in Space /\ vm' = [vm EXCEPT ![p] = w]
  BY <1>1, MapSpace, Zenon DEF Faults
<1>3. FramesOf(w) = FramesOf(v) \cup Taken(v, a) /\ Distinct(w)
  BY <1>1, MapOwns, Zenon
<1>4. /\ free' = free \ Taken(v, a) /\ Filled(v, a, "zero")
      /\ fill' \in [Frames -> {"junk", "table", "zero", "data"}]
  BY <1>1, TakeForDoes, Zenon
<1>5. Clean(w, fill')
  BY <1>1, <1>4, MapClean, Zenon
<1>6. Taken(v, a) \subseteq free
  BY <1>1, CanMapFree, Zenon
<1>7. kstack' = kstack /\ new' = new /\ lost' = lost
  BY Zenon DEF Faults
<1>. HIDE DEF v, w
<1>8. \A q \in Slots : q # p => vm'[q] = vm[q]
  BY <1>2, Zenon DEF Mem
<1>9. vm'[p] = w /\ vm[p] = v
  BY <1>2, Zenon DEF Mem, v
<1>10. Gains(o, Taken(v, a))
  <2>1. Owned(o)' = Owned(o) \cup Taken(v, a)
    BY <1>3, <1>9, Zenon DEF Owned
  <2>2. ASSUME NEW r \in Owners, r # o PROVE Owned(r)' = Owned(r)
    <3>1. PICK q \in Slots : r \in {<<q, "kstack">>, <<q, "vm">>, <<q, "new">>}
      BY OwnerKinds, Zenon
    <3>. QED  BY <3>1, <2>2, <1>7, <1>8 DEF Owned
  <2>. QED  BY <2>1, <2>2, <1>4, <1>6, <1>7 DEF Gains, Keeps
<1>11. Shared'
  <2>1. o \in Owners
    BY Zenon DEF Owners
  <2>. QED  BY <2>1, <1>10, GainsShared, MemShared DEF Mem
<1>12. \A q \in Slots : Distinct(vm'[q]) /\ Distinct(new'[q])
  BY <1>3, <1>7, <1>8, <1>9, Zenon DEF Mem, FramesOwnedOnce
<1>13. Untouched(Taken(v, a))
  BY <1>4, Zenon DEF Filled, Untouched
<1>14. ASSUME NEW q \in Slots PROVE Clean(vm'[q], fill') /\ Clean(new'[q], fill')
  <2>1. Clean(vm[q], fill')
    BY <1>6, <1>13, NotFree, UntouchedClean DEF Mem, AllClean
  <2>2. Clean(new[q], fill')
    BY <1>6, <1>13, NotFree, UntouchedClean DEF Mem, AllClean
  <2>. QED  BY <2>1, <2>2, <1>5, <1>7, <1>8, <1>9
<1>15. free' \subseteq Frames /\ vm' \in [Slots -> Space]
  BY <1>2, <1>4 DEF Mem
<1>. QED  BY <1>4, <1>7, <1>11, <1>12, <1>14, <1>15 DEF Mem, FramesOwnedOnce, Shared, AllClean

\* allocproc: a kernel stack for a slot that had none.
LEMMA StackMem ==
  ASSUME Mem, NEW c \in Slots, kstack[c] = None, free # {},
         kstack' = [kstack EXCEPT ![c] = First], free' = free \ {First},
         fill' = [fill EXCEPT ![First] = "table"], UNCHANGED <<vm, new, lost>>
  PROVE  Mem'
<1>. DEFINE o == <<c, "kstack">>
<1>1. First \in free /\ First \in Frames
  BY OneFree, Zenon DEF Mem
<1>2. First # None
  BY <1>1, Sizes, Zenon
<1>3. vm' = vm /\ new' = new /\ lost' = lost
  BY Zenon
<1>4. kstack'[c] = First /\ \A q \in Slots : q # c => kstack'[q] = kstack[q]
  BY Zenon DEF Mem
<1>5. Gains(o, {First})
  <2>1. Owned(o)' = Owned(o) \cup {First}
    BY <1>2, <1>4, Zenon DEF Owned
  <2>2. ASSUME NEW r \in Owners, r # o PROVE Owned(r)' = Owned(r)
    <3>1. PICK q \in Slots : r \in {<<q, "kstack">>, <<q, "vm">>, <<q, "new">>}
      BY OwnerKinds, Zenon
    <3>. QED  BY <3>1, <2>2, <1>3, <1>4 DEF Owned
  <2>. QED  BY <2>1, <2>2, <1>1, <1>3 DEF Gains, Keeps
<1>6. Shared'
  <2>1. o \in Owners
    BY Zenon DEF Owners
  <2>. QED  BY <2>1, <1>5, GainsShared, MemShared DEF Mem
<1>7. Untouched({First})
  BY Zenon DEF Untouched, Mem
<1>8. ASSUME NEW q \in Slots PROVE Clean(vm'[q], fill') /\ Clean(new'[q], fill')
  <2>1. /\ vm[q] \in Space /\ Clean(vm[q], fill) /\ FramesOf(vm[q]) \cap {First} = {}
        /\ new[q] \in Space /\ Clean(new[q], fill) /\ FramesOf(new[q]) \cap {First} = {}
    BY <1>1, NotFree, Zenon DEF Mem, AllClean
  <2>2. \A v \in Space : Clean(v, fill) /\ FramesOf(v) \cap {First} = {} => Clean(v, fill')
    BY <1>7, UntouchedClean, Zenon
  <2>. QED  BY <2>1, <2>2, <1>3, Zenon
<1>9. fill' \in [Frames -> {"junk", "table", "zero", "data"}] /\ kstack' \in [Slots -> Frame0]
  BY <1>1 DEF Mem, Frame0
<1>. QED  BY <1>3, <1>6, <1>8, <1>9, Zenon DEF Mem, FramesOwnedOnce, Shared, AllClean

\* setupkvm returns an address space with the two frames it took.
LEMMA SetupSpace ==
  ASSUME VTypes, Cardinality(free) >= 2
  PROVE  /\ setupkvm \in Space /\ Distinct(setupkvm) /\ FramesOf(setupkvm) = {First, Second}
         /\ setupkvm.dir = First /\ setupkvm.ktab = Second
         /\ \A w : Clean(setupkvm, w)
<1>1. First \in Frames /\ Second \in Frames /\ First # Second /\ First # None /\ Second # None
  BY TwoFree, Sizes, Zenon DEF VTypes
<1>2. setupkvm = [dir |-> First, ktab |-> Second, tab |-> [d \in Tables |-> None],
                  pte |-> [a \in Pages |-> None], user |-> {}]
  BY Zenon DEF setupkvm, First, Second, NoVm
<1>3. setupkvm \in Space
  BY <1>1, <1>2, Zenon DEF Space, Frame0
<1>4. ASSUME NEW n \in Places
      PROVE  At(setupkvm, n) = IF n = <<"dir", 0>> THEN First
                               ELSE IF n = <<"ktab", 0>> THEN Second ELSE None
  <2>1. CASE n = <<"dir", 0>>
    BY <2>1, <1>2, Zenon DEF At
  <2>2. CASE n = <<"ktab", 0>>
    BY <2>2, <1>2, Zenon DEF At
  <2>3. CASE n \in {"tab"} \X Tables
    BY <2>3, <1>2 DEF At
  <2>4. CASE n \in {"pte"} \X Pages
    BY <2>4, <1>2 DEF At
  <2>. QED  BY <2>1, <2>2, <2>3, <2>4 DEF Places
<1>5. Distinct(setupkvm)
  BY <1>1, <1>4, Zenon DEF Distinct
<1>6. <<"dir", 0>> \in Places /\ <<"ktab", 0>> \in Places /\ <<"dir", 0>> # <<"ktab", 0>>
  BY Zenon DEF Places
<1>7. FramesOf(setupkvm) = {First, Second}
  <2>1. FramesOf(setupkvm) = {At(setupkvm, n) : n \in Places} \ {None}
    BY <1>3, FramesAre, Zenon
  <2>. QED  BY <2>1, <1>1, <1>4, <1>6
<1>8. \A w : Clean(setupkvm, w)
  BY <1>2, Zenon DEF Clean
<1>. QED  BY <1>2, <1>3, <1>5, <1>7, <1>8

\* StartVm: setupkvm for a directory that was not begun.
LEMMA StartMem ==
  ASSUME VTypes, Mem, NEW p \in Slots, StartVm(p), new[p] = NoVm
  PROVE  Mem'
<1>. DEFINE o == <<p, "new">>
            v == setupkvm
<1>1. /\ v \in Space /\ Distinct(v) /\ FramesOf(v) = {First, Second}
      /\ v.dir = First /\ v.ktab = Second /\ \A w : Clean(v, w)
  BY SetupSpace, Zenon DEF StartVm
<1>2. First \in free /\ Second \in free
  BY TwoFree, Zenon DEF StartVm
<1>3. /\ new' = [new EXCEPT ![p] = v] /\ free' = free \ {First, Second}
      /\ fill' = [f \in Frames |-> IF f \in {First, Second} THEN "table" ELSE fill[f]]
      /\ kstack' = kstack /\ vm' = vm /\ lost' = lost
  BY <1>1, Zenon DEF StartVm
<1>. HIDE DEF v
<1>4. new'[p] = v /\ \A q \in Slots : q # p => new'[q] = new[q]
  BY <1>3, Zenon DEF Mem
<1>5. Gains(o, {First, Second})
  <2>1. Owned(o)' = Owned(o) \cup {First, Second}
    BY <1>1, <1>4, NoVmEmpty, Zenon DEF Owned
  <2>2. ASSUME NEW r \in Owners, r # o PROVE Owned(r)' = Owned(r)
    <3>1. PICK q \in Slots : r \in {<<q, "kstack">>, <<q, "vm">>, <<q, "new">>}
      BY OwnerKinds, Zenon
    <3>. QED  BY <3>1, <2>2, <1>3, <1>4 DEF Owned
  <2>. QED  BY <2>1, <2>2, <1>2, <1>3 DEF Gains, Keeps
<1>6. Shared'
  <2>1. o \in Owners
    BY Zenon DEF Owners
  <2>. QED  BY <2>1, <1>5, GainsShared, MemShared DEF Mem
<1>7. Untouched({First, Second})
  BY <1>3, Zenon DEF Untouched, Mem
<1>8. ASSUME NEW q \in Slots PROVE Clean(vm'[q], fill') /\ Clean(new'[q], fill')
  <2>1. Clean(vm[q], fill')
    BY <1>2, <1>7, NotFree, UntouchedClean DEF Mem, AllClean
  <2>2. Clean(new[q], fill')
    BY <1>2, <1>7, NotFree, UntouchedClean DEF Mem, AllClean
  <2>. QED  BY <2>1, <2>2, <1>1, <1>3, <1>4
<1>9. /\ fill' \in [Frames -> {"junk", "table", "zero", "data"}]
      /\ new' \in [Slots -> Space] /\ free' \subseteq Frames
  BY <1>1, <1>3, Zenon DEF Mem
<1>10. \A q \in Slots : Distinct(vm'[q]) /\ Distinct(new'[q])
  BY <1>1, <1>3, <1>4 DEF Mem, FramesOwnedOnce
<1>. QED  BY <1>3, <1>6, <1>8, <1>9, <1>10 DEF Mem, FramesOwnedOnce, Shared, AllClean

\* Owners G give back all they have but L: kfree and freevm.
Drops(G, L) ==
    /\ L \subseteq UNION {Owned(o) : o \in G}
    /\ kfree((UNION {Owned(o) : o \in G}) \ L)
    /\ lost' = lost \cup L
    /\ kstack' = [q \in Slots |-> IF <<q, "kstack">> \in G THEN None ELSE kstack[q]]
    /\ vm' = [q \in Slots |-> IF <<q, "vm">> \in G THEN NoVm ELSE vm[q]]
    /\ new' = [q \in Slots |-> IF <<q, "new">> \in G THEN NoVm ELSE new[q]]

\* kfree fills the frames it frees, and only those.
LEMMA KfreeFills ==
  ASSUME Mem, NEW F, kfree(F)
  PROVE  Untouched(F) /\ fill' \in [Frames -> {"junk", "table", "zero", "data"}]
<1>. QED  BY DEF kfree, Junk, Untouched, Mem

\* Giving everything back.
LEMMA DropsMem ==
  ASSUME Mem, NEW G \in SUBSET Owners, NEW L, Drops(G, L)
  PROVE  Mem'
<1>. DEFINE F == (UNION {Owned(o) : o \in G}) \ L
<1>1. ASSUME NEW q \in Slots
      PROVE  /\ kstack'[q] = IF <<q, "kstack">> \in G THEN None ELSE kstack[q]
             /\ vm'[q] = IF <<q, "vm">> \in G THEN NoVm ELSE vm[q]
             /\ new'[q] = IF <<q, "new">> \in G THEN NoVm ELSE new[q]
  BY Zenon DEF Drops
<1>2. ASSUME NEW r \in Owners PROVE Owned(r)' = IF r \in G THEN {} ELSE Owned(r)
  <2>1. PICK q \in Slots : r \in {<<q, "kstack">>, <<q, "vm">>, <<q, "new">>}
    BY OwnerKinds, Zenon
  <2>2. CASE r = <<q, "kstack">>
    BY <2>2, <1>1, Zenon DEF Owned
  <2>3. CASE r = <<q, "vm">>
    BY <2>3, <1>1, NoVmEmpty, Zenon DEF Owned
  <2>4. CASE r = <<q, "new">>
    BY <2>4, <1>1, NoVmEmpty, Zenon DEF Owned
  <2>. QED  BY <2>1, <2>2, <2>3, <2>4
<1>3. Frees(G, L)
  BY <1>2, Zenon DEF Frees, Keeps, Drops, kfree
<1>4. Shared' /\ free' \subseteq Frames
  BY <1>3, FreesShared, MemShared, Zenon DEF Mem
<1>5. Untouched(F) /\ fill' \in [Frames -> {"junk", "table", "zero", "data"}]
  BY KfreeFills, Zenon DEF Drops
<1>6. ASSUME NEW o \in Owners, o \notin G PROVE Owned(o) \cap F = {}
  <2>1. \A r \in G : Owned(o) \cap Owned(r) = {}
    BY <1>6, MemShared, Zenon DEF Shared
  <2>. QED  BY <2>1, Zenon
<1>. HIDE DEF F
<1>7. \A v \in Space : Clean(v, fill) /\ FramesOf(v) \cap F = {} => Clean(v, fill')
  BY <1>5, UntouchedClean, Zenon
<1>8. ASSUME NEW q \in Slots
      PROVE  /\ Clean(vm'[q], fill') /\ Distinct(vm'[q]) /\ vm'[q] \in Space
             /\ Clean(new'[q], fill') /\ Distinct(new'[q]) /\ new'[q] \in Space
  <2>1. /\ vm[q] \in Space /\ Clean(vm[q], fill) /\ Distinct(vm[q])
        /\ new[q] \in Space /\ Clean(new[q], fill) /\ Distinct(new[q])
    BY Zenon DEF Mem, AllClean, FramesOwnedOnce
  <2>2. Clean(NoVm, fill') /\ Distinct(NoVm) /\ NoVm \in Space
    BY NoVmClean, NoVmEmpty, NoVmSpace, Zenon
  <2>3. <<q, "vm">> \notin G => FramesOf(vm[q]) \cap F = {}
    <3>1. <<q, "vm">> \in Owners /\ Owned(<<q, "vm">>) = FramesOf(vm[q])
      BY Zenon DEF Owners, Owned
    <3>. QED  BY <3>1, <1>6
  <2>4. <<q, "new">> \notin G => FramesOf(new[q]) \cap F = {}
    <3>1. <<q, "new">> \in Owners /\ Owned(<<q, "new">>) = FramesOf(new[q])
      BY Zenon DEF Owners, Owned
    <3>. QED  BY <3>1, <1>6
  <2>. QED  BY <2>1, <2>2, <2>3, <2>4, <1>1, <1>7, Zenon
<1>9. kstack' \in [Slots -> Frame0]
  BY Zenon DEF Drops, Mem, Frame0
<1>10. vm' \in [Slots -> Space] /\ new' \in [Slots -> Space]
  BY <1>8, Zenon DEF Drops
<1>. QED  BY <1>4, <1>5, <1>8, <1>9, <1>10 DEF Mem, FramesOwnedOnce, Shared, AllClean

\* Slot c gives back its address space and gets the one p built (fork, exec).
Moves(p, c) ==
    /\ freevm(vm[c], {})
    /\ vm' = [vm EXCEPT ![c] = new[p]]
    /\ new' = [new EXCEPT ![p] = NoVm]
    /\ kstack' = kstack

\* Handing over an address space.
LEMMA MovesMem ==
  ASSUME Mem, NEW p \in Slots, NEW c \in Slots, Moves(p, c)
  PROVE  Mem'
<1>. DEFINE o == <<p, "new">>
            r == <<c, "vm">>
            F == Freed(vm[c])
<1>1. /\ vm'[c] = new[p] /\ new'[p] = NoVm /\ kstack' = kstack
      /\ \A q \in Slots : (q # c => vm'[q] = vm[q]) /\ (q # p => new'[q] = new[q])
  BY Zenon DEF Moves, Mem
<1>2. o \in Owners /\ r \in Owners /\ o # r
  BY Zenon DEF Owners
<1>10. Freed(vm[c]) = Owned(r) \ Left(vm[c]) /\ Left(vm[c]) \subseteq Owned(r)
  <2>1. vm[c] \in Space /\ Distinct(vm[c])
    BY Zenon DEF Mem, FramesOwnedOnce
  <2>. QED  BY <2>1, FreedNotLeft, OwnedAre, Zenon
<1>11. kfree(F) /\ lost' = lost \cup Left(vm[c])
  <2>1. Freed(vm[c]) \cup {} = Freed(vm[c])
    BY Zenon
  <2>. QED  BY <2>1, Zenon DEF Moves, freevm
<1>3. Hands(o, r, Left(vm[c]))
  <2>1. free' = free \cup (Owned(r) \ Left(vm[c])) /\ lost' = lost \cup Left(vm[c])
    BY <1>10, <1>11, Zenon DEF kfree
  <2>2. Owned(r)' = Owned(o)
    BY <1>1, Zenon DEF Owned
  <2>3. Owned(o)' = {}
    BY <1>1, NoVmEmpty, Zenon DEF Owned
  <2>4. ASSUME NEW s \in Owners, s # o, s # r PROVE Owned(s)' = Owned(s)
    <3>1. PICK q \in Slots : s \in {<<q, "kstack">>, <<q, "vm">>, <<q, "new">>}
      BY OwnerKinds, Zenon
    <3>. QED  BY <3>1, <2>4, <1>1 DEF Owned
  <2>. QED  BY <2>1, <2>2, <2>3, <2>4, <1>10 DEF Hands, Keeps
<1>4. Shared' /\ free' \subseteq Frames
  BY <1>2, <1>3, HandsShared, MemShared, Zenon DEF Mem
<1>5. Untouched(F) /\ fill' \in [Frames -> {"junk", "table", "zero", "data"}]
  BY <1>11, KfreeFills, Zenon
<1>6. ASSUME NEW s \in Owners, s # r PROVE Owned(s) \cap F = {}
  BY <1>2, <1>6, <1>10, MemShared, Zenon DEF Shared
<1>. HIDE DEF F
<1>7. \A v \in Space : Clean(v, fill) /\ FramesOf(v) \cap F = {} => Clean(v, fill')
  BY <1>5, UntouchedClean, Zenon
<1>8. ASSUME NEW q \in Slots
      PROVE  /\ Clean(vm'[q], fill') /\ Distinct(vm'[q]) /\ vm'[q] \in Space
             /\ Clean(new'[q], fill') /\ Distinct(new'[q]) /\ new'[q] \in Space
  <2>1. \A s \in Slots : /\ vm[s] \in Space /\ Clean(vm[s], fill) /\ Distinct(vm[s])
                         /\ new[s] \in Space /\ Clean(new[s], fill) /\ Distinct(new[s])
    BY Zenon DEF Mem, AllClean, FramesOwnedOnce
  <2>2. Clean(NoVm, fill') /\ Distinct(NoVm) /\ NoVm \in Space
    BY NoVmClean, NoVmEmpty, NoVmSpace, Zenon
  <2>3. ASSUME NEW s \in Slots PROVE s # c => FramesOf(vm[s]) \cap F = {}
    <3>1. /\ <<s, "vm">> \in Owners /\ Owned(<<s, "vm">>) = FramesOf(vm[s])
          /\ s # c => <<s, "vm">> # r
      BY Zenon DEF Owners, Owned
    <3>. QED  BY <3>1, <1>6
  <2>4. ASSUME NEW s \in Slots PROVE FramesOf(new[s]) \cap F = {}
    <3>1. /\ <<s, "new">> \in Owners /\ Owned(<<s, "new">>) = FramesOf(new[s])
          /\ <<s, "new">> # r
      BY Zenon DEF Owners, Owned
    <3>. QED  BY <3>1, <1>6
  <2>5. \A s \in Slots : Clean(new[s], fill') /\ (s # c => Clean(vm[s], fill'))
    BY <2>1, <2>3, <2>4, <1>7, Zenon
  <2>. QED  BY <2>1, <2>2, <2>5, <1>1
<1>9. vm' \in [Slots -> Space] /\ new' \in [Slots -> Space]
  BY NoVmSpace DEF Moves, Mem
<1>. QED  BY <1>1, <1>4, <1>5, <1>8, <1>9 DEF Mem, FramesOwnedOnce, Shared, AllClean

-----------------------------------------------------------------------------
\* The actions

\* The part of the invariant about control.
Calls == [op : {"none", "fork", "exec"}, child : Slots \cup {None}, i : 0 .. NPAGES]

Ctl ==
    /\ state \in [Slots -> {"UNUSED", "EMBRYO", "ALIVE", "ZOMBIE"}]
    /\ sz \in [Slots -> 0 .. TOP - 1]
    /\ call \in [Slots -> Calls]
    /\ Phases /\ Guarded

\* The invariant has two parts.
LEMMA VInvParts == VInv <=> Mem /\ Ctl
<1>. QED  BY DEF VInv, Mem, Ctl, VTypes, Calls

\* What the invariant says of a slot's call.
LEMMA CallOf ==
  ASSUME Ctl, NEW p \in Slots
  PROVE  call[p] \in Calls /\ call[p].i \in 0 .. NPAGES /\ sz[p] \in 0 .. TOP - 1
<1>. QED  BY DEF Ctl, Calls

\* The slots outside T are as they were, and those in T satisfy the invariant.
Same(q) ==
    /\ call'[q] = call[q] /\ state'[q] = state[q] /\ kstack'[q] = kstack[q]
    /\ new'[q] = new[q] /\ vm'[q] = vm[q] /\ sz'[q] = sz[q]

Steady(T) ==
    /\ \A q \in Slots \ T : Same(q)
    /\ \A q \in T : Phase(q)' /\ GuardOf(q)'

\* Every fork under way was under way, and its child has still not run.
KeepsChildren ==
    \A q \in Slots : call'[q].op = "fork" =>
      call[q].op = "fork" /\ call'[q].child = call[q].child /\ state'[call[q].child] = "EMBRYO"

\* What the invariant says of a slot.
LEMMA CtlAt ==
  ASSUME Ctl, NEW p \in Slots
  PROVE  Phase(p) /\ Child(p) /\ GuardOf(p)
<1>. QED  BY DEF Ctl, Phases, Guarded

\* A slot that stays as it was still satisfies the invariant.
LEMMA SameSlot ==
  ASSUME Ctl, NEW q \in Slots, Same(q)
  PROVE  Phase(q)' /\ GuardOf(q)'
<1>1. Phase(q)'
  BY CtlAt, Zenon DEF Same, Phase
<1>2. GuardOf(q)'
  BY CtlAt DEF Same, GuardOf
<1>. QED  BY <1>1, <1>2

\* So does every slot, after a step that changes the slots T.
LEMMA SlotsKept ==
  ASSUME Ctl, NEW T, Steady(T), KeepsChildren
  PROVE  Phases' /\ Guarded'
<1>1. \A q \in Slots : Phase(q)' /\ GuardOf(q)'
  BY SameSlot, Zenon DEF Steady
<1>2. \A q \in Slots : Child(q)'
  BY CtlAt, Zenon DEF KeepsChildren, Child
<1>3. OneParent'
  BY DEF Ctl, Phases, OneParent, KeepsChildren
<1>. QED  BY <1>1, <1>2, <1>3 DEF Phases, Guarded

\* The children of a step that leaves call and the children's states alone.
LEMMA ChildrenKept ==
  ASSUME Ctl, NEW p \in Slots, \A q \in Slots : q # p => call'[q] = call[q],
         call'[p].op = "fork" => call[p].op = "fork" /\ call'[p].child = call[p].child,
         \A q \in Slots : state[q] = "EMBRYO" => state'[q] = "EMBRYO"
  PROVE  KeepsChildren
<1>1. SUFFICES ASSUME NEW q \in Slots, call'[q].op = "fork"
               PROVE  call[q].op = "fork" /\ call'[q].child = call[q].child
                      /\ state'[call[q].child] = "EMBRYO"
  BY Zenon DEF KeepsChildren
<1>2. call[q].op = "fork" /\ call'[q].child = call[q].child
  BY <1>1
<1>. QED  BY <1>2, CtlAt DEF Child

\* panic changes nothing but that the machine has stopped.
LEMMA PanicInv ==
  ASSUME Mem, Ctl, panic
  PROVE  Mem' /\ Ctl'
<1>1. UNCHANGED <<free, fill, kstack, vm, new, lost>> /\ UNCHANGED <<state, sz, call>>
  BY Zenon DEF panic
<1>2. Mem'
  BY <1>1, SameMem, Zenon
<1>3. Phases' /\ Guarded'
  <2>1. KeepsChildren
    BY <1>1, CtlAt, Zenon DEF KeepsChildren, Child
  <2>2. Steady({})
    BY <1>1 DEF Steady, Same
  <2>. QED  BY <2>1, <2>2, SlotsKept
<1>. QED  BY <1>1, <1>2, <1>3 DEF Ctl

\* sbrk moves sz, anywhere.
LEMMA SbrkInv ==
  ASSUME Mem, Ctl, NEW p \in Slots, NEW n \in Int, sys_sbrk(p, n)
  PROVE  Mem' /\ Ctl'
<1>1. /\ UNCHANGED <<free, fill, kstack, vm, new, lost>>
      /\ UNCHANGED <<state, call, new, vm, kstack>>
  BY Zenon DEF sys_sbrk
<1>2. Mem'
  BY <1>1, SameMem, Zenon
<1>5. (sz[p] + n) % TOP \in 0 .. TOP - 1
  <2>1. sz[p] \in Int /\ TOP \in Nat \ {0}
    BY CallOf, Sizes
  <2>. QED  BY <2>1
<1>3. sz' = [sz EXCEPT ![p] = (sz[p] + n) % TOP]
  BY Zenon DEF sys_sbrk
<1>4. sz' \in [Slots -> 0 .. TOP - 1]
  BY <1>3, <1>5, Zenon DEF Ctl
<1>6. Phases' /\ Guarded'
  <2>1. KeepsChildren
    BY <1>1, ChildrenKept, Zenon
  <2>2. \A q \in Slots : q # p => Same(q)
    BY <1>1, <1>3 DEF Same
  <2>3. Phase(p)'
    BY <1>1, CtlAt, Zenon DEF Phase
  <2>4. GuardOf(p)'
    BY <1>1, <1>3, CtlAt, Sizes DEF GuardOf
  <2>5. Steady({p})
    BY <2>2, <2>3, <2>4 DEF Steady
  <2>. QED  BY <2>1, <2>5, SlotsKept
<1>. QED  BY <1>1, <1>2, <1>4, <1>6 DEF Ctl

\* exec begins.
LEMMA SysExecInv ==
  ASSUME Mem, Ctl, NEW p \in Slots, sys_exec(p)
  PROVE  Mem' /\ Ctl'
<1>1. UNCHANGED <<free, fill, kstack, vm, new, lost>> /\ UNCHANGED <<state, sz, vm, kstack>>
  BY Zenon DEF sys_exec
<1>2. Mem'
  BY <1>1, SameMem, Zenon
<1>3. call[p] = NoCall /\ state[p] = "ALIVE"
  BY Zenon DEF sys_exec, Running, Ctl, Phases, Phase, Child
<1>4. call' = [call EXCEPT ![p] = [op |-> "exec", child |-> None, i |-> 0]]
  <2>1. [NoCall EXCEPT !.op = "exec"] = [op |-> "exec", child |-> None, i |-> 0]
    BY DEF NoCall
  <2>. QED  BY <1>3, <2>1, Zenon DEF sys_exec, Ctl
<1>5. call' \in [Slots -> Calls]
  BY <1>4, Sizes DEF Ctl, Calls
<1>6. \A q \in Slots : /\ q # p => call'[q] = call[q]
                       /\ call'[p].op = "exec" /\ call'[p].i = 0 /\ call[p].i = 0
  BY <1>3, <1>4 DEF Ctl, NoCall
<1>7. new[p].user = {}
  <2>1. call[p].op = "none"
    BY <1>3 DEF NoCall
  <2>2. new[p] = NoVm
    BY <2>1, CtlAt, Zenon DEF Phase
  <2>. QED  BY <2>2, NoVmUser
<1>8. Phases' /\ Guarded'
  <2>1. KeepsChildren
    BY <1>1, <1>6, ChildrenKept, Zenon
  <2>2. \A q \in Slots : q # p => Same(q)
    BY <1>1, <1>6, Zenon DEF Same
  <2>3. Phase(p)'
    BY <1>1, <1>3, <1>6, CtlAt DEF Phase
  <2>4. GuardOf(p)'
    <3>1. new'[p].user = {} /\ state'[p] = state[p] /\ vm'[p] = vm[p] /\ ~(0 > Guard)
      BY <1>1, <1>6, <1>7, Sizes
    <3>. QED  BY <3>1, <1>6, CtlAt, Zenon DEF GuardOf
  <2>5. Steady({p})
    BY <2>2, <2>3, <2>4 DEF Steady
  <2>. QED  BY <2>1, <2>5, SlotsKept
<1>. QED  BY <1>1, <1>2, <1>5, <1>8 DEF Ctl

\* exit keeps the memory of the process for wait.
LEMMA ExitInv ==
  ASSUME Mem, Ctl, NEW p \in Slots, exit(p)
  PROVE  Mem' /\ Ctl'
<1>1. UNCHANGED <<free, fill, kstack, vm, new, lost>> /\ UNCHANGED <<sz, call, new, vm, kstack>>
  BY Zenon DEF exit
<1>2. Mem'
  BY <1>1, SameMem, Zenon
<1>3. call[p].op = "none" /\ state[p] = "ALIVE" /\ state' = [state EXCEPT ![p] = "ZOMBIE"]
  BY Zenon DEF exit, Running
<1>4. \A q \in Slots : q # p => state'[q] = state[q]
  BY <1>3, Zenon DEF Ctl
<1>5. state'[p] = "ZOMBIE" /\ state' \in [Slots -> {"UNUSED", "EMBRYO", "ALIVE", "ZOMBIE"}]
  BY <1>3, Zenon DEF Ctl
<1>7. Phases' /\ Guarded'
  <2>1. KeepsChildren
    BY <1>1, <1>3, <1>4, ChildrenKept, Zenon
  <2>2. \A q \in Slots : q # p => Same(q)
    BY <1>1, <1>4, Zenon DEF Same
  <2>3. Phase(p)'
    BY <1>1, <1>3, <1>5, CtlAt DEF Phase
  <2>4. GuardOf(p)'
    BY <1>1, <1>3, <1>5, CtlAt DEF GuardOf
  <2>5. Steady({p})
    BY <2>2, <2>3, <2>4 DEF Steady
  <2>. QED  BY <2>1, <2>5, SlotsKept
<1>. QED  BY <1>1, <1>2, <1>5, <1>7 DEF Ctl

\* A page fault maps a page that was not there.
LEMMA PgfaultInv ==
  ASSUME VTypes, Mem, Ctl, NEW p \in Slots, NEW a \in Pages, pgfault(p, a)
  PROVE  Mem' /\ Ctl'
<1>1. Faults(p, a) /\ state[p] = "ALIVE"
  BY Zenon DEF pgfault, Faults, Running
<1>2. Mem'
  BY <1>1, FaultsMem, Zenon
<1>3. UNCHANGED <<state, sz, call, new, kstack>>
  BY Zenon DEF pgfault
<1>4. vm' = [vm EXCEPT ![p] = MapPage(vm[p], a, TRUE)] /\ vm[p].pte[a] = None /\ vm[p] \in Space
  BY Zenon DEF pgfault, Mem
<1>5. \A q \in Slots : q # p => vm'[q] = vm[q]
  BY <1>4, Zenon DEF Mem
<1>6. vm'[p] = MapPage(vm[p], a, TRUE)
  BY <1>4, Zenon DEF Mem
<1>7. vm'[p].dir = vm[p].dir /\ call[p] = NoCall /\ NoCall.op = "none"
  <2>1. vm'[p].dir = vm[p].dir
    BY <1>6 DEF MapPage
  <2>. QED  BY <2>1, CtlAt, Zenon DEF pgfault, Running, Phase, NoCall
<1>10. Phases' /\ Guarded'
  <2>1. KeepsChildren
    BY <1>3, ChildrenKept, Zenon
  <2>2. \A q \in Slots : q # p => Same(q)
    BY <1>3, <1>5, Zenon DEF Same
  <2>3. Phase(p)'
    BY <1>1, <1>3, CtlAt, Zenon DEF Phase
  <2>4. GuardOf(p)'
    BY <1>3, <1>7, CtlAt, Zenon DEF GuardOf
  <2>5. Steady({p})
    BY <2>2, <2>3, <2>4 DEF Steady
  <2>. QED  BY <2>1, <2>5, SlotsKept
<1>. QED  BY <1>2, <1>3, <1>10 DEF Ctl

\* fork begins: a slot with a kernel stack and nothing else.
LEMMA AllocprocInv ==
  ASSUME Mem, Ctl, NEW p \in Slots, NEW c \in Slots, allocproc(p, c)
  PROVE  Mem' /\ Ctl'
<1>1. /\ state[p] = "ALIVE" /\ call[p] = NoCall /\ state[c] = "UNUSED" /\ free # {}
      /\ kstack[c] = None /\ new[p] = NoVm
  BY Zenon DEF allocproc, Running, Ctl, Phases, Phase, Child
<1>2. /\ kstack' = [kstack EXCEPT ![c] = First] /\ free' = free \ {First}
      /\ fill' = [fill EXCEPT ![First] = "table"]
      /\ state' = [state EXCEPT ![c] = "EMBRYO"]
      /\ call' = [call EXCEPT ![p] = [op |-> "fork", child |-> c, i |-> 0]]
      /\ UNCHANGED <<vm, new, lost>> /\ UNCHANGED <<vm, sz, new>>
  BY DEF allocproc, First
<1>3. Mem'
  BY <1>1, <1>2, StackMem, Zenon
<1>4. /\ state' \in [Slots -> {"UNUSED", "EMBRYO", "ALIVE", "ZOMBIE"}]
      /\ call' \in [Slots -> Calls]
  BY <1>2, Sizes DEF Ctl, Calls
<1>5. First # None
  BY <1>1, OneFree, Sizes, Zenon DEF Mem
<1>6. \A q \in Slots : /\ q # c => state'[q] = state[q] /\ kstack'[q] = kstack[q]
                       /\ q # p => call'[q] = call[q]
                       /\ state'[c] = "EMBRYO" /\ kstack'[c] # None
                       /\ call'[p].op = "fork" /\ call'[p].child = c /\ call'[p].i = 0
                       /\ call[p].op = "none" /\ call[p].i = 0
  BY <1>1, <1>2, <1>5 DEF Ctl, Mem, NoCall
<1>7. c # p
  BY <1>1, Zenon
<1>8. \A q \in Slots : Phase(q)' /\ GuardOf(q)'
  <2>1. \A q \in Slots : q # p /\ q # c => Same(q)
    BY <1>2, <1>6, Zenon DEF Same
  <2>2. Phase(p)' /\ GuardOf(p)'
    <3>1. /\ state'[p] = state[p] /\ kstack'[p] = kstack[p] /\ vm'[p] = vm[p] /\ sz'[p] = sz[p]
          /\ new'[p] = NoVm /\ call'[p].op = "fork" /\ call'[p].i = 0
      BY <1>1, <1>2, <1>6, <1>7, Zenon
    <3>2. Phase(p) /\ GuardOf(p) /\ new[p] = NoVm /\ call[p].i = 0 /\ NoVm.user = {}
      BY <1>1, <1>6, CtlAt, Zenon DEF NoVm
    <3>3. Phase(p)'
      BY <1>1, <3>1, <3>2, Zenon DEF Phase
    <3>. QED  BY <3>1, <3>2, <3>3 DEF GuardOf
  <2>3. Phase(c)' /\ GuardOf(c)'
    <3>1. /\ state'[c] = "EMBRYO" /\ kstack'[c] # None /\ vm'[c] = vm[c]
          /\ new'[c] = new[c] /\ call'[c] = call[c]
      BY <1>1, <1>2, <1>6, <1>7, Zenon
    <3>2. Phase(c) /\ GuardOf(c) /\ state[c] = "UNUSED"
      BY <1>1, CtlAt, Zenon
    <3>3. Phase(c)'
      BY <3>1, <3>2, Zenon DEF Phase
    <3>. QED  BY <3>1, <3>2, <3>3 DEF GuardOf
  <2>. QED  BY <2>1, <2>2, <2>3, SameSlot
<1>9. \A q \in Slots : q # p => call'[q] = call[q] /\ (call[q].op = "fork" => call[q].child # c)
  BY <1>1, <1>6, CtlAt, Zenon DEF Child
<1>10. ASSUME NEW q \in Slots PROVE Child(q)'
  <2>1. CASE q = p
    BY <2>1, <1>6, Zenon DEF Child
  <2>2. CASE q # p
    BY <2>2, <1>6, <1>9, CtlAt DEF Child
  <2>. QED  BY <2>1, <2>2
<1>11. OneParent'
  BY <1>6, <1>9 DEF Ctl, Phases, OneParent
<1>12. Phases' /\ Guarded'
  BY <1>8, <1>10, <1>11 DEF Phases, Guarded
<1>. QED  BY <1>2, <1>3, <1>4, <1>12 DEF Ctl
\* The directory is begun.
LEMMA StartVmInv ==
  ASSUME VTypes, Mem, Ctl, NEW p \in Slots, StartVm(p)
  PROVE  Mem' /\ Ctl'
<1>1. new[p] = NoVm /\ call[p].i = 0 /\ call[p].op # "none"
  BY Zenon DEF StartVm, Ctl, Phases, Phase, Child
<1>2. Mem'
  BY <1>1, StartMem, Zenon
<1>3. new' = [new EXCEPT ![p] = setupkvm] /\ UNCHANGED <<state, kstack, vm, sz, call>>
  BY Zenon DEF StartVm
<1>4. setupkvm.dir # None
  BY SetupSpace, TwoFree, Sizes, Zenon DEF StartVm, VTypes
<1>5. setupkvm.user = {} /\ \A a \in Pages : setupkvm.pte[a] = None
  BY Zenon DEF setupkvm, NoVm
<1>6. new'[p] = setupkvm /\ \A q \in Slots : q # p => new'[q] = new[q]
  BY <1>3, Zenon DEF Mem
<1>9. ~(0 > Guard)
  BY Sizes DEF Pages
<1>8. Phases' /\ Guarded'
  <2>1. KeepsChildren
    BY <1>3, ChildrenKept, Zenon
  <2>2. \A q \in Slots : q # p => Same(q)
    BY <1>3, <1>6, Zenon DEF Same
  <2>3. Phase(p)'
    BY <1>1, <1>3, <1>4, <1>5, <1>6, CtlAt, Zenon DEF Phase
  <2>4. GuardOf(p)'
    BY <1>1, <1>3, <1>5, <1>6, <1>9, CtlAt, Zenon DEF GuardOf
  <2>5. Steady({p})
    BY <2>2, <2>3, <2>4 DEF Steady
  <2>. QED  BY <2>1, <2>5, SlotsKept
<1>. QED  BY <1>2, <1>3, <1>8 DEF Ctl

\* A turn of the loop of copyuvm or allocuvm; the guard page is mapped without
\* PTE_U.
LEMMA LoopInv ==
  ASSUME VTypes, Mem, Ctl, NEW p \in Slots, NEW a \in UserPages, NEW u \in BOOLEAN,
         NEW with \in {"zero", "data"},
         call[p].op # "none", new[p].dir # None, a = call[p].i, CanMap(new[p], a),
         u /\ a = Guard => call[p].op = "fork" /\ Guard \in vm[p].user,
         new' = [new EXCEPT ![p] = MapPage(@, a, u)], TakeFor(new[p], a, with),
         call' = [call EXCEPT ![p].i = a + 1], UNCHANGED <<state, kstack, vm, sz, lost, panicked>>
  PROVE  Mem' /\ Ctl'
<1>14. a \in Pages
  BY Sizes, Zenon
<1>1. new[p].pte[a] = None
  BY <1>14, Sizes DEF Ctl, Phases, Phase, Child
<1>2. UNCHANGED <<kstack, vm, lost>> /\ UNCHANGED <<state, kstack, vm, sz>>
  BY Zenon
<1>3. Builds(p, a, u, with)
  BY <1>1, <1>2, Zenon DEF Builds
<1>4. Mem'
  BY <1>3, <1>14, BuildsMem, Zenon
<1>5. /\ call'[p].op = call[p].op /\ call'[p].child = call[p].child /\ call'[p].i = a + 1
      /\ call' \in [Slots -> Calls] /\ \A q \in Slots : q # p => call'[q] = call[q]
  <2>1. a + 1 \in 0 .. NPAGES
    BY Sizes DEF UserPages
  <2>2. \A r \in Calls : [r EXCEPT !.i = a + 1] = [op |-> r.op, child |-> r.child, i |-> a + 1]
    BY DEF Calls
  <2>3. call[p] \in Calls
    BY Zenon DEF Ctl
  <2>4. call' = [call EXCEPT ![p] = [op |-> call[p].op, child |-> call[p].child, i |-> a + 1]]
    BY <2>2, <2>3, Zenon DEF Ctl
  <2>5. [op |-> call[p].op, child |-> call[p].child, i |-> a + 1] \in Calls
    BY <2>1, <2>3, Zenon DEF Calls
  <2>6. call' \in [Slots -> Calls] /\ \A q \in Slots : q # p => call'[q] = call[q]
    BY <2>4, <2>5, Zenon DEF Ctl
  <2>7. call'[p] = [op |-> call[p].op, child |-> call[p].child, i |-> a + 1]
    BY <2>4, Zenon DEF Ctl
  <2>. QED  BY <2>6, <2>7
<1>6. new'[p] = MapPage(new[p], a, u) /\ \A q \in Slots : q # p => new'[q] = new[q]
  BY Zenon DEF Mem
<1>7. /\ new'[p].pte = [new[p].pte EXCEPT ![a] = First] /\ new'[p].dir = new[p].dir
      /\ new'[p].user = IF u THEN new[p].user \cup {a} ELSE new[p].user
      /\ new[p].pte \in [Pages -> Frame0]
  BY <1>6, Zenon DEF MapPage, First, Mem, Space
<1>8. First # None
  BY <1>14, CanMapFree, Sizes DEF Mem
<1>9. \A b \in Pages : b >= a + 1 => new'[p].pte[b] = None
  BY <1>7, <1>14, Sizes DEF Ctl, Phases, Phase, Child
<1>11. /\ call'[p].op = "exec" => Guard \notin new'[p].user
       /\ call'[p].op = "fork" /\ Guard \in new'[p].user => Guard \in vm'[p].user
  BY <1>2, <1>5, <1>7, CtlAt DEF GuardOf
<1>12. a + 1 > Guard => new'[p].pte[Guard] # None
  <2>1. CASE a = Guard
    BY <2>1, <1>7, <1>8, <1>14
  <2>2. CASE a # Guard /\ a + 1 > Guard
    <3>1. a > Guard
      BY <2>2, Sizes
    <3>. QED  BY <3>1, <1>7, Sizes DEF Ctl, Guarded, GuardOf
  <2>. QED  BY <2>1, <2>2
<1>13. Phases' /\ Guarded'
  <2>1. KeepsChildren
    BY <1>2, <1>5, ChildrenKept, Zenon
  <2>2. \A q \in Slots : q # p => Same(q)
    BY <1>2, <1>5, <1>6, Zenon DEF Same
  <2>3. Phase(p)'
    BY <1>2, <1>5, <1>6, <1>7, <1>9, CtlAt DEF Phase
  <2>4. GuardOf(p)'
    BY <1>2, <1>5, <1>6, <1>11, <1>12, CtlAt DEF GuardOf
  <2>5. Steady({p})
    BY <2>2, <2>3, <2>4 DEF Steady
  <2>. QED  BY <2>1, <2>5, SlotsKept
<1>. QED  BY <1>2, <1>4, <1>5, <1>13 DEF Ctl

\* copyuvm copies what the parent sees, which is clean.
LEMMA CopyuvmInv ==
  ASSUME VTypes, Mem, Ctl, NEW p \in Slots, copyuvm(p)
  PROVE  Mem' /\ Ctl'
<1>. DEFINE a == call[p].i
<1>1. call[p].op = "fork" /\ new[p].dir # None /\ a < sz[p] /\ state[p] = "ALIVE"
  BY Zenon DEF copyuvm, Ctl, Phases, Phase, Child
<1>3. CASE ~(a \in UserPages /\ vm[p].pte[a] # None)
  BY <1>3, PanicInv, Zenon DEF copyuvm
<1>4. CASE a \in UserPages /\ vm[p].pte[a] # None
  <2>1. fill[vm[p].pte[a]] \in {"zero", "data"}
    <3>1. a \in Pages
      BY <1>4, Sizes, Zenon
    <3>. QED  BY <1>4, <3>1, Zenon DEF Mem, AllClean, Clean
  <2>2. (a \in vm[p].user) /\ a = Guard => call[p].op = "fork" /\ Guard \in vm[p].user
    BY <1>1, Zenon
  <2>3. (a \in vm[p].user) \in BOOLEAN
    OBVIOUS
  <2>4. /\ CanMap(new[p], a)
        /\ new' = [new EXCEPT ![p] = MapPage(@, a, a \in vm[p].user)]
        /\ TakeFor(new[p], a, fill[vm[p].pte[a]])
        /\ call' = [call EXCEPT ![p].i = a + 1]
        /\ UNCHANGED <<state, kstack, vm, sz, lost, panicked>>
    BY <1>4 DEF copyuvm
  <2>. HIDE DEF a
  <2>. QED  BY <1>1, <1>4, <2>1, <2>2, <2>3, <2>4, LoopInv, Zenon DEF a
<1>. QED  BY <1>3, <1>4

\* allocuvm and loaduvm write every page they map.
LEMMA AllocuvmInv ==
  ASSUME VTypes, Mem, Ctl, NEW p \in Slots, allocuvm(p)
  PROVE  Mem' /\ Ctl'
<1>. DEFINE a == call[p].i
<1>1. call[p].op = "exec" /\ new[p].dir # None /\ a < ProgSize
  BY Zenon DEF allocuvm
<1>2. a \in UserPages
  BY <1>1, CallOf, Sizes DEF UserPages
<1>3. loaduvm(a) \in {"zero", "data"} /\ clearpteu(a) \in BOOLEAN /\ ~(clearpteu(a) /\ a = Guard)
  BY Zenon DEF loaduvm, clearpteu
<1>4. /\ CanMap(new[p], a)
      /\ new' = [new EXCEPT ![p] = MapPage(@, a, clearpteu(a))]
      /\ TakeFor(new[p], a, loaduvm(a))
      /\ call' = [call EXCEPT ![p].i = a + 1]
      /\ UNCHANGED <<state, kstack, vm, sz, lost, panicked>>
  BY DEF allocuvm
<1>. QED  BY <1>1, <1>2, <1>3, <1>4, LoopInv, Zenon

\* fork hands the directory to the child, which becomes a process.
LEMMA ForkInv ==
  ASSUME Mem, Ctl, NEW p \in Slots, fork(p)
  PROVE  Mem' /\ Ctl'
<1>. DEFINE c == call[p].child
<1>1. /\ call[p].op = "fork" /\ c \in Slots /\ state[c] = "EMBRYO" /\ state[p] = "ALIVE"
      /\ vm[c] = NoVm /\ new[p].dir # None
  BY Zenon DEF fork, Ctl, Phases, Phase, Child
<1>3. /\ vm' = [vm EXCEPT ![c] = new[p]] /\ sz' = [sz EXCEPT ![c] = sz[p]]
      /\ state' = [state EXCEPT ![c] = "ALIVE"] /\ new' = [new EXCEPT ![p] = NoVm]
      /\ call' = [call EXCEPT ![p] = NoCall] /\ free' = free /\ fill' = fill /\ kstack' = kstack
      /\ lost' = lost
  BY Zenon DEF fork
<1>. HIDE DEF c
<1>4. Moves(p, c)
  <2>1. Freed(vm[c]) \cup {} = {} /\ Left(vm[c]) = {}
    BY <1>1, NoVmFreed, Zenon
  <2>2. kfree({})
    BY <1>3, Zenon DEF kfree, Junk, Mem
  <2>3. freevm(vm[c], {})
    BY <1>3, <2>1, <2>2, Zenon DEF freevm
  <2>. QED  BY <2>3, <1>3 DEF Moves
<1>5. Mem'
  BY <1>1, <1>4, MovesMem, Zenon
<1>6. /\ state' \in [Slots -> {"UNUSED", "EMBRYO", "ALIVE", "ZOMBIE"}]
      /\ sz' \in [Slots -> 0 .. TOP - 1]
  BY <1>1, <1>3, Zenon DEF Ctl
<1>7. call' \in [Slots -> Calls]
  BY <1>3, Sizes DEF Ctl, Calls, NoCall
<1>8. /\ \A q \in Slots : /\ q # c => state'[q] = state[q] /\ vm'[q] = vm[q] /\ sz'[q] = sz[q]
                          /\ q # p => call'[q] = call[q] /\ new'[q] = new[q]
      /\ state'[c] = "ALIVE" /\ vm'[c] = new[p] /\ sz'[c] = sz[p]
      /\ call'[p] = NoCall /\ new'[p] = NoVm
  BY <1>1, <1>3, Zenon DEF Ctl, Mem
<1>9. NoCall.op = "none" /\ NoCall.i = 0 /\ NoVm.user = {} /\ \A a \in Pages : NoVm.pte[a] = None
  BY Zenon DEF NoCall, NoVm
<1>10. call[p].child = c
  BY Zenon DEF c
<1>14. ~(0 > Guard)
  BY Sizes
<1>16. c # p /\ call'[c] = call[c] /\ new'[c] = new[c] /\ call[c].op = "none"
  BY <1>1, <1>8, CtlAt, Zenon DEF Phase
<1>15. Phases' /\ Guarded'
  <2>1. KeepsChildren
    <3>1. SUFFICES ASSUME NEW q \in Slots, call'[q].op = "fork"
                   PROVE  call[q].op = "fork" /\ call'[q].child = call[q].child
                          /\ state'[call[q].child] = "EMBRYO"
      BY Zenon DEF KeepsChildren
    <3>2. q # p /\ call'[q] = call[q]
      BY <3>1, <1>8, <1>9, Zenon
    <3>3. call[q].child # c
      BY <3>1, <3>2, <1>1, <1>10, Zenon DEF Ctl, Phases, OneParent
    <3>4. call[q].child \in Slots /\ state[call[q].child] = "EMBRYO"
      BY <3>1, <3>2, CtlAt, Zenon DEF Child
    <3>. QED  BY <3>1, <3>2, <3>3, <3>4, <1>8
  <2>2. \A q \in Slots : q # p /\ q # c => Same(q)
    BY <1>3, <1>8, Zenon DEF Same
  <2>3. Phase(p)'
    BY <1>1, <1>3, <1>8, <1>9, CtlAt DEF Phase
  <2>4. GuardOf(p)'
    BY <1>1, <1>3, <1>8, <1>9, <1>14, CtlAt DEF GuardOf
  <2>5. \A q \in Slots : q = c => Phase(q)'
    <3>1. Phase(c)
      BY <1>1, CtlAt, Zenon
    <3>2. kstack'[c] = kstack[c] /\ kstack[c] # None
      BY <1>1, <1>3, <3>1, Zenon DEF Phase
    <3>3. state'[c] = "ALIVE"
      BY <1>8, Zenon
    <3>4. /\ call'[c].op # "none" => state'[c] = "ALIVE"
          /\ state'[c] \notin {"UNUSED", "EMBRYO"}
          /\ kstack'[c] = None <=> state'[c] = "UNUSED"
      BY <3>2, <3>3
    <3>. QED  BY <1>16, <3>1, <3>4, Zenon DEF Phase
  <2>6. \A q \in Slots : q = c => GuardOf(q)'
    <3>1. vm'[c].dir # None
      BY <1>1, <1>8, Zenon
    <3>2. GuardOf(c)
      BY <1>1, CtlAt, Zenon
    <3>. QED  BY <1>16, <3>1, <3>2 DEF GuardOf
  <2>7. Steady({p, c})
    BY <1>1, <2>2, <2>3, <2>4, <2>5, <2>6 DEF Steady
  <2>. QED  BY <2>1, <2>7, SlotsKept
<1>. QED  BY <1>5, <1>6, <1>7, <1>15 DEF Ctl

\* exec commits: the new directory replaces the old one, which is freed.
LEMMA ExecInv ==
  ASSUME Mem, Ctl, NEW p \in Slots, exec(p)
  PROVE  Mem' /\ Ctl'
<1>1. call[p].op = "exec" /\ call[p].i = ProgSize /\ state[p] = "ALIVE"
  BY Zenon DEF exec, Ctl, Phases, Phase, Child
<1>2. /\ vm' = [vm EXCEPT ![p] = new[p]] /\ sz' = [sz EXCEPT ![p] = ProgSize]
      /\ freevm(vm[p], {}) /\ new' = [new EXCEPT ![p] = NoVm]
      /\ call' = [call EXCEPT ![p] = NoCall] /\ state' = state /\ kstack' = kstack
  BY Zenon DEF exec
<1>3. Mem'
  BY <1>2, MovesMem, Zenon DEF Moves
<1>4. sz' \in [Slots -> 0 .. TOP - 1]
  BY <1>2, Sizes DEF Ctl
<1>5. call' \in [Slots -> Calls]
  BY <1>2, Sizes DEF Ctl, Calls, NoCall
<1>6. /\ \A q \in Slots : q # p => /\ vm'[q] = vm[q] /\ sz'[q] = sz[q]
                                   /\ call'[q] = call[q] /\ new'[q] = new[q]
      /\ vm'[p] = new[p] /\ sz'[p] = ProgSize /\ call'[p] = NoCall /\ new'[p] = NoVm
  BY <1>2, Zenon DEF Ctl, Mem
<1>7. NoCall.op = "none" /\ NoCall.i = 0 /\ NoVm.user = {} /\ \A a \in Pages : NoVm.pte[a] = None
  BY Zenon DEF NoCall, NoVm
<1>9. new[p].dir # None
  <2>1. ProgSize # 0
    BY Sizes
  <2>. QED  BY <2>1, <1>1, CtlAt, Zenon DEF Phase
<1>10. ~(0 > Guard)
  BY Sizes
<1>11. Phases' /\ Guarded'
  <2>1. KeepsChildren
    BY <1>2, <1>6, <1>7, ChildrenKept, Zenon
  <2>2. \A q \in Slots : q # p => Same(q)
    BY <1>2, <1>6, Zenon DEF Same
  <2>3. Phase(p)'
    BY <1>1, <1>2, <1>6, <1>7, CtlAt DEF Phase
  <2>4. GuardOf(p)'
    BY <1>1, <1>2, <1>6, <1>7, <1>9, <1>10, Zenon DEF GuardOf
  <2>5. Steady({p})
    BY <2>2, <2>3, <2>4 DEF Steady
  <2>. QED  BY <2>1, <2>5, SlotsKept
<1>. QED  BY <1>2, <1>3, <1>4, <1>5, <1>11 DEF Ctl

\* A failed exec gives back what it built.
LEMMA ExecFailsInv ==
  ASSUME Mem, Ctl, NEW p \in Slots, execFails(p)
  PROVE  Mem' /\ Ctl'
<1>1. call[p].op = "exec" /\ state[p] = "ALIVE"
  BY Zenon DEF execFails, Ctl, Phases, Phase, Child
<1>2. /\ freevm(new[p], {}) /\ new' = [new EXCEPT ![p] = NoVm]
      /\ call' = [call EXCEPT ![p] = NoCall]
      /\ state' = state /\ kstack' = kstack /\ vm' = vm /\ sz' = sz
  BY Zenon DEF execFails
<1>3. Mem'
  <2>. DEFINE o == <<p, "new">>
  <2>1. o \in Owners /\ Owned(o) = FramesOf(new[p]) /\ {o} \in SUBSET Owners
    BY DEF Owners, Owned
  <2>2. UNION {Owned(r) : r \in {o}} = FramesOf(new[p])
    BY <2>1, Zenon
  <2>5. /\ Freed(new[p]) \cup {} = FramesOf(new[p]) \ Left(new[p])
        /\ Left(new[p]) \subseteq FramesOf(new[p])
    <3>1. new[p] \in Space /\ Distinct(new[p])
      BY Zenon DEF Mem, FramesOwnedOnce
    <3>. QED  BY <3>1, FreedNotLeft, Zenon
  <2>3. \A q \in Slots : /\ <<q, "kstack">> \notin {o} /\ <<q, "vm">> \notin {o}
                         /\ <<q, "new">> \in {o} <=> q = p
    BY Zenon
  <2>. HIDE DEF o
  <2>4. Drops({o}, Left(new[p]))
    <3>1. kfree(FramesOf(new[p]) \ Left(new[p])) /\ lost' = lost \cup Left(new[p])
      BY <1>2, <2>5, Zenon DEF freevm
    <3>. QED  BY <1>2, <2>2, <2>3, <2>5, <3>1, Zenon DEF Drops, Mem
  <2>. QED  BY <2>1, <2>4, DropsMem
<1>4. call' \in [Slots -> Calls]
  BY <1>2, Sizes DEF Ctl, Calls, NoCall
<1>5. /\ \A q \in Slots : q # p => call'[q] = call[q] /\ new'[q] = new[q]
      /\ call'[p] = NoCall /\ new'[p] = NoVm
  BY <1>2, Zenon DEF Ctl, Mem
<1>6. NoCall.op = "none" /\ NoCall.i = 0 /\ NoVm.user = {} /\ \A a \in Pages : NoVm.pte[a] = None
  BY Zenon DEF NoCall, NoVm
<1>8. ~(0 > Guard)
  BY Sizes
<1>9. Phases' /\ Guarded'
  <2>1. KeepsChildren
    BY <1>2, <1>5, <1>6, ChildrenKept, Zenon
  <2>2. \A q \in Slots : q # p => Same(q)
    BY <1>2, <1>5, Zenon DEF Same
  <2>3. Phase(p)'
    BY <1>1, <1>2, <1>5, <1>6, CtlAt, Zenon DEF Phase
  <2>4. GuardOf(p)'
    BY <1>1, <1>2, <1>5, <1>6, <1>8, CtlAt, Zenon DEF GuardOf
  <2>5. Steady({p})
    BY <2>2, <2>3, <2>4 DEF Steady
  <2>. QED  BY <2>1, <2>5, SlotsKept
<1>. QED  BY <1>2, <1>3, <1>4, <1>9 DEF Ctl

\* A failed fork gives back what it built, the child's stack and its slot.
LEMMA ForkFailsInv ==
  ASSUME Mem, Ctl, NEW p \in Slots, forkFails(p)
  PROVE  Mem' /\ Ctl'
<1>. DEFINE c == call[p].child
<1>1. /\ call[p].op = "fork" /\ state[p] = "ALIVE" /\ c \in Slots /\ state[c] = "EMBRYO"
      /\ vm[c] = NoVm /\ kstack[c] # None
  BY Zenon DEF forkFails, Ctl, Phases, Phase, Child
<1>2. /\ freevm(new[p], {kstack[c]}) /\ kstack' = [kstack EXCEPT ![c] = None]
      /\ state' = [state EXCEPT ![c] = "UNUSED"] /\ new' = [new EXCEPT ![p] = NoVm]
      /\ call' = [call EXCEPT ![p] = NoCall] /\ vm' = vm /\ sz' = sz
  BY Zenon DEF forkFails
<1>. HIDE DEF c
<1>3. Mem'
  <2>. DEFINE o == <<p, "new">>
              r == <<c, "kstack">>
  <2>1. /\ o \in Owners /\ Owned(o) = FramesOf(new[p])
        /\ r \in Owners /\ Owned(r) = {kstack[c]} \ {None} /\ {o, r} \in SUBSET Owners
    BY <1>1 DEF Owners, Owned
  <2>2. UNION {Owned(s) : s \in {o, r}} = FramesOf(new[p]) \cup {kstack[c]}
    BY <2>1, <1>1, Zenon
  <2>5. /\ Freed(new[p]) \cup {kstack[c]} = (FramesOf(new[p]) \cup {kstack[c]}) \ Left(new[p])
        /\ Left(new[p]) \subseteq FramesOf(new[p]) \cup {kstack[c]}
    <3>1. Owned(o) \cap Owned(r) = {}
      BY <2>1, OwnerEq, MemShared, Zenon DEF Shared
    <3>2. kstack[c] \notin FramesOf(new[p])
      BY <3>1, <2>1, <1>1, Zenon
    <3>. QED  BY <3>2, StackApart, Zenon DEF Mem, FramesOwnedOnce
  <2>3. \A q \in Slots : /\ <<q, "vm">> \notin {o, r}
                         /\ <<q, "kstack">> \in {o, r} <=> q = c
                         /\ <<q, "new">> \in {o, r} <=> q = p
    BY <1>1, Zenon
  <2>. HIDE DEF o, r
  <2>4. Drops({o, r}, Left(new[p]))
    <3>1. kfree((FramesOf(new[p]) \cup {kstack[c]}) \ Left(new[p])) /\ lost' = lost \cup Left(new[p])
      BY <1>2, <2>5, Zenon DEF freevm
    <3>. QED  BY <1>2, <2>2, <2>3, <2>5, <3>1, Zenon DEF Drops, Mem
  <2>. QED  BY <2>1, <2>4, DropsMem
<1>4. call' \in [Slots -> Calls] /\ state' \in [Slots -> {"UNUSED", "EMBRYO", "ALIVE", "ZOMBIE"}]
  <2>1. call' \in [Slots -> Calls]
    BY <1>2, Sizes DEF Ctl, Calls, NoCall
  <2>2. state' \in [Slots -> {"UNUSED", "EMBRYO", "ALIVE", "ZOMBIE"}]
    BY <1>2, Zenon DEF Ctl
  <2>. QED  BY <2>1, <2>2
<1>5. /\ \A q \in Slots : /\ q # p => call'[q] = call[q] /\ new'[q] = new[q]
                          /\ q # c => state'[q] = state[q] /\ kstack'[q] = kstack[q]
      /\ call'[p] = NoCall /\ new'[p] = NoVm /\ state'[c] = "UNUSED" /\ kstack'[c] = None
  BY <1>1, <1>2, Zenon DEF Ctl, Mem
<1>6. NoCall.op = "none" /\ NoCall.i = 0 /\ NoVm.user = {} /\ \A a \in Pages : NoVm.pte[a] = None
  BY Zenon DEF NoCall, NoVm
<1>7. call[p].child = c
  BY Zenon DEF c
<1>9. ~(0 > Guard)
  BY Sizes
<1>11. c # p /\ call'[c] = call[c] /\ new'[c] = new[c] /\ call[c].op = "none"
  BY <1>1, <1>5, CtlAt, Zenon DEF Phase
<1>10. Phases' /\ Guarded'
  <2>1. KeepsChildren
    <3>1. SUFFICES ASSUME NEW q \in Slots, call'[q].op = "fork"
                   PROVE  call[q].op = "fork" /\ call'[q].child = call[q].child
                          /\ state'[call[q].child] = "EMBRYO"
      BY Zenon DEF KeepsChildren
    <3>2. q # p /\ call'[q] = call[q]
      BY <3>1, <1>5, <1>6, Zenon
    <3>3. call[q].child # c
      BY <3>1, <3>2, <1>1, <1>7, Zenon DEF Ctl, Phases, OneParent
    <3>4. call[q].child \in Slots /\ state[call[q].child] = "EMBRYO"
      BY <3>1, <3>2, CtlAt, Zenon DEF Child
    <3>. QED  BY <3>1, <3>2, <3>3, <3>4, <1>5
  <2>2. \A q \in Slots : q # p /\ q # c => Same(q)
    BY <1>2, <1>5, Zenon DEF Same
  <2>3. Phase(p)'
    <3>1. state'[p] = "ALIVE" /\ kstack'[p] # None
      BY <1>1, <1>5, <1>11, CtlAt, Zenon DEF Phase
    <3>. QED  BY <1>5, <1>6, <3>1 DEF Phase
  <2>4. GuardOf(p)'
    <3>1. GuardOf(p) /\ state[p] = "ALIVE"
      BY <1>1, CtlAt, Zenon
    <3>. QED  BY <1>2, <1>5, <1>6, <1>9, <3>1 DEF GuardOf
  <2>5. \A q \in Slots : q = c => Phase(q)'
    <3>1. Phase(c) /\ vm'[c] = NoVm
      BY <1>1, <1>2, CtlAt, Zenon
    <3>. QED  BY <1>5, <1>11, <3>1 DEF Phase
  <2>6. \A q \in Slots : q = c => GuardOf(q)'
    <3>1. GuardOf(c)
      BY <1>1, CtlAt, Zenon
    <3>. QED  BY <1>5, <1>11, <3>1 DEF GuardOf
  <2>7. Steady({p, c})
    BY <1>1, <2>2, <2>3, <2>4, <2>5, <2>6 DEF Steady
  <2>. QED  BY <2>1, <2>7, SlotsKept
<1>. QED  BY <1>2, <1>3, <1>4, <1>10 DEF Ctl

\* wait frees all the memory of a zombie.
LEMMA WaitInv ==
  ASSUME Mem, Ctl, NEW p \in Slots, wait(p)
  PROVE  Mem' /\ Ctl'
<1>1. state[p] = "ZOMBIE" /\ kstack[p] # None /\ call[p].op = "none"
  BY Zenon DEF wait, Ctl, Phases, Phase, Child
<1>2. /\ freevm(vm[p], {kstack[p]}) /\ kstack' = [kstack EXCEPT ![p] = None]
      /\ vm' = [vm EXCEPT ![p] = NoVm] /\ sz' = [sz EXCEPT ![p] = 0]
      /\ state' = [state EXCEPT ![p] = "UNUSED"] /\ call' = call /\ new' = new
  BY Zenon DEF wait
<1>3. Mem'
  <2>. DEFINE o == <<p, "vm">>
              r == <<p, "kstack">>
  <2>1. /\ o \in Owners /\ Owned(o) = FramesOf(vm[p])
        /\ r \in Owners /\ Owned(r) = {kstack[p]} \ {None} /\ {o, r} \in SUBSET Owners
    BY DEF Owners, Owned
  <2>2. UNION {Owned(s) : s \in {o, r}} = FramesOf(vm[p]) \cup {kstack[p]}
    BY <2>1, <1>1, Zenon
  <2>5. /\ Freed(vm[p]) \cup {kstack[p]} = (FramesOf(vm[p]) \cup {kstack[p]}) \ Left(vm[p])
        /\ Left(vm[p]) \subseteq FramesOf(vm[p]) \cup {kstack[p]}
    <3>1. Owned(o) \cap Owned(r) = {}
      BY <2>1, OwnerEq, MemShared, Zenon DEF Shared
    <3>2. kstack[p] \notin FramesOf(vm[p])
      BY <3>1, <2>1, <1>1, Zenon
    <3>. QED  BY <3>2, StackApart, Zenon DEF Mem, FramesOwnedOnce
  <2>3. \A q \in Slots : /\ <<q, "new">> \notin {o, r}
                         /\ <<q, "kstack">> \in {o, r} <=> q = p
                         /\ <<q, "vm">> \in {o, r} <=> q = p
    BY Zenon
  <2>. HIDE DEF o, r
  <2>4. Drops({o, r}, Left(vm[p]))
    <3>1. kfree((FramesOf(vm[p]) \cup {kstack[p]}) \ Left(vm[p])) /\ lost' = lost \cup Left(vm[p])
      BY <1>2, <2>5, Zenon DEF freevm
    <3>. QED  BY <1>2, <2>2, <2>3, <2>5, <3>1, Zenon DEF Drops, Mem
  <2>. QED  BY <2>1, <2>4, DropsMem
<1>4. /\ state' \in [Slots -> {"UNUSED", "EMBRYO", "ALIVE", "ZOMBIE"}]
      /\ sz' \in [Slots -> 0 .. TOP - 1]
  BY <1>2, Sizes DEF Ctl
<1>5. /\ \A q \in Slots : q # p => /\ state'[q] = state[q] /\ kstack'[q] = kstack[q]
                                   /\ vm'[q] = vm[q] /\ sz'[q] = sz[q]
      /\ state'[p] = "UNUSED" /\ kstack'[p] = None /\ vm'[p] = NoVm
  BY <1>2, Zenon DEF Ctl, Mem
<1>7. Phases' /\ Guarded'
  <2>1. KeepsChildren
    BY <1>1, <1>2, <1>5, ChildrenKept, Zenon
  <2>2. \A q \in Slots : q # p => Same(q)
    BY <1>2, <1>5, Zenon DEF Same
  <2>3. Phase(p)'
    BY <1>1, <1>2, <1>5, CtlAt, Zenon DEF Phase
  <2>4. GuardOf(p)'
    BY <1>1, <1>2, <1>5, CtlAt, Zenon DEF GuardOf
  <2>5. Steady({p})
    BY <2>2, <2>3, <2>4 DEF Steady
  <2>. QED  BY <2>1, <2>5, SlotsKept
<1>. QED  BY <1>2, <1>3, <1>4, <1>7 DEF Ctl

-----------------------------------------------------------------------------
\* The first process, and the theorems

\* Table numbers are natural numbers.
LEMMA TablesNat == Tables \subseteq Nat /\ ProgTabs \in Nat /\ ProgTabs > 0
<1>1. ASSUME NEW a \in Nat PROVE a \div NPTENTRIES \in Nat
  <2>1. NPTENTRIES \in Nat \ {0}
    BY SizeAssumption
  <2>. QED  BY <2>1
<1>2. ProgSize - 1 \in Nat
  BY SizeAssumption DEF ProgSize
<1>3. PDX(ProgSize - 1) \in Nat
  BY <1>1, <1>2, Zenon DEF PDX
<1>4. Tables \subseteq Nat
  BY <1>1, Sizes DEF Tables
<1>. QED  BY <1>3, <1>4 DEF ProgTabs

\* The address space of init, as userinit and exec leave it.
InitVm ==
    [dir |-> 2, ktab |-> 3,
     tab |-> [d \in Tables |-> IF d < ProgTabs THEN 4 + d ELSE None],
     pte |-> [a \in Pages |-> IF a < ProgSize THEN 4 + ProgTabs + a ELSE None],
     user |-> (0 .. ProgSize - 1) \ {Guard}]

\* It uses each of its frames once, and not the frame of the kernel stack.
LEMMA InitVmOwns ==
  /\ InitVm \in Space /\ Distinct(InitVm) /\ FramesOf(InitVm) \subseteq Frames \ {1}
<1>. DEFINE T == ProgTabs
            Place(f) == IF f = 2 THEN <<"dir", 0>> ELSE IF f = 3 THEN <<"ktab", 0>>
                        ELSE IF f < 4 + T THEN <<"tab", f - 4>> ELSE <<"pte", f - 4 - T>>
<1>1. T \in Nat /\ T > 0 /\ Tables \subseteq Nat /\ Pages \subseteq Nat /\ NFRAMES \in Nat
      /\ ProgSize \in Nat /\ 3 + T + ProgSize <= NFRAMES
  BY TablesNat, Sizes, BootAssumption, Zenon
<1>. HIDE DEF T
<1>2. \A d \in Tables : d < T => 4 + d \in Frames /\ 4 + d > 3 /\ 4 + d < 4 + T
  BY <1>1 DEF Frames
<1>3. \A a \in Pages : a < ProgSize => 4 + T + a \in Frames /\ 4 + T + a > 3 /\ ~(4 + T + a < 4 + T)
  BY <1>1 DEF Frames
<1>4. 2 \in Frames /\ 3 \in Frames
  BY <1>1 DEF Frames
<1>5. InitVm.tab \in [Tables -> Frame0] /\ InitVm.pte \in [Pages -> Frame0]
  BY <1>2, <1>3, Zenon DEF InitVm, Frame0, T
<1>6. InitVm \in Space
  <2>1. (0 .. ProgSize - 1) \ {Guard} \in SUBSET Pages
    BY Sizes DEF Pages, UserPages
  <2>. QED  BY <1>4, <1>5, <2>1 DEF InitVm, Space, Frame0
<1>7. ASSUME NEW n \in Places, At(InitVm, n) # None
      PROVE  /\ At(InitVm, n) \in Frames /\ At(InitVm, n) # 1
             /\ n = Place(At(InitVm, n))
  <2>1. CASE n = <<"dir", 0>>
    BY <2>1, <1>4 DEF At, InitVm
  <2>2. CASE n = <<"ktab", 0>>
    BY <2>2, <1>4 DEF At, InitVm
  <2>3. CASE n \in {"tab"} \X Tables
    <3>1. PICK d \in Tables : n = <<"tab", d>>
      BY <2>3
    <3>2. At(InitVm, n) = IF d < T THEN 4 + d ELSE None
      BY <3>1, Zenon DEF At, InitVm, T
    <3>3. At(InitVm, n) = 4 + d /\ d < T
      BY <3>2, <1>7, Zenon
    <3>4. d \in Nat
      BY <1>1, Zenon
    <3>5. (4 + d) - 4 = d /\ 4 + d # 1 /\ 4 + d # 2 /\ 4 + d # 3 /\ 4 + d < 4 + T
      BY <3>3, <3>4, <1>1
    <3>. QED  BY <3>1, <3>3, <3>5, <1>2
  <2>4. CASE n \in {"pte"} \X Pages
    <3>1. PICK a \in Pages : n = <<"pte", a>>
      BY <2>4
    <3>2. At(InitVm, n) = IF a < ProgSize THEN 4 + T + a ELSE None
      BY <3>1, Zenon DEF At, InitVm, T
    <3>3. At(InitVm, n) = 4 + T + a /\ a < ProgSize
      BY <3>2, <1>7, Zenon
    <3>4. a \in Nat
      BY <1>1, Zenon
    <3>5. /\ (4 + T + a) - 4 - T = a /\ 4 + T + a # 1 /\ 4 + T + a # 2 /\ 4 + T + a # 3
          /\ ~(4 + T + a < 4 + T)
      BY <3>4, <1>1
    <3>. QED  BY <3>1, <3>3, <3>5, <1>3
  <2>. QED  BY <2>1, <2>2, <2>3, <2>4 DEF Places
<1>. HIDE DEF Place
<1>8. Distinct(InitVm)
  BY <1>7, Zenon DEF Distinct
<1>9. FramesOf(InitVm) \subseteq Frames \ {1}
  <2>1. FramesOf(InitVm) = {At(InitVm, n) : n \in Places} \ {None}
    BY <1>6, FramesAre, Zenon
  <2>. QED  BY <2>1, <1>7
<1>. QED  BY <1>6, <1>8, <1>9

\* The machine as userinit and the exec of init leave it.
LEMMA InitInv == Init => Mem /\ Ctl
<1>1. SUFFICES ASSUME Init PROVE Mem /\ Ctl
  BY Zenon
<1>2. /\ kstack = [p \in Slots |-> IF p = 1 THEN 1 ELSE None]
      /\ vm = [p \in Slots |-> IF p = 1 THEN InitVm ELSE NoVm]
      /\ free = Frames \ (FramesOf(InitVm) \cup {1})
      /\ fill = [f \in Frames |-> IF f \in free THEN "junk"
                                  ELSE IF f < 4 + ProgTabs THEN "table" ELSE "data"]
      /\ state = [p \in Slots |-> IF p = 1 THEN "ALIVE" ELSE "UNUSED"]
      /\ sz = [p \in Slots |-> IF p = 1 THEN ProgSize ELSE 0]
      /\ call = [p \in Slots |-> NoCall]
      /\ new = [p \in Slots |-> NoVm] /\ lost = {}
  BY <1>1, Zenon DEF Init, InitVm
<1>3. 1 \in Frames /\ 1 # None /\ 1 \in Slots
  BY Sizes, SizeAssumption, TablesNat, BootAssumption DEF Frames, None, Slots
<1>4. /\ free \subseteq Frames /\ fill \in [Frames -> {"junk", "table", "zero", "data"}]
      /\ kstack \in [Slots -> Frame0]
  BY <1>2, <1>3, Zenon DEF Frame0
<1>5. vm \in [Slots -> Space] /\ new \in [Slots -> Space]
  BY <1>2, InitVmOwns, NoVmSpace, Zenon
<1>6. ASSUME NEW o \in Owners
      PROVE  Owned(o) = IF o = <<1, "vm">> THEN FramesOf(InitVm)
                        ELSE IF o = <<1, "kstack">> THEN {1} ELSE {}
  <2>1. PICK q \in Slots : o \in {<<q, "kstack">>, <<q, "vm">>, <<q, "new">>}
    BY OwnerKinds, Zenon
  <2>2. CASE o = <<q, "kstack">>
    BY <2>2, <1>2, <1>3, Zenon DEF Owned
  <2>3. CASE o = <<q, "vm">>
    BY <2>3, <1>2, NoVmEmpty, Zenon DEF Owned
  <2>4. CASE o = <<q, "new">>
    BY <2>4, <1>2, NoVmEmpty, Zenon DEF Owned
  <2>. QED  BY <2>1, <2>2, <2>3, <2>4
<1>7. <<1, "vm">> \in Owners /\ <<1, "kstack">> \in Owners /\ <<1, "vm">> # <<1, "kstack">>
  BY <1>3, Zenon DEF Owners
<1>8. FramesOf(InitVm) \subseteq Frames \ {1}
  BY InitVmOwns, Zenon
<1>9. (UNION {Owned(o) : o \in Owners}) \cup lost = Frames \ free
  <2>1. UNION {Owned(o) : o \in Owners} = FramesOf(InitVm) \cup {1}
    BY <1>6, <1>7, Zenon
  <2>. QED  BY <2>1, <1>2, <1>3, <1>8
<1>10. \A o, q \in Owners : o # q => Owned(o) \cap Owned(q) = {}
  BY <1>6, <1>8, Zenon
<1>20. \A o \in Owners : Owned(o) \cap lost = {}
  BY <1>2, Zenon
<1>11. \A p \in Slots : Distinct(vm[p]) /\ Distinct(new[p])
  BY <1>2, InitVmOwns, NoVmEmpty, Zenon
<1>12. Clean(InitVm, fill)
  <2>1. ASSUME NEW a \in Pages, InitVm.pte[a] # None PROVE fill[InitVm.pte[a]] = "data"
    <3>1. InitVm.pte[a] = 4 + ProgTabs + a
      BY <2>1, Zenon DEF InitVm
    <3>2. InitVm.pte[a] \in FramesOf(InitVm)
      BY <2>1, EntryFrames, InitVmOwns, Zenon
    <3>3. InitVm.pte[a] \in Frames /\ InitVm.pte[a] \notin free
      BY <3>2, <1>2, <1>8, Zenon
    <3>4. ~(InitVm.pte[a] < 4 + ProgTabs)
      BY <3>1, TablesNat, Sizes
    <3>. QED  BY <3>3, <3>4, <1>2
  <2>2. ASSUME NEW d \in Tables, InitVm.tab[d] # None PROVE fill[InitVm.tab[d]] = "table"
    <3>1. InitVm.tab[d] = 4 + d /\ d < ProgTabs
      BY <2>2, Zenon DEF InitVm
    <3>2. InitVm.tab[d] \in FramesOf(InitVm)
      BY <2>2, EntryFrames, InitVmOwns, Zenon
    <3>3. InitVm.tab[d] \in Frames /\ InitVm.tab[d] \notin free
      BY <3>2, <1>2, <1>8, Zenon
    <3>4. InitVm.tab[d] < 4 + ProgTabs
      BY <3>1, TablesNat
    <3>. QED  BY <3>3, <3>4, <1>2
  <2>. QED  BY <2>1, <2>2 DEF Clean
<1>13. AllClean
  BY <1>2, <1>12, NoVmClean, Zenon DEF AllClean
<1>14. Mem
  BY <1>4, <1>5, <1>9, <1>10, <1>11, <1>13, <1>20, Zenon DEF Mem, FramesOwnedOnce
<1>15. /\ state \in [Slots -> {"UNUSED", "EMBRYO", "ALIVE", "ZOMBIE"}]
       /\ sz \in [Slots -> 0 .. TOP - 1] /\ call \in [Slots -> Calls]
  BY <1>2, Sizes DEF Calls, NoCall
<1>16. NoCall.op = "none" /\ NoCall.i = 0 /\ NoVm.user = {} /\ \A a \in Pages : NoVm.pte[a] = None
  BY Zenon DEF NoCall, NoVm
<1>17. Phases
  BY <1>2, <1>3, <1>16, Zenon DEF Phases, Phase, Child, OneParent
<1>18. ~(0 > Guard) /\ InitVm.dir # None
  BY Sizes DEF InitVm, None
<1>19. Guarded
  BY <1>2, <1>16, <1>18 DEF Guarded, GuardOf
<1>. QED  BY <1>14, <1>15, <1>17, <1>19 DEF Ctl

\* Every step keeps the invariant.
LEMMA NextInv == VInv /\ [Next]_vars => VInv'
<1>1. SUFFICES ASSUME VInv, [Next]_vars PROVE Mem' /\ Ctl'
  BY Zenon DEF VInv, Mem, Ctl, VTypes, Calls
<1>2. VTypes /\ Mem /\ Ctl
  BY <1>1, VInvParts, Zenon DEF VInv
<1>3. CASE UNCHANGED vars
  <2>1. UNCHANGED <<free, fill, kstack, vm, new, lost>> /\ UNCHANGED <<state, sz, call>>
    BY <1>3, Zenon DEF vars
  <2>2. Mem'
    BY <1>2, <2>1, SameMem, Zenon
  <2>3. KeepsChildren
    BY <1>2, <2>1, CtlAt, Zenon DEF KeepsChildren, Child
  <2>4. Steady({})
    BY <2>1, Zenon DEF Steady, Same
  <2>5. Phases' /\ Guarded'
    BY <1>2, <2>3, <2>4, SlotsKept, Zenon
  <2>. QED  BY <1>2, <2>1, <2>2, <2>5 DEF Ctl
<1>4. CASE Next
  <2>1. PICK p \in Slots : Step(p)
    BY <1>4, Zenon DEF Next
  <2>2. CASE \E z \in SbrkSizes : sys_sbrk(p, z - sz[p])
    <3>1. PICK z \in SbrkSizes : sys_sbrk(p, z - sz[p])
      BY <2>2, Zenon
    <3>2. z - sz[p] \in Int
      BY <1>2, CallOf, SizeAssumption
    <3>. QED  BY <1>2, <3>1, <3>2, SbrkInv, Zenon
  <2>3. CASE remap(p) \/ \E a \in Pages : argptr(p, a)
    BY <1>2, <2>3, PanicInv, Zenon DEF remap, argptr
  <2>4. CASE \E a \in Pages : pgfault(p, a)
    BY <1>2, <2>4, PgfaultInv, Zenon
  <2>5. CASE \E c \in Slots : allocproc(p, c)
    BY <1>2, <2>5, AllocprocInv, Zenon
  <2>6. CASE StartVm(p)
    BY <1>2, <2>6, StartVmInv, Zenon
  <2>7. CASE copyuvm(p)
    BY <1>2, <2>7, CopyuvmInv, Zenon
  <2>8. CASE fork(p)
    BY <1>2, <2>8, ForkInv, Zenon
  <2>9. CASE forkFails(p)
    BY <1>2, <2>9, ForkFailsInv, Zenon
  <2>10. CASE sys_exec(p)
    BY <1>2, <2>10, SysExecInv, Zenon
  <2>11. CASE allocuvm(p)
    BY <1>2, <2>11, AllocuvmInv, Zenon
  <2>12. CASE exec(p)
    BY <1>2, <2>12, ExecInv, Zenon
  <2>13. CASE execFails(p)
    BY <1>2, <2>13, ExecFailsInv, Zenon
  <2>14. CASE exit(p)
    BY <1>2, <2>14, ExitInv, Zenon
  <2>15. CASE wait(p)
    BY <1>2, <2>15, WaitInv
  <2>. QED
    BY <2>1, <2>2, <2>3, <2>4, <2>5, <2>6, <2>7, <2>8, <2>9, <2>10, <2>11, <2>12, <2>13,
       <2>14, <2>15, Zenon DEF Step
<1>. QED  BY <1>1, <1>3, <1>4

\* The invariant holds in every reachable state.
LEMMA VInvHolds == Spec => []VInv
<1>1. Init => VInv
  BY InitInv, VInvParts
<1>. QED  BY <1>1, NextInv, PTL DEF Spec

\* For any number of slots, frames and pages, every frame is on the free list, is
\* used in one place, or was left by freevm in the gap above KERNBASE: no sequence
\* of sbrk, page faults, fork, exec, exit and wait, failing or not, maps a page
\* twice, frees a mapped page or loses one any other way.
THEOREM FramesOnce == Spec => []FramesOwnedOnce
<1>1. VInv => FramesOwnedOnce
  BY DEF VInv
<1>. QED  BY <1>1, VInvHolds, PTL

\* No process ever sees what kfree or another process left in a page.
THEOREM PagesClean == Spec => []NoJunkVisible
<1>1. VInv => NoJunkVisible
  BY DEF VInv, AllClean, Clean, NoJunkVisible
<1>. QED  BY <1>1, VInvHolds, PTL

-----------------------------------------------------------------------------
\* The guard page

\* What GuardKept says of one slot, and of one fork.
KeepsGuard(p) ==
    /\ HasGuard(vm[p]) /\ vm'[p].dir = vm[p].dir => HasGuard(vm'[p])
    /\ call[p].op = "exec" /\ vm'[p] # vm[p] => HasGuard(vm'[p])

GivesGuard(p) ==
    \A c \in Slots : /\ call[p].op = "fork" /\ c = call[p].child /\ vm'[c] # vm[c]
                      /\ HasGuard(vm[p]) /\ sz[p] > Guard
                      => HasGuard(vm'[c])

\* The empty address space has no guard page.
LEMMA NoVmGuard == ~HasGuard(NoVm)
<1>. QED  BY Sizes DEF HasGuard, NoVm

\* A step that leaves every address space alone keeps the guard pages.
LEMMA SameGuards ==
  ASSUME vm' = vm
  PROVE  \A p \in Slots : KeepsGuard(p) /\ GivesGuard(p)
<1>. QED  BY Zenon DEF KeepsGuard, GivesGuard

\* A step that changes the address space of a running or dead process, which is
\* no fork's child, hands nothing over.
LEMMA NotChild ==
  ASSUME Ctl, NEW q \in Slots, state[q] # "EMBRYO", \A p \in Slots : p # q => vm'[p] = vm[p]
  PROVE  \A p \in Slots : GivesGuard(p) /\ (p # q => KeepsGuard(p))
<1>1. TAKE p \in Slots
<1>2. call[p].op = "fork" => call[p].child # q
  BY CtlAt, Zenon DEF Child
<1>3. p # q => KeepsGuard(p)
  BY Zenon DEF KeepsGuard
<1>. QED  BY <1>2, <1>3, Zenon DEF GivesGuard

\* A page fault maps a page that was not there, never the guard page.
LEMMA PgfaultGuard ==
  ASSUME VInv, NEW q \in Slots, NEW a \in Pages, pgfault(q, a)
  PROVE  \A p \in Slots : KeepsGuard(p) /\ GivesGuard(p)
<1>1. VTypes /\ Mem /\ Ctl
  BY VInvParts, Zenon DEF VInv
<1>2. /\ state[q] = "ALIVE" /\ call[q].op = "none" /\ vm[q].pte[a] = None /\ vm[q] \in Space
      /\ vm' = [vm EXCEPT ![q] = MapPage(vm[q], a, TRUE)]
  BY <1>1, Zenon DEF pgfault, Running, Mem
<1>3. vm'[q] = MapPage(vm[q], a, TRUE) /\ \A p \in Slots : p # q => vm'[p] = vm[p]
  BY <1>1, <1>2, Zenon DEF Mem
<1>4. vm'[q].pte = [vm[q].pte EXCEPT ![a] = First] /\ vm'[q].user = vm[q].user \cup {a}
  <2>1. MapPage(vm[q], a, TRUE).pte = [vm[q].pte EXCEPT ![a] = First]
    BY DEF MapPage, First
  <2>2. MapPage(vm[q], a, TRUE).user = vm[q].user \cup {a}
    BY DEF MapPage
  <2>. QED  BY <1>3, <2>1, <2>2, Zenon
<1>5. HasGuard(vm[q]) => HasGuard(vm'[q])
  <2>1. SUFFICES ASSUME vm[q].pte[Guard] # None, Guard \notin vm[q].user PROVE HasGuard(vm'[q])
    BY Zenon DEF HasGuard
  <2>2. a # Guard /\ Guard \in Pages
    BY <2>1, <1>2, Sizes, Zenon
  <2>3. vm'[q].pte[Guard] = vm[q].pte[Guard]
    <3>1. DOMAIN vm[q].pte = Pages
      BY <1>2, Zenon DEF Space
    <3>. QED  BY <2>2, <3>1, <1>4, Zenon
  <2>. QED  BY <2>1, <2>2, <2>3, <1>4, Zenon DEF HasGuard
<1>6. KeepsGuard(q)
  BY <1>2, <1>5 DEF KeepsGuard
<1>. QED  BY <1>1, <1>2, <1>3, <1>6, NotChild

\* exec hands over an address space whose guard page it built.
LEMMA ExecGuard ==
  ASSUME VInv, NEW q \in Slots, exec(q)
  PROVE  \A p \in Slots : KeepsGuard(p) /\ GivesGuard(p)
<1>1. Mem /\ Ctl
  BY VInvParts, Zenon
<1>2. call[q].op = "exec" /\ call[q].i = ProgSize /\ vm' = [vm EXCEPT ![q] = new[q]]
  BY Zenon DEF exec
<1>3. vm'[q] = new[q] /\ \A p \in Slots : p # q => vm'[p] = vm[p]
  BY <1>1, <1>2, Zenon DEF Mem
<1>4. state[q] = "ALIVE" /\ GuardOf(q)
  BY <1>1, <1>2, CtlAt, Zenon DEF Phase
<1>5. ProgSize > Guard
  BY Sizes
<1>6. HasGuard(vm'[q])
  BY <1>2, <1>3, <1>4, <1>5, Zenon DEF GuardOf, HasGuard
<1>. QED  BY <1>1, <1>3, <1>4, <1>6, NotChild DEF KeepsGuard

\* wait drops an address space that had a directory.
LEMMA WaitGuard ==
  ASSUME VInv, NEW q \in Slots, wait(q)
  PROVE  \A p \in Slots : KeepsGuard(p) /\ GivesGuard(p)
<1>1. Mem /\ Ctl
  BY VInvParts, Zenon
<1>2. state[q] = "ZOMBIE" /\ vm' = [vm EXCEPT ![q] = NoVm]
  BY Zenon DEF wait
<1>3. vm'[q] = NoVm /\ \A p \in Slots : p # q => vm'[p] = vm[p]
  BY <1>1, <1>2, Zenon DEF Mem
<1>4. vm[q].dir # None /\ call[q].op # "exec"
  BY <1>1, <1>2, CtlAt, Zenon DEF Phase, GuardOf
<1>5. NoVm.dir = None
  BY Zenon DEF NoVm
<1>6. KeepsGuard(q)
  BY <1>3, <1>4, <1>5, Zenon DEF KeepsGuard
<1>. QED  BY <1>1, <1>2, <1>3, <1>6, NotChild

\* fork hands the child the copy: with the guard page, when the parent has it and
\* the copy got past it.
LEMMA ForkGuard ==
  ASSUME VInv, NEW q \in Slots, fork(q)
  PROVE  \A p \in Slots : KeepsGuard(p) /\ GivesGuard(p)
<1>. DEFINE c == call[q].child
<1>1. Mem /\ Ctl
  BY VInvParts, Zenon
<1>2. call[q].op = "fork" /\ call[q].i >= sz[q] /\ vm' = [vm EXCEPT ![c] = new[q]]
  BY Zenon DEF fork
<1>3. c \in Slots /\ state[c] = "EMBRYO" /\ vm[c] = NoVm
  BY <1>1, <1>2, CtlAt, Zenon DEF Child, Phase
<1>4. call[q].child = c
  BY Zenon
<1>. HIDE DEF c
<1>5. vm'[c] = new[q] /\ \A p \in Slots : p # c => vm'[p] = vm[p]
  BY <1>1, <1>2, <1>3, Zenon DEF Mem
<1>6. HasGuard(vm[q]) /\ sz[q] > Guard => HasGuard(new[q])
  <2>1. SUFFICES ASSUME HasGuard(vm[q]), sz[q] > Guard PROVE HasGuard(new[q])
    BY Zenon
  <2>2. call[q].i > Guard
    BY <2>1, <1>1, <1>2, CallOf, Sizes
  <2>. QED  BY <2>1, <2>2, <1>1, <1>2, CtlAt, Zenon DEF GuardOf, HasGuard
<1>7. ASSUME NEW p \in Slots PROVE KeepsGuard(p)
  <2>1. CASE p = c
    <3>1. ~HasGuard(vm[c])
      BY <1>3, NoVmGuard, Zenon
    <3>2. call[c].op # "exec"
      BY <1>1, <1>3, CtlAt, Zenon DEF Phase
    <3>. QED  BY <2>1, <3>1, <3>2, Zenon DEF KeepsGuard
  <2>2. CASE p # c
    BY <2>2, <1>5, Zenon DEF KeepsGuard
  <2>. QED  BY <2>1, <2>2
<1>8. ASSUME NEW p \in Slots PROVE GivesGuard(p)
  <2>1. SUFFICES ASSUME NEW d \in Slots, call[p].op = "fork", d = call[p].child, vm'[d] # vm[d],
                        HasGuard(vm[p]), sz[p] > Guard
                 PROVE  HasGuard(vm'[d])
    BY Zenon DEF GivesGuard
  <2>2. d = c
    BY <2>1, <1>5, Zenon
  <2>3. p = q
    BY <2>1, <2>2, <1>1, <1>2, <1>4, Zenon DEF Ctl, Phases, OneParent
  <2>. QED  BY <2>1, <2>2, <2>3, <1>5, <1>6, Zenon
<1>. QED  BY <1>7, <1>8

\* Once exec has made the page below the stack inaccessible it stays so in that
\* address space, whatever sbrk and page faults do, and in every child forked
\* while sz is above it.
THEOREM GuardStays == Spec => GuardKept
<1>1. VInv /\ [Next]_vars => \A p \in Slots : KeepsGuard(p) /\ GivesGuard(p)
  <2>1. SUFFICES ASSUME VInv, [Next]_vars
                 PROVE  \A p \in Slots : KeepsGuard(p) /\ GivesGuard(p)
    BY Zenon
  <2>2. CASE UNCHANGED vars
    BY <2>2, SameGuards, Zenon DEF vars
  <2>3. CASE Next
    <3>1. PICK q \in Slots : Step(q)
      BY <2>3, Zenon DEF Next
    <3>2. CASE \/ \E z \in SbrkSizes : sys_sbrk(q, z - sz[q])
               \/ remap(q) \/ \E a \in Pages : argptr(q, a)
      BY <3>2, SameGuards, Zenon DEF sys_sbrk, remap, argptr, panic
    <3>3. CASE \E a \in Pages : pgfault(q, a)
      BY <2>1, <3>3, PgfaultGuard, Zenon
    <3>4. CASE (\E c \in Slots : allocproc(q, c)) \/ StartVm(q)
      BY <3>4, SameGuards, Zenon DEF allocproc, StartVm
    <3>5. CASE copyuvm(q) \/ forkFails(q)
      BY <3>5, SameGuards, Zenon DEF copyuvm, forkFails, panic
    <3>6. CASE sys_exec(q) \/ allocuvm(q) \/ execFails(q) \/ exit(q)
      BY <3>6, SameGuards, Zenon DEF sys_exec, allocuvm, execFails, exit
    <3>7. CASE fork(q)
      BY <2>1, <3>7, ForkGuard, Zenon
    <3>8. CASE exec(q)
      BY <2>1, <3>8, ExecGuard, Zenon
    <3>9. CASE wait(q)
      BY <2>1, <3>9, WaitGuard, Zenon
    <3>. QED
      BY <3>1, <3>2, <3>3, <3>4, <3>5, <3>6, <3>7, <3>8, <3>9, Zenon DEF Step
  <2>. QED  BY <2>1, <2>2, <2>3
<1>2. (\A p \in Slots : KeepsGuard(p) /\ GivesGuard(p)) =>
        \A p \in Slots :
          /\ HasGuard(vm[p]) /\ vm'[p].dir = vm[p].dir => HasGuard(vm'[p])
          /\ call[p].op = "exec" /\ vm'[p] # vm[p] => HasGuard(vm'[p])
          /\ \A c \in Slots :
               /\ call[p].op = "fork" /\ c = call[p].child /\ vm'[c] # vm[c]
               /\ HasGuard(vm[p]) /\ sz[p] > Guard
               => HasGuard(vm'[c])
  BY Zenon DEF KeepsGuard, GivesGuard
<1>. QED  BY <1>1, <1>2, VInvHolds, PTL DEF Spec, GuardKept
=============================================================================
