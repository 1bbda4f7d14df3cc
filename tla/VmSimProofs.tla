----------------------------- MODULE VmSimProofs ----------------------------
(***************************************************************************)
(* Proofs about vmsim, for any number of frames, pages and traces.  First  *)
(* the page table, for any choice of victims and hence for every           *)
(* replacement algorithm; then what happens along a trace: which frames    *)
(* are dirty, and the order of the queue of the fifo algorithm.            *)
(***************************************************************************)
EXTENDS MCVmSim, SequenceTheorems, TLAPS

PTInv == PTTypeOK /\ TableInverse

StatsInv == PTTypeOK /\ StatsConsistent

\* Bringing p into frame f keeps the dictionary and the frames inverse to each
\* other, whatever was in the frame: the page that leaves the frame leaves the
\* dictionary, and no other page is in that frame.
LEMMA InstallKeepsInverse ==
    ASSUME PTInv, NEW op, NEW p \in Pages, NEW f \in Frames,
           ~ Resident(p), Install(op, p, f)
    PROVE  /\ frames' \in [Frames -> Pages \cup {None}]
           /\ \A g \in Frames : frames'[g] = IF g = f THEN p ELSE frames[g]
           /\ DOMAIN page_frame_table' \subseteq Pages
           /\ \A q \in DOMAIN page_frame_table' : page_frame_table'[q] \in Frames
           /\ dirty' \subseteq dirty \cup {f}
           /\ TableInverse'
<1>1. /\ frames' \in [Frames -> Pages \cup {None}]
      /\ \A g \in Frames : frames'[g] = IF g = f THEN p ELSE frames[g]
  BY Zenon DEF PTInv, PTTypeOK, Install
<1>2. /\ DOMAIN page_frame_table' = (DOMAIN page_frame_table \ {frames[f]}) \cup {p}
      /\ \A q \in DOMAIN page_frame_table' :
           page_frame_table'[q] = IF q = p THEN f ELSE page_frame_table[q]
  BY Zenon DEF Install
<1>3. dirty' \subseteq dirty \cup {f}
  BY Zenon DEF Install, Touch
<1>4. /\ DOMAIN page_frame_table' \subseteq Pages
      /\ \A q \in DOMAIN page_frame_table' : page_frame_table'[q] \in Frames
  BY <1>2, Zenon DEF PTInv, PTTypeOK
<1>5. ASSUME NEW q \in DOMAIN page_frame_table'
      PROVE  frames'[page_frame_table'[q]] = q
  <2>1. CASE q = p
    BY <2>1, <1>1, <1>2, Zenon
  <2>2. CASE q # p
    <3>1. /\ q \in DOMAIN page_frame_table /\ q # frames[f]
          /\ page_frame_table'[q] = page_frame_table[q]
      BY <2>2, <1>2, <1>5, Zenon
    <3>2. page_frame_table[q] \in Frames /\ frames[page_frame_table[q]] = q
      BY <3>1, Zenon DEF PTInv, PTTypeOK, TableInverse
    <3> QED
      BY <3>1, <3>2, <1>1, Zenon
  <2> QED
    BY <2>1, <2>2, Zenon
<1>6. ASSUME NEW g \in Frames, frames'[g] # None
      PROVE  frames'[g] \in DOMAIN page_frame_table' /\ page_frame_table'[frames'[g]] = g
  <2>1. CASE g = f
    BY <2>1, <1>1, <1>2, Zenon
  <2>2. CASE g # f
    <3>1. frames'[g] = frames[g]
      BY <2>2, <1>1, Zenon
    <3>2. /\ frames[g] \in DOMAIN page_frame_table
          /\ page_frame_table[frames[g]] = g
      BY <3>1, <1>6, Zenon DEF PTInv, TableInverse, Resident
    <3>3. frames[g] # frames[f]
      BY <3>2, <2>2, <1>6, <3>1, Zenon DEF PTInv, TableInverse
    <3>4. frames[g] # p
      BY <3>2, Zenon DEF Resident
    <3> QED
      BY <3>1, <3>2, <3>3, <3>4, <1>2
  <2> QED
    BY <2>1, <2>2, Zenon
<1>7. TableInverse'
  BY <1>5, <1>6 DEF TableInverse, Resident
<1> QED
  BY <1>1, <1>3, <1>4, <1>7, Zenon

\* A page that is found is in a frame that is in use.
LEMMA HitKeeps ==
    ASSUME PTInv, NEW op, NEW p \in Pages, Hit(op, p)
    PROVE  PTInv'
<1>1. page_frame_table[p] \in Frames /\ page_frame_table[p] < new_frames_counter
  BY PagesAssumption, Zenon DEF PTInv, PTTypeOK, TableInverse, Hit, Resident
<1>2. dirty' \subseteq dirty \cup {page_frame_table[p]}
  BY Zenon DEF Hit, Touch
<1>3. PTTypeOK'
  BY <1>1, <1>2 DEF PTInv, PTTypeOK, Hit
<1>4. TableInverse'
  BY Zenon DEF PTInv, TableInverse, Hit, Resident
<1> QED
  BY <1>3, <1>4, Zenon DEF PTInv

\* The first faults fill the frames in order.
LEMMA FillKeeps ==
    ASSUME PTInv, NEW op, NEW p \in Pages, Fill(op, p)
    PROVE  PTInv'
<1> DEFINE f == new_frames_counter
<1>1. /\ f \in Frames /\ f \in Nat /\ f < NFrames /\ NFrames \in Nat
      /\ new_frames_counter' = f + 1 /\ new_frames_counter' \in 0..NFrames
  BY FramesAssumption DEF PTInv, PTTypeOK, Fill, Frames
<1>2. /\ frames' \in [Frames -> Pages \cup {None}]
      /\ \A g \in Frames : frames'[g] = IF g = f THEN p ELSE frames[g]
      /\ DOMAIN page_frame_table' \subseteq Pages
      /\ \A q \in DOMAIN page_frame_table' : page_frame_table'[q] \in Frames
      /\ dirty' \subseteq dirty \cup {f}
      /\ TableInverse'
  BY <1>1, InstallKeepsInverse, Zenon DEF Fill
<1>3. /\ total_memory_accesses' \in Nat /\ total_page_faults' \in Nat
      /\ total_writes_to_disk' \in Nat
  BY DEF PTInv, PTTypeOK, Fill, Install
<1>4. \A g \in Frames : g \in Int
  BY FramesAssumption DEF Frames
<1>5. ASSUME NEW g \in Frames
      PROVE  frames'[g] # None <=> g < f + 1
  <2>1. g \in Int /\ (frames[g] # None <=> g < f)
    BY <1>4, Zenon DEF PTInv, PTTypeOK
  <2>2. CASE g = f
    <3>1. frames'[g] = p /\ p # None
      BY <1>2, <2>2, PagesAssumption, Zenon
    <3> QED
      BY <1>1, <2>2, <3>1
  <2>3. CASE g # f
    <3>1. frames'[g] = frames[g]
      BY <1>2, <2>3, Zenon
    <3>2. g < f <=> g < f + 1
      BY <1>1, <2>1, <2>3
    <3> QED
      BY <2>1, <3>1, <3>2, Zenon
  <2> QED
    BY <2>2, <2>3, Zenon
<1>6. ASSUME NEW g \in dirty'
      PROVE  g \in Frames /\ g < f + 1
  <2>1. CASE g = f
    BY <1>1, <2>1
  <2>2. CASE g \in dirty
    <3>1. g \in Frames /\ g < f
      BY <2>2 DEF PTInv, PTTypeOK
    <3> QED
      BY <1>1, <1>4, <3>1
  <2> QED
    BY <1>2, <2>1, <2>2, Zenon
<1> QED
  BY <1>1, <1>2, <1>3, <1>5, <1>6, Zenon DEF PTInv, PTTypeOK

\* Later faults evict a page, whichever the algorithm chooses.
LEMMA EvictKeeps ==
    ASSUME PTInv, NEW op, NEW p \in Pages, NEW victim \in Frames, Evict(op, p, victim)
    PROVE  PTInv'
<1>1. /\ frames' \in [Frames -> Pages \cup {None}]
      /\ \A g \in Frames : frames'[g] = IF g = victim THEN p ELSE frames[g]
      /\ DOMAIN page_frame_table' \subseteq Pages
      /\ \A q \in DOMAIN page_frame_table' : page_frame_table'[q] \in Frames
      /\ dirty' \subseteq dirty \cup {victim}
      /\ TableInverse'
  BY InstallKeepsInverse, Zenon DEF Evict
<1>2. /\ total_memory_accesses' \in Nat /\ total_page_faults' \in Nat
      /\ total_writes_to_disk' \in Nat
  BY DEF PTInv, PTTypeOK, Evict, Install
<1>3. /\ new_frames_counter' = new_frames_counter /\ new_frames_counter = NFrames
      /\ new_frames_counter \in 0..NFrames
      /\ \A g \in Frames : g < NFrames
  BY FramesAssumption DEF PTInv, PTTypeOK, Evict, Frames
<1>4. /\ \A g \in Frames : frames'[g] # None <=> g < new_frames_counter'
      /\ dirty' \subseteq {g \in Frames : g < new_frames_counter'}
  BY <1>1, <1>3, PagesAssumption DEF PTInv, PTTypeOK
<1> QED
  BY <1>1, <1>2, <1>3, <1>4, Zenon DEF PTInv, PTTypeOK

\* The statistics of an access add up, whichever kind it is.
LEMMA StatsKeep ==
    ASSUME StatsInv, NEW op, NEW p \in Pages, NEW victim \in Frames,
           Hit(op, p) \/ Fill(op, p) \/ Evict(op, p, victim)
    PROVE  StatsConsistent'
<1>1. /\ total_writes_to_disk \in Nat /\ total_page_faults \in Nat
      /\ total_memory_accesses \in Nat /\ new_frames_counter \in Nat
  BY FramesAssumption DEF StatsInv, PTTypeOK
<1>2. CASE Hit(op, p)
  BY <1>1, <1>2 DEF StatsInv, StatsConsistent, Hit
<1>3. CASE Fill(op, p)
  BY <1>1, <1>3 DEF StatsInv, StatsConsistent, Fill, Install
<1>4. CASE Evict(op, p, victim)
  <2>1. total_writes_to_disk' \in {total_writes_to_disk, total_writes_to_disk + 1}
    BY <1>1, <1>4 DEF Evict
  <2> QED
    BY <2>1, <1>1, <1>4 DEF StatsInv, StatsConsistent, Evict, Install
<1> QED
  BY <1>2, <1>3, <1>4, Zenon

-----------------------------------------------------------------------------
\* Whatever frames the replacement algorithm evicts, the dictionary and the
\* frames of vmsim's page table are inverse to each other after every access.
THEOREM TableCorrect == PTSpec => [](PTTypeOK /\ TableInverse)
<1>1. PTInit => PTInv
  BY FramesAssumption DEF PTInit, PTInv, PTTypeOK, TableInverse, Frames, Resident
<1>2. PTInv /\ [PTNext]_ptVars => PTInv'
  <2>1. ASSUME PTInv, PTNext PROVE PTInv'
    BY <2>1, HitKeeps, FillKeeps, EvictKeeps, Zenon DEF PTNext
  <2>2. ASSUME PTInv, UNCHANGED ptVars PROVE PTInv'
    BY <2>2, Zenon DEF PTInv, PTTypeOK, TableInverse, Resident, ptVars
  <2> QED
    BY <2>1, <2>2, Zenon
<1>3. PTInv => PTTypeOK /\ TableInverse
  BY DEF PTInv
<1> QED
  BY <1>1, <1>2, <1>3, PTL DEF PTSpec

\* Whatever frames the replacement algorithm evicts, vmsim reports no more
\* writes than evictions and no more faults than accesses.
THEOREM StatsCorrect == PTSpec => []StatsConsistent
<1>1. PTInit => StatsConsistent
  BY DEF PTInit, StatsConsistent
<1>2. PTTypeOK /\ StatsConsistent /\ [PTNext]_ptVars => StatsConsistent'
  <2>0. 0 \in Frames
    BY FramesAssumption DEF Frames
  <2>1. ASSUME StatsInv, PTNext PROVE StatsConsistent'
    BY <2>0, <2>1, StatsKeep, Zenon DEF PTNext
  <2>2. ASSUME StatsConsistent, UNCHANGED ptVars PROVE StatsConsistent'
    BY <2>2 DEF StatsConsistent, ptVars
  <2> QED
    BY <2>1, <2>2, Zenon DEF StatsInv
<1> QED
  BY <1>1, <1>2, TableCorrect, PTL DEF PTSpec

-----------------------------------------------------------------------------
(***************************************************************************)
(* Along a trace.  A resident page came in before now; only the page of    *)
(* the current access comes in.                                            *)
(***************************************************************************)
Access == [op : {"L", "S"}, page_no : Pages, cycles : Nat]

Times ==
    /\ traces \in Seq(Access)
    /\ now \in Nat \ {0}
    /\ loadedAt \in [Pages -> Nat]
    /\ \A p \in DOMAIN page_frame_table : 1 <= loadedAt[p] /\ loadedAt[p] < now

TraceInv == PTInv /\ Times /\ DirtyExact

\* What the loop over the trace and the history variable do at every access.
Loaded ==
    loadedAt' = [p \in Pages |-> IF ~ Resident(p) /\ Resident(p)' THEN now ELSE loadedAt[p]]

Advance ==
    /\ now <= Len(traces) /\ now' = now + 1
    /\ UNCHANGED <<alg, traces>>
    /\ Loaded

\* The access at the current position of the trace is a load or store of a page.
LEMMA AccessType ==
    ASSUME Times, Advance
    PROVE  traces[now].op \in {"L", "S"} /\ traces[now].page_no \in Pages
<1>1. now \in 1 .. Len(traces)
  BY DEF Times, Advance
<1>2. traces[now] \in Access
  BY <1>1, ElementOfSeq DEF Times
<1> QED
  BY <1>2, Zenon DEF Access

\* A hit brings no page in and dirties the frame of its page if it is a store.
LEMMA HitTrace ==
    ASSUME TraceInv, Advance, Hit(traces[now].op, traces[now].page_no)
    PROVE  TraceInv' /\ loadedAt' = loadedAt
<1> DEFINE p == traces[now].page_no
           f == page_frame_table[p]
<1>1. Times /\ PTInv /\ DirtyExact
  BY Zenon DEF TraceInv
<1>2. p \in Pages /\ now \in Nat \ {0} /\ now' = now + 1
  BY <1>1, AccessType, Zenon DEF Times, Advance
<1>3. PTInv'
  BY <1>1, <1>2, HitKeeps, Zenon
<1>4. page_frame_table' = page_frame_table /\ frames' = frames /\ p \in DOMAIN page_frame_table
  BY Zenon DEF Hit, Resident
<1>5. loadedAt' = loadedAt
  BY <1>1, <1>4, Zenon DEF Advance, Loaded, Resident, Times
<1>6. Times'
  <2>1. traces' = traces /\ now' \in Nat \ {0}
    BY <1>2 DEF Advance
  <2>2. \A q \in DOMAIN page_frame_table :
          loadedAt[q] \in Nat /\ 1 <= loadedAt[q] /\ loadedAt[q] < now + 1
    BY <1>1, <1>2 DEF Times, PTInv, PTTypeOK
  <2> QED
    BY <1>1, <1>2, <1>4, <1>5, <2>1, <2>2, Zenon DEF Times
<1>7. DirtyExact'
  <2> SUFFICES ASSUME NEW g \in Frames
               PROVE  g \in dirty' <=>
                        /\ frames[g] # None
                        /\ \E i \in loadedAt[frames[g]]..now :
                             traces[i].page_no = frames[g] /\ traces[i].op = "S"
    BY <1>2, <1>4, <1>5 DEF DirtyExact, Advance
  <2>1. g \in dirty <=>
            /\ frames[g] # None
            /\ \E i \in loadedAt[frames[g]]..now - 1 :
                 traces[i].page_no = frames[g] /\ traces[i].op = "S"
    BY <1>1, Zenon DEF DirtyExact
  <2>2. frames[g] = p <=> g = f
    BY <1>1, <1>2, <1>4, PagesAssumption, Zenon DEF PTInv, TableInverse
  <2>3. g \in dirty' <=> g \in dirty \/ (traces[now].op = "S" /\ g = f)
    BY Zenon DEF Hit, Touch
  <2>4. CASE frames[g] = None
    BY <1>2, <2>1, <2>2, <2>3, <2>4, PagesAssumption, Zenon
  <2>5. CASE frames[g] # None
    <3>1. loadedAt[frames[g]] \in Nat /\ loadedAt[frames[g]] < now
      BY <1>1, <2>5, Zenon DEF PTInv, PTTypeOK, TableInverse, Times, Resident
    <3>2. loadedAt[frames[g]]..now = (loadedAt[frames[g]]..now - 1) \cup {now}
      BY <1>2, <3>1
    <3>3. (\E i \in loadedAt[frames[g]]..now :
              traces[i].page_no = frames[g] /\ traces[i].op = "S")
          <=> \/ \E i \in loadedAt[frames[g]]..now - 1 :
                    traces[i].page_no = frames[g] /\ traces[i].op = "S"
              \/ p = frames[g] /\ traces[now].op = "S"
      BY <3>2
    <3> QED
      BY <2>1, <2>2, <2>3, <2>5, <3>3, Zenon
  <2> QED
    BY <2>4, <2>5, Zenon
<1> QED
  BY <1>3, <1>5, <1>6, <1>7, Zenon DEF TraceInv

\* A fault brings its page in now, clean unless it is a store, and leaves the
\* other frames and the times of their pages alone.
LEMMA InstallTrace ==
    ASSUME TraceInv, PTInv', Advance, NEW f \in Frames, ~ Resident(traces[now].page_no),
           Install(traces[now].op, traces[now].page_no, f)
    PROVE  /\ TraceInv'
           /\ loadedAt'[traces[now].page_no] = now
           /\ \A g \in Frames : g # f /\ frames[g] # None =>
                loadedAt'[frames[g]] = loadedAt[frames[g]]
<1> DEFINE p == traces[now].page_no
<1>1. Times /\ PTInv /\ DirtyExact
  BY Zenon DEF TraceInv
<1>2. p \in Pages /\ now \in Nat \ {0} /\ now' = now + 1
  BY <1>1, AccessType, Zenon DEF Times, Advance
<1>3. /\ \A g \in Frames : frames'[g] = IF g = f THEN p ELSE frames[g]
      /\ DOMAIN page_frame_table' = (DOMAIN page_frame_table \ {frames[f]}) \cup {p}
  BY <1>1, Zenon DEF PTInv, PTTypeOK, Install
<1>4. /\ loadedAt' \in [Pages -> Nat]
      /\ \A q \in Pages : loadedAt'[q] = IF q = p THEN now ELSE loadedAt[q]
  <2>1. \A q \in Pages : (~ Resident(q) /\ Resident(q)') <=> q = p
    BY <1>3, Zenon DEF Resident
  <2> QED
    BY <1>1, <1>2, <2>1, Zenon DEF Advance, Loaded, Times
<1>5. Times'
  <2>1. traces' = traces /\ now' \in Nat \ {0}
    BY <1>2 DEF Advance
  <2>2. \A q \in DOMAIN page_frame_table' :
          loadedAt'[q] \in Nat /\ 1 <= loadedAt'[q] /\ loadedAt'[q] < now + 1
    BY <1>1, <1>2, <1>3, <1>4 DEF Times, PTInv, PTTypeOK
  <2> QED
    BY <1>1, <1>2, <1>4, <2>1, <2>2, Zenon DEF Times
<1>6. \A g \in Frames : g # f /\ frames[g] # None =>
        /\ frames[g] # p /\ frames[g] \in Pages
        /\ loadedAt'[frames[g]] = loadedAt[frames[g]]
        /\ loadedAt[frames[g]] \in Nat /\ loadedAt[frames[g]] < now
  BY <1>1, <1>4, Zenon DEF PTInv, PTTypeOK, TableInverse, Times, Resident
<1>7. DirtyExact'
  <2> SUFFICES ASSUME NEW g \in Frames
               PROVE  g \in dirty' <=>
                        /\ frames'[g] # None
                        /\ \E i \in loadedAt'[frames'[g]]..now :
                             traces[i].page_no = frames'[g] /\ traces[i].op = "S"
    BY <1>2 DEF DirtyExact, Advance
  <2>1. CASE g = f
    <3>1. frames'[g] = p /\ loadedAt'[p] = now /\ p # None
      BY <1>2, <1>3, <1>4, <2>1, PagesAssumption, Zenon
    <3>2. g \in dirty' <=> traces[now].op = "S"
      BY <2>1, Zenon DEF Install, Touch
    <3>3. \A i : i \in now..now <=> i = now
      BY <1>2
    <3> QED
      BY <3>1, <3>2, <3>3, Zenon
  <2>2. CASE g # f
    <3>1. frames'[g] = frames[g] /\ (g \in dirty' <=> g \in dirty)
      BY <1>3, <2>2, Zenon DEF Install, Touch
    <3>2. g \in dirty <=>
            /\ frames[g] # None
            /\ \E i \in loadedAt[frames[g]]..now - 1 :
                 traces[i].page_no = frames[g] /\ traces[i].op = "S"
      BY <1>1, Zenon DEF DirtyExact
    <3>3. CASE frames[g] = None
      BY <3>1, <3>2, <3>3, Zenon
    <3>4. CASE frames[g] # None
      <4>1. loadedAt[frames[g]]..now = (loadedAt[frames[g]]..now - 1) \cup {now}
        BY <1>2, <1>6, <2>2, <3>4
      <4>2. loadedAt'[frames[g]] = loadedAt[frames[g]] /\ frames[g] # p
        BY <1>6, <2>2, <3>4
      <4> QED
        BY <3>1, <3>2, <3>4, <4>1, <4>2, Zenon
    <3> QED
      BY <3>3, <3>4, Zenon
  <2> QED
    BY <2>1, <2>2, Zenon
<1> QED
  BY <1>2, <1>4, <1>5, <1>6, <1>7, Zenon DEF TraceInv

-----------------------------------------------------------------------------
(***************************************************************************)
(* The queue of the fifo algorithm.                                        *)
(***************************************************************************)
InOrder(q) ==
    \A i, j \in 1..Len(q) : i < j => loadedAt[frames[q[i]]] < loadedAt[frames[q[j]]]

FifoInv == alg = "fifo" => queue \in Seq(Frames) /\ FifoOrder

\* A frame is in the queue if and only if it is in use.
LEMMA QueueHolds ==
    ASSUME FifoInv, alg = "fifo"
    PROVE  /\ queue \in Seq(Frames) /\ Len(queue) \in Nat /\ InOrder(queue)
           /\ \A f \in Frames : Contains(queue, f) <=> f < new_frames_counter
<1>1. queue \in Seq(Frames) /\ FifoOrder
  BY Zenon DEF FifoInv
<1>2. Len(queue) \in Nat /\ DOMAIN queue = 1..Len(queue)
  BY <1>1, LenProperties, Zenon
<1>3. \A f : f \in ToSet(queue) <=> Contains(queue, f)
  BY <1>2, Zenon DEF ToSet, Contains
<1>4. ToSet(queue) = {f \in Frames : f < new_frames_counter} /\ InOrder(queue)
  BY <1>1 DEF FifoOrder, InOrder
<1> QED
  BY <1>1, <1>2, <1>3, <1>4, Zenon

\* The frame of a page that comes in goes to the end of the queue; the order of
\* the rest q is kept, because their pages came in earlier.
LEMMA AppendOrder ==
    ASSUME TraceInv, NEW f \in Frames, NEW q \in Seq(Frames),
           frames' \in [Frames -> Pages \cup {None}],
           \A g \in Frames : g # f => frames'[g] = frames[g],
           loadedAt'[frames'[f]] = now,
           \A g \in Frames : g # f /\ frames[g] # None =>
             loadedAt'[frames[g]] = loadedAt[frames[g]],
           \A i \in 1..Len(q) : q[i] # f /\ frames[q[i]] # None,
           InOrder(q), queue' = Append(q, f),
           \A g \in Frames : (g < new_frames_counter') <=> (g = f \/ Contains(q, g))
    PROVE  queue' \in Seq(Frames) /\ FifoOrder'
<1>1. /\ queue' \in Seq(Frames) /\ Len(queue') = Len(q) + 1 /\ Len(q) \in Nat
      /\ \A i \in 1..Len(q) : queue'[i] = q[i] /\ q[i] \in Frames
      /\ queue'[Len(q) + 1] = f
  BY AppendProperties, ElementOfSeq, LenProperties
<1>2. DOMAIN queue' = 1..Len(q) + 1
  BY <1>1, LenProperties
<1>3. ToSet(queue') = {g \in Frames : g < new_frames_counter'}
  <2>1. \A g : g \in ToSet(queue') <=> \E i \in 1..Len(q) + 1 : g = queue'[i]
    BY <1>2 DEF ToSet
  <2>2. \A i : i \in 1..Len(q) + 1 <=> i \in 1..Len(q) \/ i = Len(q) + 1
    BY <1>1
  <2>3. \A g : g \in ToSet(queue') <=> g = f \/ Contains(q, g)
    BY <1>1, <2>1, <2>2 DEF Contains
  <2>4. \A g : Contains(q, g) => g \in Frames
    BY <1>1 DEF Contains
  <2> QED
    BY <2>3, <2>4, Zenon
<1>4. \A i \in 1..Len(q) : /\ loadedAt'[frames'[queue'[i]]] = loadedAt[frames[q[i]]]
                            /\ loadedAt[frames[q[i]]] < now
  <2> SUFFICES ASSUME NEW i \in 1..Len(q)
               PROVE  /\ loadedAt'[frames'[queue'[i]]] = loadedAt[frames[q[i]]]
                      /\ loadedAt[frames[q[i]]] < now
    BY Zenon
  <2>1. queue'[i] = q[i] /\ q[i] \in Frames /\ q[i] # f /\ frames[q[i]] # None
    BY <1>1, Zenon
  <2>2. frames[q[i]] \in DOMAIN page_frame_table
    BY <2>1, Zenon DEF TraceInv, PTInv, TableInverse, Resident
  <2> QED
    BY <2>1, <2>2, Zenon DEF TraceInv, Times
<1>5. ASSUME NEW i \in 1..Len(queue'), NEW j \in 1..Len(queue'), i < j
      PROVE  loadedAt'[frames'[queue'[i]]] < loadedAt'[frames'[queue'[j]]]
  <2>1. i \in 1..Len(q)
    BY <1>1, <1>5
  <2>2. CASE j \in 1..Len(q)
    BY <1>4, <1>5, <2>1, <2>2, Zenon DEF InOrder
  <2>3. CASE j = Len(q) + 1
    BY <1>1, <1>4, <2>1, <2>3
  <2> QED
    BY <1>1, <2>2, <2>3
<1> QED
  BY <1>1, <1>3, <1>5, Zenon DEF FifoOrder

\* A hit does not move its frame: it is in the queue already.
LEMMA HitFifo ==
    ASSUME TraceInv, FifoInv, Advance, hit(traces[now])
    PROVE  FifoInv'
<1> DEFINE p == traces[now].page_no
           f == page_frame_table[p]
<1> SUFFICES ASSUME alg' = "fifo" PROVE queue' \in Seq(Frames) /\ FifoOrder'
  BY Zenon DEF FifoInv
<1>1. alg = "fifo" /\ Hit(traces[now].op, p) /\ queue' = FifoNext(f, FALSE)
  BY Zenon DEF Advance, hit, AlgorithmNext
<1>2. f \in Frames /\ f < new_frames_counter
  <2>1. p \in DOMAIN page_frame_table /\ p \in Pages
    BY <1>1, AccessType, Zenon DEF Hit, Resident, TraceInv
  <2>2. f \in Frames /\ frames[f] # None
    BY <2>1, PagesAssumption DEF TraceInv, PTInv, PTTypeOK, TableInverse
  <2> QED
    BY <2>2, Zenon DEF TraceInv, PTInv, PTTypeOK
<1>3. queue' = queue
  BY <1>1, <1>2, QueueHolds, Zenon DEF FifoNext, fifo_on_memory_access
<1>4. loadedAt' = loadedAt /\ frames' = frames /\ new_frames_counter' = new_frames_counter
  BY <1>1, HitTrace DEF Hit
<1> QED
  BY <1>1, <1>3, <1>4, Zenon DEF FifoInv, FifoOrder

\* The frame of a fault that finds an unused frame is put at the end.
LEMMA FillFifo ==
    ASSUME TraceInv, PTInv', FifoInv, Advance, fill(traces[now])
    PROVE  FifoInv'
<1> DEFINE p == traces[now].page_no
           f == new_frames_counter
<1> SUFFICES ASSUME alg' = "fifo" PROVE queue' \in Seq(Frames) /\ FifoOrder'
  BY Zenon DEF FifoInv
<1>1. alg = "fifo" /\ Fill(traces[now].op, p) /\ queue' = FifoNext(f, FALSE)
  BY Zenon DEF Advance, fill, AlgorithmNext
<1>2. f \in Frames /\ f \in Nat /\ new_frames_counter' = f + 1
  BY <1>1, FramesAssumption DEF TraceInv, PTInv, PTTypeOK, Fill, Frames
<1>3. /\ queue \in Seq(Frames) /\ Len(queue) \in Nat /\ InOrder(queue)
      /\ \A g \in Frames : Contains(queue, g) <=> g < f
  BY <1>1, QueueHolds, Zenon
<1>4. queue' = Append(queue, f)
  BY <1>1, <1>2, <1>3 DEF FifoNext, fifo_on_memory_access
<1>5. /\ frames' \in [Frames -> Pages \cup {None}] /\ frames'[f] = p
      /\ \A g \in Frames : g # f => frames'[g] = frames[g]
  BY <1>1, <1>2, Zenon DEF TraceInv, PTInv, PTTypeOK, Fill, Install
<1>6. /\ loadedAt'[p] = now
      /\ \A g \in Frames : g # f /\ frames[g] # None =>
           loadedAt'[frames[g]] = loadedAt[frames[g]]
  BY <1>1, <1>2, InstallTrace, Zenon DEF Fill
<1>7. \A i \in 1..Len(queue) : queue[i] # f /\ frames[queue[i]] # None
  <2> SUFFICES ASSUME NEW i \in 1..Len(queue)
               PROVE  queue[i] # f /\ frames[queue[i]] # None
    BY Zenon
  <2>1. queue[i] \in Frames /\ Contains(queue, queue[i])
    BY <1>3, ElementOfSeq, Zenon DEF Contains
  <2>2. queue[i] < f /\ queue[i] \in Int
    BY <1>3, <2>1, FramesAssumption DEF Frames
  <2>3. frames[queue[i]] # None
    BY <2>1, <2>2, Zenon DEF TraceInv, PTInv, PTTypeOK
  <2> QED
    BY <1>2, <2>2, <2>3
<1>8. \A g \in Frames : (g < new_frames_counter') <=> (g = f \/ Contains(queue, g))
  <2>1. \A g \in Frames : g \in Int
    BY FramesAssumption DEF Frames
  <2> QED
    BY <1>2, <1>3, <2>1
<1>9. loadedAt'[frames'[f]] = now
  BY <1>5, <1>6, Zenon
<1> HIDE DEF f, p
<1> QED
  BY <1>2, <1>3, <1>4, <1>5, <1>6, <1>7, <1>8, <1>9, AppendOrder, Zenon

\* The frame evicted is the head of the queue; it leaves the head, is nowhere
\* else in the queue, and goes to the end.
LEMMA EvictFifo ==
    ASSUME TraceInv, FifoInv, Advance, evict(traces[now]), alg = "fifo"
    PROVE  /\ FifoInv' /\ PTInv'
           /\ \E f \in Frames : Evict(traces[now].op, traces[now].page_no, f)
<1> DEFINE p == traces[now].page_no
           f == Head(queue)
           rest == Tail(queue)
<1>1. /\ new_frames_counter >= NFrames /\ ~ Resident(p)
      /\ Evict(traces[now].op, p, f) /\ queue' = FifoNext(f, TRUE)
  BY Zenon DEF evict, AlgorithmNext, Victim, FifoVictim
<1>2. /\ queue \in Seq(Frames) /\ Len(queue) \in Nat /\ InOrder(queue)
      /\ \A g \in Frames : Contains(queue, g) <=> g < new_frames_counter
  BY QueueHolds, Zenon
<1>3. /\ new_frames_counter = NFrames /\ new_frames_counter' = NFrames
      /\ \A g \in Frames : g < NFrames /\ g \in Int
      /\ 0 \in Frames
  BY <1>1, FramesAssumption DEF TraceInv, PTInv, PTTypeOK, Evict, Frames
<1>4. queue # <<>>
  <2>1. Contains(queue, 0)
    BY <1>2, <1>3, Zenon
  <2>2. Len(queue) # 0
    BY <2>1, <1>2 DEF Contains
  <2> QED
    BY <2>2
<1>5. /\ f \in Frames /\ f = queue[1] /\ rest \in Seq(Frames)
      /\ Len(rest) = Len(queue) - 1 /\ Len(queue) >= 1
      /\ \A i \in 1..Len(rest) : rest[i] = queue[i + 1] /\ i + 1 \in 1..Len(queue)
  <2>1. f \in Frames /\ rest \in Seq(Frames) /\ Len(rest) = Len(queue) - 1
    BY <1>2, <1>4, HeadTailProperties, Zenon
  <2>2. Len(queue) >= 1
    BY <1>2, <1>4, EmptySeq
  <2>3. \A i \in 1..Len(rest) : rest[i] = queue[i + 1]
    BY <1>2, <1>4, HeadTailProperties, Zenon
  <2>4. f = queue[1]
    BY <1>2, <1>4
  <2> QED
    BY <1>2, <2>1, <2>2, <2>3, <2>4
<1>6. p \in Pages /\ PTInv'
  BY <1>1, <1>5, AccessType, EvictKeeps, Zenon DEF TraceInv
<1>7. \A i \in 1..Len(rest) : rest[i] # f /\ rest[i] \in Frames /\ frames[rest[i]] # None
  <2> SUFFICES ASSUME NEW i \in 1..Len(rest)
               PROVE  rest[i] # f /\ rest[i] \in Frames /\ frames[rest[i]] # None
    BY Zenon
  <2>1. rest[i] \in Frames
    BY <1>5, ElementOfSeq, Zenon
  <2>2. frames[rest[i]] # None /\ frames[f] # None
    BY <1>3, <1>5, <2>1 DEF TraceInv, PTInv, PTTypeOK
  <2>3. loadedAt[frames[f]] < loadedAt[frames[rest[i]]]
    BY <1>2, <1>5 DEF InOrder
  <2>4. loadedAt[frames[f]] \in Nat
    BY <1>5, <2>2, Zenon DEF TraceInv, PTInv, PTTypeOK, TableInverse, Times, Resident
  <2> QED
    BY <2>1, <2>2, <2>3, <2>4
<1>8. queue' = Append(rest, f)
  BY <1>1, <1>7, Zenon DEF FifoNext, fifo_on_memory_access, Contains
<1>9. /\ frames' \in [Frames -> Pages \cup {None}] /\ frames'[f] = p
      /\ \A g \in Frames : g # f => frames'[g] = frames[g]
  BY <1>1, <1>5, <1>6, Zenon DEF TraceInv, PTInv, PTTypeOK, Evict, Install
<1>10. /\ loadedAt'[p] = now
       /\ \A g \in Frames : g # f /\ frames[g] # None =>
            loadedAt'[frames[g]] = loadedAt[frames[g]]
  BY <1>1, <1>5, <1>6, InstallTrace, Zenon DEF Evict
<1>11. InOrder(rest)
  BY <1>2, <1>5 DEF InOrder
<1>12. \A g \in Frames : (g < new_frames_counter') <=> (g = f \/ Contains(rest, g))
  <2> SUFFICES ASSUME NEW g \in Frames, g # f PROVE Contains(rest, g)
    BY <1>3, Zenon
  <2>1. PICK i \in 1..Len(queue) : queue[i] = g
    BY <1>2, <1>3, Zenon DEF Contains
  <2>2. i - 1 \in 1..Len(rest) /\ rest[i - 1] = g
    BY <1>2, <1>5, <2>1
  <2> QED
    BY <2>2, Zenon DEF Contains
<1>13. queue' \in Seq(Frames) /\ FifoOrder'
  <2>1. f \in Frames /\ rest \in Seq(Frames) /\ loadedAt'[frames'[f]] = now
    BY <1>5, <1>9, <1>10, Zenon
  <2>2. \A i \in 1..Len(rest) : rest[i] # f /\ frames[rest[i]] # None
    BY <1>7
  <2> HIDE DEF f, rest
  <2> QED
    BY <1>8, <1>9, <1>10, <1>11, <1>12, <2>1, <2>2, AppendOrder
<1> QED
  BY <1>1, <1>5, <1>6, <1>13, Zenon DEF FifoInv

-----------------------------------------------------------------------------
\* What every access but an eviction keeps, whichever algorithm runs, and an
\* eviction keeps if the frame it chose is one.
LEMMA StepTrace ==
    ASSUME TraceInv, Advance,
           hit(traces[now]) \/ fill(traces[now])
             \/ \E f \in Frames : Evict(traces[now].op, traces[now].page_no, f)
    PROVE  TraceInv'
<1> DEFINE op == traces[now].op
           p == traces[now].page_no
<1>1. p \in Pages /\ PTInv
  BY AccessType, Zenon DEF TraceInv
<1>2. CASE hit(traces[now])
  BY <1>2, HitTrace, Zenon DEF hit
<1>3. CASE fill(traces[now])
  <2>1. Fill(op, p) /\ new_frames_counter \in Frames
    BY <1>1, <1>3, FramesAssumption DEF fill, Fill, PTInv, PTTypeOK, Frames
  <2>2. PTInv'
    BY <1>1, <2>1, FillKeeps, Zenon
  <2> QED
    BY <2>1, <2>2, InstallTrace, Zenon DEF Fill
<1>4. ASSUME NEW f \in Frames, Evict(op, p, f) PROVE TraceInv'
  <2>1. PTInv'
    BY <1>1, <1>4, EvictKeeps
  <2> QED
    BY <1>4, <2>1, InstallTrace, Zenon DEF Evict
<1> QED
  BY <1>2, <1>3, <1>4, Zenon

\* An access of the fifo algorithm keeps the page table, the dirty bits and the
\* order of the queue.
LEMMA StepFifo ==
    ASSUME alg = "fifo" => TraceInv, FifoInv, [MCNext]_<<vars, loadedAt>>
    PROVE  (alg = "fifo" => TraceInv)' /\ FifoInv'
<1>1. CASE UNCHANGED <<vars, loadedAt>>
  BY <1>1 DEF vars, ptVars, TraceInv, PTInv, PTTypeOK, TableInverse, Times, DirtyExact,
              FifoInv, FifoOrder, Resident
<1>2. CASE MCNext
  <2>1. Advance /\ alg' = alg /\ (hit(traces[now]) \/ fill(traces[now]) \/ evict(traces[now]))
    BY <1>2, Zenon DEF MCNext, Next, Advance, Loaded
  <2>2. CASE alg # "fifo"
    BY <2>1, <2>2, Zenon DEF FifoInv
  <2>3. CASE alg = "fifo"
    <3>1. CASE evict(traces[now])
      BY <2>1, <2>3, <3>1, EvictFifo, StepTrace, Zenon
    <3>2. CASE hit(traces[now])
      BY <2>1, <2>3, <3>2, HitFifo, StepTrace, Zenon
    <3>3. CASE fill(traces[now])
      <4>1. TraceInv'
        BY <2>1, <2>3, <3>3, StepTrace
      <4> QED
        BY <2>1, <2>3, <3>3, <4>1, FillFifo, Zenon DEF TraceInv
    <3> QED
      BY <2>1, <3>1, <3>2, <3>3, Zenon
  <2> QED
    BY <2>2, <2>3, Zenon
<1> QED
  BY <1>1, <1>2, Zenon

\* Before the first access no page is in, no frame dirty and the queue empty.
LEMMA InitTrace == ASSUME MCInit PROVE TraceInv /\ FifoInv
<1>1. PTInv
  BY FramesAssumption DEF MCInit, Init, PTInit, PTInv, PTTypeOK, TableInverse, Frames, Resident
<1>2. Times
  <2>1. traces \in Seq(Access)
    BY InputsAssumption, Zenon DEF MCInit, Init, Access
  <2> QED
    BY <2>1 DEF MCInit, Init, PTInit, Times
<1>3. DirtyExact
  BY Zenon DEF MCInit, Init, PTInit, DirtyExact
<1>4. queue \in Seq(Frames) /\ FifoOrder
  <2>1. queue = <<>> /\ new_frames_counter = 0 /\ \A f \in Frames : ~(f < 0)
    BY FramesAssumption DEF MCInit, Init, PTInit, Frames
  <2>2. ToSet(queue) = {} /\ Len(queue) = 0 /\ queue \in Seq(Frames)
    BY <2>1 DEF ToSet
  <2> QED
    BY <2>1, <2>2 DEF FifoOrder
<1> QED
  BY <1>1, <1>2, <1>3, <1>4, Zenon DEF TraceInv, FifoInv

\* The queue from which the fifo algorithm takes its victims holds every used
\* frame, the one whose page came in first at its head.
THEOREM FifoCorrect == MCSpec => []FifoOrder
<1>1. MCInit => (alg = "fifo" => TraceInv) /\ FifoInv
  BY InitTrace, Zenon
<1>2. (alg = "fifo" => TraceInv) /\ FifoInv /\ [MCNext]_<<vars, loadedAt>>
        => (alg = "fifo" => TraceInv)' /\ FifoInv'
  BY StepFifo, Zenon
<1>3. FifoInv => FifoOrder
  BY DEF FifoInv, FifoOrder
<1> QED
  BY <1>1, <1>2, <1>3, PTL DEF MCSpec

\* Under the fifo algorithm the page table is as it should be, and an eviction
\* writes back exactly the frames that were stored to since they were filled.
THEOREM FifoDirty == MCSpec => [](alg = "fifo" => PTTypeOK /\ TableInverse /\ DirtyExact)
<1>1. MCInit => (alg = "fifo" => TraceInv) /\ FifoInv
  BY InitTrace, Zenon
<1>2. (alg = "fifo" => TraceInv) /\ FifoInv /\ [MCNext]_<<vars, loadedAt>>
        => (alg = "fifo" => TraceInv)' /\ FifoInv'
  BY StepFifo, Zenon
<1>3. (alg = "fifo" => TraceInv) => (alg = "fifo" => PTTypeOK /\ TableInverse /\ DirtyExact)
  BY DEF TraceInv, PTInv
<1> QED
  BY <1>1, <1>2, <1>3, PTL DEF MCSpec

\* Whichever algorithm chooses the victims, as long as they are frames (which is
\* what PTTypeOK says of the dictionary after an eviction), the dirty bits are
\* exactly the stores since the page came in.
THEOREM DirtyCorrect == MCSpec /\ []PTTypeOK => []DirtyExact
<1>1. MCInit => TraceInv
  BY InitTrace, Zenon
<1>2. TraceInv /\ PTTypeOK' /\ [MCNext]_<<vars, loadedAt>> => TraceInv'
  <2>1. CASE UNCHANGED <<vars, loadedAt>>
    BY <2>1 DEF vars, ptVars, TraceInv, PTInv, PTTypeOK, TableInverse, Times, DirtyExact,
                Resident
  <2>2. ASSUME TraceInv, PTTypeOK', MCNext PROVE TraceInv'
    <3>1. Advance /\ (hit(traces[now]) \/ fill(traces[now]) \/ evict(traces[now]))
      BY <2>2, Zenon DEF MCNext, Next, Advance, Loaded
    <3>2. ASSUME evict(traces[now])
          PROVE  \E f \in Frames : Evict(traces[now].op, traces[now].page_no, f)
      <4> DEFINE f == Victim(traces[now])
      <4>1. Evict(traces[now].op, traces[now].page_no, f)
        BY <3>2, Zenon DEF evict
      <4>2. /\ traces[now].page_no \in DOMAIN page_frame_table'
            /\ page_frame_table'[traces[now].page_no] = f
        BY <4>1, Zenon DEF Evict, Install
      <4>3. f \in Frames
        BY <2>2, <4>2, Zenon DEF PTTypeOK
      <4> QED
        BY <4>1, <4>3, Zenon
    <3> QED
      BY <2>2, <3>1, <3>2, StepTrace, Zenon
  <2> QED
    BY <2>1, <2>2, Zenon
<1>3. TraceInv => DirtyExact
  BY DEF TraceInv
<1> QED
  BY <1>1, <1>2, <1>3, PTL DEF MCSpec

\* Whatever frames the replacement algorithm evicts, the frames fill in order
\* and the dictionary maps pages of the trace to frames of the table.
THEOREM TableTypes == PTSpec => []PTTypeOK
<1>1. PTTypeOK /\ TableInverse => PTTypeOK
  OBVIOUS
<1> QED
  BY <1>1, TableCorrect, PTL
=============================================================================
