------------------------------ MODULE MCVmSim -------------------------------
(***************************************************************************)
(* VmSim for TLC: every trace up to a length over the given pages, with a  *)
(* history variable for when each page was last brought into memory.       *)
(***************************************************************************)
EXTENDS VmSim

CONSTANTS MaxAgingTrace,    \* aging traces also vary in their cycles
          Cycles

Traces(n, cycles) == [1..n -> [op : {"L", "S"}, page_no : Pages, cycles : cycles]]

MCInputs ==
         [alg : {"fifo"}, trace : Traces(MaxTrace, {0})]
    \cup [alg : {"opt"}, trace : UNION {Traces(n, {0}) : n \in 0..MaxTrace}]
    \cup [alg : {"aging"}, trace : Traces(MaxAgingTrace, Cycles)]

VARIABLE loadedAt

MCInit == Init /\ loadedAt = [p \in Pages |-> 0]

MCNext ==
    /\ Next
    /\ loadedAt' = [p \in Pages |->
                      IF ~ Resident(p) /\ Resident(p)' THEN now ELSE loadedAt[p]]

MCSpec == MCInit /\ [][MCNext]_<<vars, loadedAt>>

-----------------------------------------------------------------------------
\* The queue of the fifo algorithm holds every used frame once, the one whose
\* page came in first at its head: hits do not move a frame, evictions reuse it.
FifoOrder ==
    alg = "fifo" =>
        /\ ToSet(queue) = {f \in Frames : f < new_frames_counter}
        /\ \A i, j \in 1..Len(queue) :
             i < j => loadedAt[frames[queue[i]]] < loadedAt[frames[queue[j]]]

\* A frame is dirty if and only if its page was stored to since it was brought
\* in, so an eviction writes back what would be lost and nothing else.
DirtyExact ==
    \A f \in Frames :
        f \in dirty <=>
            /\ frames[f] # None
            /\ \E i \in loadedAt[frames[f]]..now - 1 :
                 traces[i].page_no = frames[f] /\ traces[i].op = "S"

\* The fewest faults any choice of victims has from position i on, with the
\* pages in mem resident.
MinFaults[i \in 1..MaxTrace + 1, mem \in SUBSET Pages] ==
    IF i > Len(traces) THEN 0
    ELSE LET p == traces[i].page_no IN
         IF p \in mem THEN MinFaults[i + 1, mem]
         ELSE IF Cardinality(mem) < NFrames THEN 1 + MinFaults[i + 1, mem \cup {p}]
         ELSE 1 + Min({MinFaults[i + 1, (mem \ {v}) \cup {p}] : v \in mem})

\* The opt algorithm is optimal: at no point of the trace has it had more faults
\* than lets the rest be done with the fewest faults any algorithm could have.
OptIsOptimal ==
    alg = "opt" =>
        total_page_faults + MinFaults[now, DOMAIN page_frame_table] = MinFaults[1, {}]

\* The page the aging algorithm evicts has the lowest counter, is clean unless
\* all of those are dirty, and has the lowest page number of those that remain:
\* what the comment on find_frame says its single scan of the frames chooses.
AgingEvictsLeast ==
    [][ alg = "aging" =>
          LET counter == Refreshed(refreshTimes(traces[now]))
              Better(f, g) ==
                \/ counter[f] < counter[g]
                \/ /\ counter[f] = counter[g]
                   /\ \/ f \notin dirty /\ g \in dirty
                      \/ (f \in dirty <=> g \in dirty) /\ frames[f] < frames[g]
          IN  \A v, f \in Frames :
                frames[v] \notin {None, frames'[v]} /\ f # v => Better(v, f)
      ]_vars
=============================================================================
