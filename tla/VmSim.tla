------------------------------- MODULE VmSim --------------------------------
(***************************************************************************)
(* proj3/vmsim: a trace of loads and stores run through the page table of  *)
(* PageTable with one of the replacement algorithms fifo, opt and aging.   *)
(* A step is one iteration of the loop over the trace.                     *)
(*                                                                         *)
(* FifoKeepsHead, OptVictimSoonest and AgingVictimLast are mutated forms   *)
(* of the operators they precede, used to see that a property can fail.    *)
(***************************************************************************)
EXTENDS PageTable, SequencesExt

CONSTANTS Inputs,       \* the algorithms (-a) and trace files it is run on
          MaxTrace,     \* longest trace
          RefreshRate   \* -r

ASSUME InputsAssumption ==
    /\ MaxTrace \in Nat /\ Pages \subseteq Nat /\ RefreshRate \in Nat \ {0}
    /\ \A in \in Inputs :
         /\ in.alg \in {"fifo", "opt", "aging"}
         /\ in.trace \in Seq([op : {"L", "S"}, page_no : Pages, cycles : Nat])
         /\ Len(in.trace) <= MaxTrace

AGING_COUNTER_START_VALUE == 128

Infinity == MaxTrace + 1

VARIABLES
    alg,                    \* -a
    traces, now,            \* the trace and the position of the next access
    queue,                  \* fifo: frames in the order they were filled
    trace_map,              \* opt: the coming accesses of each page
    aging_counter, referenced, cycles_since_refresh, first_trace    \* aging

agingVars == <<aging_counter, referenced, cycles_since_refresh, first_trace>>
vars == <<ptVars, alg, traces, now, queue, trace_map, agingVars>>

-----------------------------------------------------------------------------
(***************************************************************************)
(* FIFO.                                                                   *)
(***************************************************************************)
FifoVictim == Head(queue)

fifo_on_memory_access(q, f) == IF Contains(q, f) THEN q ELSE Append(q, f)

FifoKeepsHead(f, evicting) == fifo_on_memory_access(queue, f)

FifoNext(f, evicting) == fifo_on_memory_access(IF evicting THEN Tail(queue) ELSE queue, f)

-----------------------------------------------------------------------------
(***************************************************************************)
(* Optimal.  The lists of trace_map are kept in the order of the trace; a  *)
(* page without coming accesses gets an infinite one when it is looked at. *)
(***************************************************************************)
AccessesOf(p) == SelectSeq([i \in 1..Len(traces) |-> i], LAMBDA i : traces[i].page_no = p)

Looked(p) == IF trace_map[p] = <<>> THEN <<Infinity>> ELSE trace_map[p]

OptVictimSoonest ==
    LET scan(best, f) ==
          LET time == Head(Looked(frames[f]))
              tie  == best.time = time /\ best.frame \in dirty /\ f \notin dirty
          IN  IF time < best.time \/ tie THEN [time |-> time, frame |-> f] ELSE best
    IN  FoldLeft(scan, [time |-> Infinity + 1, frame |-> -1], [i \in 1..NFrames |-> i - 1]).frame

OptVictim ==
    LET scan(best, f) ==
          LET time == Head(Looked(frames[f]))
              tie  == best.time = time /\ best.frame \in dirty /\ f \notin dirty
          IN  IF time > best.time \/ tie THEN [time |-> time, frame |-> f] ELSE best
    IN  FoldLeft(scan, [time |-> -1, frame |-> -1], [i \in 1..NFrames |-> i - 1]).frame

\* find_frame looks at every resident page, on_memory_access drops this access.
OptNext(p, evicting) ==
    LET map == [q \in Pages |->
                  IF evicting /\ Resident(q) THEN Looked(q) ELSE trace_map[q]]
    IN  [map EXCEPT ![p] = IF @ = <<>> THEN @ ELSE Tail(@)]

-----------------------------------------------------------------------------
(***************************************************************************)
(* Aging.  counter and refd are the counters and referenced bits after the *)
(* refreshes that are due at this access.                                  *)
(***************************************************************************)
Elapsed(acc) == cycles_since_refresh + acc.cycles + (IF first_trace THEN 0 ELSE 1)

refreshTimes(acc) == Elapsed(acc) \div RefreshRate

Refresh(counter, refd) ==
    [f \in Frames |-> (counter[f] \div 2) + (IF f \in refd THEN AGING_COUNTER_START_VALUE ELSE 0)]

Refreshed(times) ==
    LET after[n \in Nat] ==
          IF n = 0 THEN aging_counter
                   ELSE Refresh(after[n - 1], IF n = 1 THEN referenced ELSE {})
    IN  after[times]

AgingVictimLast(counter) ==
    LET scan(best, f) ==
          IF counter[f] <= best.counter
          THEN [counter |-> counter[f], frame |-> f] ELSE best
    IN  FoldLeft(scan, [counter |-> 256, frame |-> -1], [i \in 1..NFrames |-> i - 1]).frame

AgingVictim(counter) ==
    LET scan(best, f) ==
          LET tie == /\ counter[f] = best.counter
                     /\ \/ best.frame \in dirty /\ f \notin dirty
                        \/ /\ best.frame \in dirty <=> f \in dirty
                           /\ frames[f] < frames[best.frame]
          IN  IF counter[f] < best.counter \/ tie
              THEN [counter |-> counter[f], frame |-> f] ELSE best
    IN  FoldLeft(scan, [counter |-> 256, frame |-> -1], [i \in 1..NFrames |-> i - 1]).frame

\* attempt_refresh, then the bits of the frame the access hit or was given.
AgingNext(acc, hit, f) ==
    LET counter == Refreshed(refreshTimes(acc))
        refd    == IF refreshTimes(acc) > 0 THEN {} ELSE referenced
    IN  /\ aging_counter' = IF hit THEN counter
                                   ELSE [counter EXCEPT ![f] = AGING_COUNTER_START_VALUE]
        /\ referenced' = IF hit THEN refd \cup {f} ELSE refd \ {f}
        /\ cycles_since_refresh' = Elapsed(acc) % RefreshRate
        /\ first_trace' = FALSE

-----------------------------------------------------------------------------
Victim(acc) ==
    CASE alg = "fifo"  -> FifoVictim
      [] alg = "opt"   -> OptVictim
      [] alg = "aging" -> AgingVictim(Refreshed(refreshTimes(acc)))

\* What the algorithm does around an access that ends up in frame f.
AlgorithmNext(acc, f, evicting) ==
    \/ /\ alg = "fifo"
       /\ queue' = FifoNext(f, evicting)
       /\ UNCHANGED <<trace_map, agingVars>>
    \/ /\ alg = "opt"
       /\ trace_map' = OptNext(acc.page_no, evicting)
       /\ UNCHANGED <<queue, agingVars>>
    \/ /\ alg = "aging"
       /\ AgingNext(acc, Resident(acc.page_no), f)
       /\ UNCHANGED <<queue, trace_map>>

hit(acc) ==
    /\ Hit(acc.op, acc.page_no)
    /\ AlgorithmNext(acc, page_frame_table[acc.page_no], FALSE)

fill(acc) ==
    /\ Fill(acc.op, acc.page_no)
    /\ AlgorithmNext(acc, new_frames_counter, FALSE)

evict(acc) ==
    /\ ~ Resident(acc.page_no) /\ new_frames_counter >= NFrames
    /\ LET victim == Victim(acc) IN
         /\ Evict(acc.op, acc.page_no, victim)
         /\ AlgorithmNext(acc, victim, TRUE)

Init ==
    /\ PTInit
    /\ \E in \in Inputs : alg = in.alg /\ traces = in.trace
    /\ now = 1
    /\ queue = <<>>
    /\ trace_map = [p \in Pages |-> AccessesOf(p)]
    /\ aging_counter = [f \in Frames |-> 0]
    /\ referenced = {}
    /\ cycles_since_refresh = 0
    /\ first_trace = TRUE

Next ==
    /\ now <= Len(traces)
    /\ now' = now + 1
    /\ UNCHANGED <<alg, traces>>
    /\ LET acc == traces[now] IN hit(acc) \/ fill(acc) \/ evict(acc)

Spec == Init /\ [][Next]_vars
=============================================================================
