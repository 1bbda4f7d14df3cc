----------------------------- MODULE PageTable ------------------------------
(***************************************************************************)
(* The page table of proj3/vmsim: the part every replacement algorithm     *)
(* shares.  A step is one memory access; which frame is evicted is left    *)
(* open (victim), VmSim fills it in.  A frame's entry is spread over       *)
(* frames (its page_no) and dirty (the frames whose dirty_bit is set); the *)
(* bits only the aging algorithm reads are in VmSim.                       *)
(*                                                                         *)
(* InstallKeeps..., FillOneMore and EvictCountsStores are mutated forms of *)
(* the operators they precede, used to see that a property can fail.       *)
(***************************************************************************)
EXTENDS Integers, FiniteSets

CONSTANTS NFrames,    \* -n
          Pages,      \* the page numbers of the trace
          None

ASSUME FramesAssumption == NFrames \in Nat \ {0}
ASSUME PagesAssumption == None \notin Pages

Frames == 0..NFrames - 1

VARIABLES frames, dirty, page_frame_table, new_frames_counter,
          total_memory_accesses, total_page_faults, total_writes_to_disk

ptVars == <<frames, dirty, page_frame_table, new_frames_counter,
            total_memory_accesses, total_page_faults, total_writes_to_disk>>

Resident(p) == p \in DOMAIN page_frame_table

PTInit ==
    /\ frames = [f \in Frames |-> None]
    /\ dirty = {}
    /\ page_frame_table = [p \in {} |-> 0]
    /\ new_frames_counter = 0
    /\ total_memory_accesses = 0
    /\ total_page_faults = 0
    /\ total_writes_to_disk = 0

\* A store sets the dirty bit of the frame find_frame returned.
Touch(op, f, clean) == dirty' = IF op = "S" THEN clean \cup {f} ELSE clean

Hit(op, p) ==
    /\ Resident(p)
    /\ Touch(op, page_frame_table[p], dirty)
    /\ total_memory_accesses' = total_memory_accesses + 1
    /\ UNCHANGED <<frames, page_frame_table, new_frames_counter,
                   total_page_faults, total_writes_to_disk>>

InstallKeepsOldPage(op, p, f) ==
    /\ frames' = [frames EXCEPT ![f] = p]
    /\ page_frame_table' = [q \in DOMAIN page_frame_table \cup {p} |->
                              IF q = p THEN f ELSE page_frame_table[q]]
    /\ Touch(op, f, dirty \ {f})
    /\ total_memory_accesses' = total_memory_accesses + 1
    /\ total_page_faults' = total_page_faults + 1

InstallKeepsDirty(op, p, f) ==
    /\ frames' = [frames EXCEPT ![f] = p]
    /\ page_frame_table' =
         [q \in (DOMAIN page_frame_table \ {frames[f]}) \cup {p} |->
            IF q = p THEN f ELSE page_frame_table[q]]
    /\ Touch(op, f, dirty)
    /\ total_memory_accesses' = total_memory_accesses + 1
    /\ total_page_faults' = total_page_faults + 1

\* A fault puts a fresh, clean entry for p into frame f, and p into the
\* dictionary in place of the page that was in f, if any.
Install(op, p, f) ==
    /\ frames' = [frames EXCEPT ![f] = p]
    /\ page_frame_table' =
         [q \in (DOMAIN page_frame_table \ {frames[f]}) \cup {p} |->
            IF q = p THEN f ELSE page_frame_table[q]]
    /\ Touch(op, f, dirty \ {f})
    /\ total_memory_accesses' = total_memory_accesses + 1
    /\ total_page_faults' = total_page_faults + 1

FillOneMore(op, p) ==
    /\ ~ Resident(p)
    /\ new_frames_counter <= NFrames
    /\ Install(op, p, IF new_frames_counter < NFrames THEN new_frames_counter ELSE 0)
    /\ new_frames_counter' = new_frames_counter + 1
    /\ UNCHANGED total_writes_to_disk

Fill(op, p) ==
    /\ ~ Resident(p)
    /\ new_frames_counter < NFrames
    /\ Install(op, p, new_frames_counter)
    /\ new_frames_counter' = new_frames_counter + 1
    /\ UNCHANGED total_writes_to_disk

EvictCountsStores(op, p, victim) ==
    /\ ~ Resident(p)
    /\ new_frames_counter >= NFrames
    /\ Install(op, p, victim)
    /\ total_writes_to_disk' = total_writes_to_disk + (IF victim \in dirty THEN 1 ELSE 0)
                                                  + (IF op = "S" THEN 1 ELSE 0)
    /\ UNCHANGED new_frames_counter

Evict(op, p, victim) ==
    /\ ~ Resident(p)
    /\ new_frames_counter >= NFrames
    /\ Install(op, p, victim)
    /\ total_writes_to_disk' = total_writes_to_disk + (IF victim \in dirty THEN 1 ELSE 0)
    /\ UNCHANGED new_frames_counter

PTNext ==
    \E op \in {"L", "S"}, p \in Pages :
        \/ Hit(op, p)
        \/ Fill(op, p)
        \/ \E victim \in Frames : Evict(op, p, victim)

PTSpec == PTInit /\ [][PTNext]_ptVars

-----------------------------------------------------------------------------
\* The variables have their types; the frames are filled in order.
PTTypeOK ==
    /\ new_frames_counter \in 0..NFrames
    /\ frames \in [Frames -> Pages \cup {None}]
    /\ \A f \in Frames : frames[f] # None <=> f < new_frames_counter
    /\ dirty \subseteq {f \in Frames : f < new_frames_counter}
    /\ DOMAIN page_frame_table \subseteq Pages
    /\ \A p \in DOMAIN page_frame_table : page_frame_table[p] \in Frames
    /\ total_memory_accesses \in Nat
    /\ total_page_faults \in Nat
    /\ total_writes_to_disk \in Nat

\* The dictionary that find_frame looks pages up in and the frames it scans say
\* the same: each page of the dictionary is in the frame it maps to, and the
\* page of each frame is in the dictionary under that frame.  So no page is in
\* two frames, and an evicted page is no longer found.
TableInverse ==
    /\ \A p \in DOMAIN page_frame_table : frames[page_frame_table[p]] = p
    /\ \A f \in Frames : frames[f] # None =>
         Resident(frames[f]) /\ page_frame_table[frames[f]] = f

\* The statistics agree with each other: a page is written back at most once per
\* eviction (a fault that found no unused frame), and a fault is an access.
StatsConsistent ==
    /\ total_writes_to_disk + new_frames_counter <= total_page_faults
    /\ total_page_faults <= total_memory_accesses
=============================================================================
