----------------------------- MODULE AtomicDisk -----------------------------
(***************************************************************************)
(* What log.c promises the file system: a disk on which groups of system   *)
(* calls take effect as a whole.  Writes go to a volatile image; a commit, *)
(* possible only when no system call is under way, makes the image         *)
(* durable; a crash falls back to the last commit.  The promise is for     *)
(* groups of calls that write no more blocks than fit.                     *)
(***************************************************************************)
CONSTANTS
    Blocks, Vals, Ops, FirstImage,
    Fits            \* the sets of blocks that may be committed together

VARIABLES
    durable,        \* what a reboot finds
    current,        \* what system calls read and write
    active,         \* the system calls under way
    pending,        \* the blocks written since the last commit
    intact          \* the promise holds

vars == <<durable, current, active, pending, intact>>

Init ==
    /\ durable = FirstImage /\ current = FirstImage
    /\ active = {} /\ pending = {} /\ intact = TRUE

Begin(t) ==
    /\ t \notin active /\ active' = active \cup {t}
    /\ UNCHANGED <<durable, current, pending, intact>>

Write(t, b, v) ==
    /\ t \in active
    /\ current' = [current EXCEPT ![b] = v] /\ pending' = pending \cup {b}
    /\ UNCHANGED <<durable, active, intact>>

End(t) ==
    /\ t \in active /\ active' = active \ {t}
    /\ UNCHANGED <<durable, current, pending, intact>>

Commit ==
    /\ active = {} /\ durable' = current /\ pending' = {}
    /\ UNCHANGED <<current, active, intact>>

Crash ==
    /\ current' = durable /\ active' = {} /\ pending' = {}
    /\ UNCHANGED <<durable, intact>>

\* The commit of too large a group; the promise is void from then on.
Break == active = {} /\ pending \notin Fits /\ intact' = FALSE

Void == ~intact /\ intact' = FALSE

Next ==
    \/ /\ intact
       /\ \/ \E t \in Ops : Begin(t) \/ End(t) \/ \E b \in Blocks, v \in Vals : Write(t, b, v)
          \/ Commit \/ Crash \/ Break
    \/ Void

Spec == Init /\ [][Next]_vars
=============================================================================
