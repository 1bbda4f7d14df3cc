--------------------------- MODULE Xv6ProcProofs ----------------------------
(***************************************************************************)
(* Proofs about Xv6Proc, for any number of slots, CPUs and process ids.    *)
(***************************************************************************)
EXTENDS Xv6Proc, WellFoundedInduction, TLAPS

States == {"UNUSED", "EMBRYO", "RUNNABLE", "RUNNING", "SLEEPING", "ZOMBIE"}
PCs == {"forkret", "user", "fork", "wait", "napping", "sleep", "slept", "exit"}

ProcRec == [state : States, pid : Nat, parent : Slots \cup {None},
            chan : Slots \cup {None, TicksChan}, killed : BOOLEAN, priority : Int]

\* What cpu holds, with some set M of values for max_priority: which values
\* they are is part of the second invariant.
CpuOf(M) == [CPUs -> [proc : Slots \cup {None}, max_priority : M, p : Slots \cup {0}]]
CpuType == \E M : cpu \in CpuOf(M)

\* Types, of what the argument is about.
Types ==
    /\ proc \in [Slots -> ProcRec]
    /\ pc \in [Slots -> PCs]
    /\ np \in [Slots -> Slots \cup {None}]
    /\ CpuType
    /\ nextpid \in Nat

\* The slots of forks in progress are EMBRYOs, each of one fork.
Forking ==
    \A s \in Slots : pc[s] = "fork" =>
      /\ np[s] \in Slots /\ proc[np[s]].state = "EMBRYO"
      /\ \A t \in Slots : pc[t] = "fork" /\ np[t] = np[s] => t = s

\* init has no parent and never goes.
InitLives == proc[initproc].state \in Alive /\ proc[initproc].parent = None

\* The inductive invariant.
IInv == Types /\ RunningExclusive /\ Forking /\ InitLives /\ ParentAlive

-----------------------------------------------------------------------------
\* userinit.
LEMMA InitIInv == Init => IInv
  <1> SUFFICES ASSUME Init PROVE IInv
    OBVIOUS
  <1>1. Types
    <2>1. proc \in [Slots -> ProcRec]
      BY DEF Init, Slot, ProcRec, States, None, DefaultPriority
    <2>2. pc \in [Slots -> PCs] /\ np \in [Slots -> Slots \cup {None}] /\ nextpid \in Nat
      BY DEF Init, PCs
    <2>3. cpu \in CpuOf({Worst})
      BY DEF Init, CpuOf
    <2>4. CpuType
      BY <2>3, Zenon DEF CpuType
    <2> QED
      BY <2>1, <2>2, <2>4, Zenon DEF Types
  <1>2. \A s \in Slots : IF s = initproc THEN proc[s].state = "RUNNABLE" /\ proc[s].parent = None
                         ELSE proc[s].state = "UNUSED" /\ proc[s].parent = None
    BY DEF Init, Slot
  <1>3. initproc \in Slots
    BY SlotsAssumption DEF Slots, initproc
  <1>4. RunningExclusive
    BY <1>2 DEF Init, RunningExclusive, Slots, None
  <1>5. Forking /\ InitLives /\ ParentAlive
    BY <1>2, <1>3 DEF Init, Forking, InitLives, ParentAlive, Alive
  <1> QED
    BY <1>1, <1>4, <1>5 DEF IInv

-----------------------------------------------------------------------------
\* What a step may do without disturbing each part of the invariant

\* Forks in progress keep their EMBRYO while no step touches one.
LEMMA ForkingKept ==
    ASSUME IInv,
           \A t \in Slots : pc'[t] = "fork" => pc[t] = "fork" /\ np'[t] = np[t],
           \A t \in Slots : proc[t].state = "EMBRYO" => proc'[t].state = "EMBRYO"
    PROVE  Forking'
  BY DEF IInv, Forking

\* Parents stay alive while nobody dies, is born, or changes parents.
LEMMA ParentsKept ==
    ASSUME IInv,
           \A t \in Slots : /\ proc'[t].parent = proc[t].parent
                            /\ proc'[t].state \in Alive <=> proc[t].state \in Alive
                            /\ proc'[t].state \in {"UNUSED", "EMBRYO"}
                               <=> proc[t].state \in {"UNUSED", "EMBRYO"}
    PROVE  ParentAlive' /\ InitLives'
  <1>1. initproc \in Slots
    BY SlotsAssumption DEF Slots, initproc
  <1> QED
    BY <1>1 DEF IInv, ParentAlive, InitLives

\* The CPUs keep their processes.
LEMMA RunningKept ==
    ASSUME IInv,
           \A d \in CPUs : cpu'[d].proc = cpu[d].proc,
           \A t \in Slots : proc'[t].state = "RUNNING" <=> proc[t].state = "RUNNING"
    PROVE  RunningExclusive'
  BY DEF IInv, RunningExclusive

\* CPU c goes back to its scheduler, and its process out of RUNNING.
LEMMA RunningLeaves ==
    ASSUME IInv, NEW c \in CPUs, NEW s \in Slots, cpu[c].proc = s,
           \A d \in CPUs : cpu'[d].proc = IF d = c THEN None ELSE cpu[d].proc,
           \A t \in Slots : proc'[t].state = "RUNNING" <=> proc[t].state = "RUNNING" /\ t # s
    PROVE  RunningExclusive'
  BY DEF IInv, RunningExclusive, Slots, None

\* CPU c gets process s, and its scheduler will go on from there.
LEMMA CpuGets ==
    ASSUME IInv, NEW c \in CPUs, NEW s \in Slots,
           cpu' = [cpu EXCEPT ![c].proc = s, ![c].p = s]
    PROVE  CpuType' /\ \A d \in CPUs : cpu'[d].proc = IF d = c THEN s ELSE cpu[d].proc
  <1>1. PICK M : cpu \in CpuOf(M)
    BY DEF IInv, Types, CpuType
  <1>2. cpu' \in CpuOf(M) /\ \A d \in CPUs : cpu'[d].proc = IF d = c THEN s ELSE cpu[d].proc
    BY <1>1, Zenon DEF CpuOf
  <1> QED
    BY <1>2, Zenon DEF CpuType

\* sched(): CPU c goes back to its scheduler.
LEMMA CpuLeaves ==
    ASSUME IInv, NEW c \in CPUs, sched(c)
    PROVE  CpuType' /\ \A d \in CPUs : cpu'[d].proc = IF d = c THEN None ELSE cpu[d].proc
  <1>1. PICK M : cpu \in CpuOf(M)
    BY Zenon DEF IInv, Types, CpuType
  <1>2. cpu' \in CpuOf(M) /\ \A d \in CPUs : cpu'[d].proc = IF d = c THEN None ELSE cpu[d].proc
    BY <1>1 DEF CpuOf, sched
  <1> QED
    BY <1>2 DEF CpuType

\* A process on a CPU is RUNNING.
LEMMA OnCpu == ASSUME IInv, NEW c \in CPUs, NEW s \in Slots, cpu[c].proc = s
               PROVE  proc[s].state = "RUNNING"
  BY Zenon DEF IInv, RunningExclusive

-----------------------------------------------------------------------------
\* The scheduler takes and releases ptable.lock.
LEMMA SchedulerIInv == ASSUME NEW c \in CPUs, IInv, scheduler(c) \/ EndPass(c) PROVE IInv'
  <1>1. PICK m : cpu' = [cpu EXCEPT ![c].max_priority = m, ![c].p = 0]
    BY Zenon DEF scheduler, EndPass
  <1>2. PICK M : cpu \in CpuOf(M)
    BY Zenon DEF IInv, Types, CpuType
  <1>3. cpu' \in CpuOf(M \cup {m}) /\ \A d \in CPUs : cpu'[d].proc = cpu[d].proc
    BY <1>1, <1>2, Zenon DEF CpuOf
  <1>4. CpuType'
    BY <1>3, Zenon DEF CpuType
  <1>5. UNCHANGED <<proc, pc, np, nextpid>>
    BY Zenon DEF scheduler, EndPass
  <1> QED
    BY <1>3, <1>4, <1>5 DEF IInv, Types, RunningExclusive, Forking, InitLives, ParentAlive

\* The scheduler starts a RUNNABLE process, which no CPU runs.
LEMMA SwitchIInv == ASSUME NEW c \in CPUs, IInv, Switch(c) PROVE IInv'
  <1>1. PICK s \in Ahead(c) : proc' = [proc EXCEPT ![s].state = "RUNNING"]
                              /\ cpu' = [cpu EXCEPT ![c].proc = s, ![c].p = s]
    BY Zenon DEF Switch
  <1>2. s \in Slots /\ proc[s].state = "RUNNABLE" /\ cpu[c].proc = None
    BY Zenon DEF Ahead, Runnable, Switch
  <1>3. Types'
    <2>1. proc' \in [Slots -> ProcRec]
      BY <1>1, <1>2 DEF IInv, Types, ProcRec, States
    <2>2. CpuType'
      BY <1>1, <1>2, CpuGets, Zenon
    <2> QED
      BY <2>1, <2>2, Zenon DEF IInv, Types, Switch
  <1>4. \A d \in CPUs : cpu'[d].proc = IF d = c THEN s ELSE cpu[d].proc
    BY <1>1, <1>2, CpuGets, Zenon
  <1>5. \A t \in Slots : /\ proc'[t].state = (IF t = s THEN "RUNNING" ELSE proc[t].state)
                         /\ proc'[t].parent = proc[t].parent
    BY <1>1, <1>2, Zenon DEF IInv, Types, ProcRec
  <1>6. RunningExclusive'
    BY <1>2, <1>4, <1>5 DEF IInv, RunningExclusive, Slots, None
  <1>7. Forking'
    BY <1>2, <1>5, ForkingKept, Zenon DEF Switch
  <1>8. ParentAlive' /\ InitLives'
    BY <1>2, <1>5, ParentsKept DEF Alive
  <1> QED
    BY <1>3, <1>6, <1>7, <1>8 DEF IInv

\* A process picks up after its sched(): only chan and where it is change.
LEMMA ResumeIInv == ASSUME NEW c \in CPUs, IInv, Resume(c) PROVE IInv'
  <1> DEFINE s == cpu[c].proc
  <1>1. s \in Slots
    BY Zenon DEF IInv, Types, CpuType, CpuOf, Resume
  <1>2. \A t \in Slots : proc'[t].state = proc[t].state /\ proc'[t].parent = proc[t].parent
    BY <1>1, Zenon DEF IInv, Types, ProcRec, Resume
  <1>3. pc' \in [Slots -> PCs] /\ \A t \in Slots : pc'[t] = "fork" => pc[t] = "fork"
    BY <1>1, Zenon DEF IInv, Types, PCs, Resume, Return
  <1>4. Types'
    <2>1. proc' \in [Slots -> ProcRec]
      BY <1>1 DEF IInv, Types, ProcRec, Resume
    <2>2. cpu' = cpu /\ np' = np /\ nextpid' = nextpid
      BY DEF Resume
    <2>3. CpuType'
      BY <2>2, Zenon DEF IInv, Types, CpuType, CpuOf
    <2> QED
      BY <1>3, <2>1, <2>2, <2>3, Zenon DEF IInv, Types
  <1>5. RunningExclusive'
    BY <1>2, RunningKept, Zenon DEF Resume
  <1>6. Forking'
    BY <1>2, <1>3, ForkingKept, Zenon DEF Resume
  <1>7. ParentAlive' /\ InitLives'
    BY <1>2, ParentsKept
  <1> QED
    BY <1>4, <1>5, <1>6, <1>7, Zenon DEF IInv

\* sys_sleep's test of the while condition, first and again.
LEMMA NapIInv == ASSUME NEW c \in CPUs, IInv, NapAgain(c) \/ \E n \in Naps : sys_sleep(c, n)
                 PROVE  IInv'
  <1>1. UNCHANGED <<proc, np, cpu, nextpid>>
    BY Zenon DEF NapAgain, sys_sleep
  <1>2. pc' \in [Slots -> PCs] /\ \A t \in Slots : pc'[t] = "fork" => pc[t] = "fork"
    BY DEF IInv, Types, PCs, NapAgain, sys_sleep, NapTest, Return, Users
  <1>3. Types'
    BY <1>1, <1>2, Zenon DEF IInv, Types, CpuType
  <1>4. RunningExclusive' /\ ParentAlive' /\ InitLives'
    BY <1>1, Zenon DEF IInv, RunningExclusive, ParentAlive, InitLives
  <1>5. Forking'
    BY <1>1, <1>2, ForkingKept
  <1> QED
    BY <1>3, <1>4, <1>5, Zenon DEF IInv

\* The timer's tick.
LEMMA TickIInv == ASSUME NEW c \in CPUs, IInv, tick(c) PROVE IInv'
  BY DEF IInv, Types, CpuType, RunningExclusive, Forking, ParentAlive, InitLives, tick

\* A process goes to sleep on a channel, or yields.
LEMMA StopIInv ==
    ASSUME NEW c \in CPUs, IInv, NEW s \in Slots, cpu[c].proc = s, sched(c),
           NEW state \in {"SLEEPING", "RUNNABLE"},
           proc' \in [Slots -> ProcRec],
           \A t \in Slots : /\ proc'[t].state = (IF t = s THEN state ELSE proc[t].state)
                            /\ proc'[t].parent = proc[t].parent,
           pc' \in [Slots -> PCs],
           \A t \in Slots : pc'[t] = "fork" => pc[t] = "fork",
           np' = np, nextpid' = nextpid
    PROVE  IInv'
  <1>1. proc[s].state = "RUNNING"
    BY OnCpu, Zenon
  <1>2. CpuType' /\ \A d \in CPUs : cpu'[d].proc = IF d = c THEN None ELSE cpu[d].proc
    BY CpuLeaves, Zenon
  <1>3. Types'
    BY <1>2, Zenon DEF IInv, Types
  <1>4. \A t \in Slots : proc'[t].state = "RUNNING" <=> proc[t].state = "RUNNING" /\ t # s
    BY Zenon
  <1>5. RunningExclusive'
    BY <1>2, <1>4, RunningLeaves, Zenon
  <1>6. \A t \in Slots : proc[t].state = "EMBRYO" => proc'[t].state = "EMBRYO"
    BY <1>1, Zenon
  <1>7. Forking'
    BY <1>6, ForkingKept, Zenon
  <1>8. \A t \in Slots : /\ proc'[t].state \in Alive <=> proc[t].state \in Alive
                         /\ proc'[t].state \in {"UNUSED", "EMBRYO"}
                            <=> proc[t].state \in {"UNUSED", "EMBRYO"}
    BY <1>1, Zenon DEF Alive
  <1>9. ParentAlive' /\ InitLives'
    BY <1>8, ParentsKept
  <1> QED
    BY <1>3, <1>5, <1>7, <1>9, Zenon DEF IInv

\* sleep() on ticks.
LEMMA SleepIInv == ASSUME NEW c \in CPUs, IInv, sleep(c) PROVE IInv'
  <1>1. PICK s \in Slots : /\ cpu[c].proc = s
          /\ proc' = [proc EXCEPT ![s].chan = TicksChan, ![s].state = "SLEEPING"]
          /\ pc' = [pc EXCEPT ![s] = "sleep"]
    BY Zenon DEF sleep, Runs
  <1>2. sched(c) /\ np' = np /\ nextpid' = nextpid
    BY Zenon DEF sleep
  <1>3. proc \in [Slots -> ProcRec] /\ pc \in [Slots -> PCs]
    BY Zenon DEF IInv, Types
  <1>4. proc' \in [Slots -> ProcRec]
    <2>1. PICK P : P = [proc EXCEPT ![s].chan = TicksChan]
      BY Zenon
    <2>2. P \in [Slots -> ProcRec]
      BY <1>3, <2>1 DEF ProcRec
    <2>3. proc' = [P EXCEPT ![s].state = "SLEEPING"]
      BY <1>1, <2>1, Zenon
    <2> QED
      BY <2>2, <2>3 DEF ProcRec, States
  <1>5. \A t \in Slots : /\ proc'[t].state = (IF t = s THEN "SLEEPING" ELSE proc[t].state)
                         /\ proc'[t].parent = proc[t].parent
    BY <1>1, <1>3 DEF ProcRec
  <1>6. pc' \in [Slots -> PCs] /\ \A t \in Slots : pc'[t] = "fork" => pc[t] = "fork"
    BY <1>1, <1>3, Zenon DEF PCs
  <1> QED
    BY <1>1, <1>2, <1>4, <1>5, <1>6, StopIInv

\* yield(), and the exit of a killed process that it turns into.
LEMMA YieldIInv == ASSUME NEW c \in CPUs, IInv, yield(c) PROVE IInv'
  <1> DEFINE s == cpu[c].proc
  <1>1. s \in Slots /\ np' = np /\ nextpid' = nextpid
    BY DEF IInv, Types, CpuType, CpuOf, yield
  <1>2. proc \in [Slots -> ProcRec] /\ pc \in [Slots -> PCs]
    BY Zenon DEF IInv, Types
  <1>3. CASE UNCHANGED <<proc, cpu>> /\ pc' = [pc EXCEPT ![s] = "exit"]
    <2>1. pc' \in [Slots -> PCs] /\ \A t \in Slots : pc'[t] = "fork" => pc[t] = "fork"
      BY <1>1, <1>2, <1>3, Zenon DEF PCs
    <2>2. Forking'
      BY <1>1, <1>3, <2>1, ForkingKept, Zenon
    <2> QED
      BY <1>1, <1>3, <2>1, <2>2, Zenon
         DEF IInv, Types, CpuType, RunningExclusive, ParentAlive, InitLives
  <1>4. CASE proc' = [proc EXCEPT ![s].state = "RUNNABLE"] /\ sched(c) /\ UNCHANGED pc
    <2>1. proc' \in [Slots -> ProcRec]
      BY <1>1, <1>2, <1>4 DEF ProcRec, States
    <2>2. \A t \in Slots : /\ proc'[t].state = (IF t = s THEN "RUNNABLE" ELSE proc[t].state)
                           /\ proc'[t].parent = proc[t].parent
      BY <1>1, <1>2, <1>4 DEF ProcRec
    <2> QED
      BY <1>1, <1>2, <1>4, <2>1, <2>2, StopIInv
  <1> QED
    BY <1>3, <1>4, Zenon DEF yield

-----------------------------------------------------------------------------
\* wakeup1 only makes sleepers RUNNABLE.
LEMMA Wakeup1 ==
    ASSUME NEW P \in [Slots -> ProcRec], NEW chan
    PROVE  /\ wakeup1(P, chan) \in [Slots -> ProcRec]
           /\ \A t \in Slots :
                /\ wakeup1(P, chan)[t].parent = P[t].parent
                /\ wakeup1(P, chan)[t].state # P[t].state
                   => P[t].state = "SLEEPING" /\ wakeup1(P, chan)[t].state = "RUNNABLE"
  BY DEF wakeup1, ProcRec, States

\* The timer wakes the processes in sys_sleep.
LEMMA WakeupIInv == ASSUME NEW c \in CPUs, IInv, wakeup(c) PROVE IInv'
  <1>1. proc' \in [Slots -> ProcRec]
        /\ \A t \in Slots :
             /\ proc'[t].parent = proc[t].parent
             /\ proc'[t].state # proc[t].state
                => proc[t].state = "SLEEPING" /\ proc'[t].state = "RUNNABLE"
    BY Wakeup1 DEF IInv, Types, wakeup
  <1>2. UNCHANGED <<pc, np, cpu, nextpid>>
    BY Zenon DEF wakeup
  <1>3. Types'
    BY <1>1, <1>2, Zenon DEF IInv, Types, CpuType
  <1>4. RunningExclusive'
    BY <1>1, <1>2, RunningKept, Zenon
  <1>5. Forking'
    BY <1>1, <1>2, ForkingKept, Zenon
  <1>6. ParentAlive' /\ InitLives'
    BY <1>1, ParentsKept DEF Alive
  <1> QED
    BY <1>3, <1>4, <1>5, <1>6, Zenon DEF IInv

\* kill() wakes its victim and marks it.
LEMMA KillIInv == ASSUME NEW c \in CPUs, NEW pid, IInv, kill(c, pid) PROVE IInv'
  <1>1. PICK s \in Users, t \in Slots :
          /\ proc' = [proc EXCEPT ![t].killed = TRUE,
                                  ![t].state = IF @ = "SLEEPING" THEN "RUNNABLE" ELSE @]
          /\ pc' = [pc EXCEPT ![s] = IF s = t THEN "exit" ELSE @]
    BY Zenon DEF kill
  <1>2. proc \in [Slots -> ProcRec] /\ pc \in [Slots -> PCs]
    BY Zenon DEF IInv, Types
  <1>3. proc' \in [Slots -> ProcRec]
    <2>1. PICK P : P = [proc EXCEPT ![t].killed = TRUE]
      BY Zenon
    <2>2. P \in [Slots -> ProcRec]
      BY <1>2, <2>1, Zenon DEF ProcRec
    <2>3. proc' = [P EXCEPT ![t].state = IF @ = "SLEEPING" THEN "RUNNABLE" ELSE @]
      BY <1>1, <2>1, Zenon
    <2> QED
      BY <2>2, <2>3 DEF ProcRec, States
  <1>4. \A u \in Slots : /\ proc'[u].parent = proc[u].parent
                         /\ proc'[u].state # proc[u].state
                            => proc[u].state = "SLEEPING" /\ proc'[u].state = "RUNNABLE"
    BY <1>1, <1>2, Zenon DEF ProcRec
  <1>5. pc' \in [Slots -> PCs] /\ \A u \in Slots : pc'[u] = "fork" => pc[u] = "fork"
    BY <1>1, <1>2, Zenon DEF PCs, Users
  <1>6. UNCHANGED <<np, cpu, nextpid>>
    BY DEF kill
  <1>7. Types'
    BY <1>3, <1>5, <1>6, Zenon DEF IInv, Types, CpuType
  <1>8. RunningExclusive'
    BY <1>4, <1>6, RunningKept, Zenon
  <1>9. Forking'
    BY <1>4, <1>5, <1>6, ForkingKept, Zenon
  <1>10. ParentAlive' /\ InitLives'
    BY <1>4, ParentsKept, Zenon DEF Alive
  <1> QED
    BY <1>7, <1>8, <1>9, <1>10 DEF IInv

\* setpriority() leaves everything the invariant is about.
LEMMA SetPriorityIInv == ASSUME NEW c \in CPUs, NEW n, IInv, sys_setpriority(c, n) PROVE IInv'
  <1>1. PICK s \in Users : n \in 0 .. Worst - 1 /\ proc' = [proc EXCEPT ![s].priority = n]
    BY Zenon DEF sys_setpriority
  <1>2. proc' \in [Slots -> ProcRec]
        /\ \A t \in Slots : proc'[t].state = proc[t].state /\ proc'[t].parent = proc[t].parent
    BY <1>1 DEF IInv, Types, ProcRec, Users, Worst
  <1>3. UNCHANGED <<pc, np, cpu, nextpid>>
    BY Zenon DEF sys_setpriority
  <1>4. Types'
    BY <1>2, <1>3 DEF IInv, Types, CpuType
  <1>5. RunningExclusive'
    BY <1>2, <1>3, RunningKept
  <1>6. Forking'
    BY <1>2, <1>3, ForkingKept, Zenon
  <1>7. ParentAlive' /\ InitLives'
    BY <1>2, ParentsKept
  <1> QED
    BY <1>4, <1>5, <1>6, <1>7 DEF IInv

-----------------------------------------------------------------------------
\* allocproc() turns an UNUSED slot into the EMBRYO of one fork.
LEMMA AllocIInv == ASSUME NEW c \in CPUs, IInv, allocproc(c) PROVE IInv'
  <1>1. PICK s \in Slots, t \in Slots :
          /\ cpu[c].proc = s /\ pc[s] = "user" /\ proc[t].state = "UNUSED"
          /\ proc' = [proc EXCEPT ![t].state = "EMBRYO", ![t].pid = nextpid,
                                  ![t].priority = DefaultPriority]
          /\ np' = [np EXCEPT ![s] = t]
          /\ pc' = [pc EXCEPT ![s] = "fork", ![t] = "forkret"]
    BY Zenon DEF allocproc, InUser, Runs, FirstUnused
  <1>2. nextpid' = nextpid + 1 /\ cpu' = cpu
    BY Zenon DEF allocproc
  <1>3. proc \in [Slots -> ProcRec] /\ pc \in [Slots -> PCs] /\ np \in [Slots -> Slots \cup {None}]
        /\ nextpid \in Nat
    BY DEF IInv, Types
  <1>4. proc[s].state = "RUNNING" /\ proc[t].state = "UNUSED" /\ s # t
    BY <1>1, OnCpu, Zenon
  <1>5. proc' \in [Slots -> ProcRec]
    <2>1. PICK P : P = [proc EXCEPT ![t].state = "EMBRYO"]
      BY Zenon
    <2>2. PICK Q : Q = [P EXCEPT ![t].pid = nextpid]
      BY Zenon
    <2>3. P \in [Slots -> ProcRec]
      BY <1>3, <2>1 DEF ProcRec, States
    <2>4. Q \in [Slots -> ProcRec]
      BY <1>3, <2>2, <2>3 DEF ProcRec
    <2>5. proc' = [Q EXCEPT ![t].priority = DefaultPriority]
      BY <1>1, <2>1, <2>2, Zenon
    <2> QED
      BY <2>4, <2>5 DEF ProcRec, DefaultPriority
  <1>6. \A u \in Slots : /\ proc'[u].state = (IF u = t THEN "EMBRYO" ELSE proc[u].state)
                         /\ proc'[u].parent = proc[u].parent
    BY <1>1, <1>3 DEF ProcRec
  <1>7. \A u \in Slots : /\ np'[u] = (IF u = s THEN t ELSE np[u])
                         /\ pc'[u] = (IF u = s THEN "fork" ELSE
                                      IF u = t THEN "forkret" ELSE pc[u])
    BY <1>1, <1>3, <1>4, Zenon
  <1>8. Types'
    <2>1. np' \in [Slots -> Slots \cup {None}]
      BY <1>1, <1>3, Zenon
    <2>2. pc' \in [Slots -> PCs]
      BY <1>1, <1>3, Zenon DEF PCs
    <2>3. nextpid' \in Nat
      BY <1>2, <1>3
    <2>4. CpuType'
      BY <1>2, Zenon DEF IInv, Types, CpuType
    <2> QED
      BY <1>5, <2>1, <2>2, <2>3, <2>4, Zenon DEF Types
  <1>9. RunningExclusive'
    <2>1. \A u \in Slots : proc'[u].state = "RUNNING" <=> proc[u].state = "RUNNING"
      BY <1>4, <1>6, Zenon
    <2> QED
      BY <1>2, <2>1, RunningKept, Zenon
  <1>10. Forking'
    <2>1. \A u \in Slots : pc'[u] = "fork" => u = s \/ (pc[u] = "fork" /\ u # s /\ u # t)
      BY <1>7, Zenon
    <2>2. \A u \in Slots : pc[u] = "fork" => np[u] \in Slots /\ np[u] # t
      BY <1>1, Zenon DEF IInv, Forking
    <2>3. ASSUME NEW u \in Slots, pc'[u] = "fork"
          PROVE  np'[u] \in Slots /\ proc'[np'[u]].state = "EMBRYO"
      BY <1>6, <1>7, <2>1, <2>2, <2>3 DEF IInv, Forking
    <2>4. ASSUME NEW u \in Slots, NEW v \in Slots, pc'[u] = "fork", pc'[v] = "fork",
                 np'[v] = np'[u]
          PROVE  v = u
      BY <1>7, <2>1, <2>2, <2>4 DEF IInv, Forking
    <2> QED
      BY <2>3, <2>4, Zenon DEF Forking
  <1>11. ParentAlive' /\ InitLives'
    BY <1>4, <1>6, ParentsKept DEF Alive
  <1> QED
    BY <1>8, <1>9, <1>10, <1>11 DEF IInv

\* The end of fork(): the EMBRYO becomes a process with a live parent, or its
\* slot is UNUSED again.
LEMMA ForkIInv == ASSUME NEW c \in CPUs, IInv, fork(c) \/ forkFails(c) PROVE IInv'
  <1>1. PICK s \in Slots :
          /\ cpu[c].proc = s /\ pc[s] = "fork"
          /\ \/ proc' = [proc EXCEPT ![np[s]].state = "RUNNABLE", ![np[s]].parent = s]
             \/ proc' = [proc EXCEPT ![np[s]].state = "UNUSED"]
          /\ np' = [np EXCEPT ![s] = None]
          /\ pc' = [pc EXCEPT ![s] = Return(s)]
    BY Zenon DEF fork, forkFails, Runs
  <1>2. nextpid' = nextpid /\ cpu' = cpu
    BY Zenon DEF fork, forkFails
  <1>3. proc \in [Slots -> ProcRec] /\ pc \in [Slots -> PCs] /\ np \in [Slots -> Slots \cup {None}]
    BY Zenon DEF IInv, Types
  <1>4. PICK t \in Slots : t = np[s] /\ proc[t].state = "EMBRYO"
    BY <1>1, Zenon DEF IInv, Forking
  <1>5. proc[s].state = "RUNNING" /\ s # t /\ t # initproc
    BY <1>1, <1>4, OnCpu, Zenon DEF IInv, InitLives, Alive
  <1>6. PICK to \in {"RUNNABLE", "UNUSED"} :
          \A u \in Slots :
             /\ proc'[u].state = (IF u = t THEN to ELSE proc[u].state)
             /\ proc'[u].parent = IF u = t /\ to = "RUNNABLE" THEN s ELSE proc[u].parent
    <2>1. CASE proc' = [proc EXCEPT ![t].state = "UNUSED"]
      <3>1. \A u \in Slots : /\ proc'[u].state = (IF u = t THEN "UNUSED" ELSE proc[u].state)
                             /\ proc'[u].parent = proc[u].parent
        BY <1>3, <2>1, Zenon DEF ProcRec
      <3> QED
        BY <3>1, Zenon
    <2>2. CASE proc' = [proc EXCEPT ![t].state = "RUNNABLE", ![t].parent = s]
      <3>1. \A u \in Slots : /\ proc'[u].state = (IF u = t THEN "RUNNABLE" ELSE proc[u].state)
                             /\ proc'[u].parent = (IF u = t THEN s ELSE proc[u].parent)
        BY <1>3, <2>2, Zenon DEF ProcRec
      <3> QED
        BY <3>1, Zenon
    <2> QED
      BY <1>1, <1>4, <2>1, <2>2, Zenon
  <1>7. proc' \in [Slots -> ProcRec]
    <2>1. CASE proc' = [proc EXCEPT ![t].state = "UNUSED"]
      BY <1>3, <2>1 DEF ProcRec, States
    <2>2. CASE proc' = [proc EXCEPT ![t].state = "RUNNABLE", ![t].parent = s]
      <3>1. PICK P : P = [proc EXCEPT ![t].state = "RUNNABLE"]
        BY Zenon
      <3>2. P \in [Slots -> ProcRec]
        BY <1>3, <3>1 DEF ProcRec, States
      <3>3. proc' = [P EXCEPT ![t].parent = s]
        BY <2>2, <3>1, Zenon
      <3> QED
        BY <3>2, <3>3, Zenon DEF ProcRec
    <2> QED
      BY <1>1, <1>4, <2>1, <2>2, Zenon
  <1>8. \A u \in Slots : /\ np'[u] = (IF u = s THEN None ELSE np[u])
                         /\ pc'[u] = (IF u = s THEN Return(s) ELSE pc[u])
                         /\ Return(s) \in {"exit", "user"}
    BY <1>1, <1>3, Zenon DEF Return
  <1>9. Types'
    BY <1>1, <1>2, <1>3, <1>7, <1>8, Zenon DEF IInv, Types, CpuType, PCs
  <1>10. RunningExclusive'
    BY <1>2, <1>4, <1>6, RunningKept, Zenon
  <1>11. Forking'
    BY <1>1, <1>4, <1>6, <1>8 DEF IInv, Forking
  <1>12. InitLives'
    BY <1>5, <1>6, SlotsAssumption DEF IInv, InitLives, Slots, initproc
  <1>13. ParentAlive'
    BY <1>4, <1>5, <1>6 DEF IInv, ParentAlive, Alive
  <1> QED
    BY <1>9, <1>10, <1>11, <1>12, <1>13 DEF IInv

-----------------------------------------------------------------------------
\* exit() gives the children to init and leaves a zombie to a live parent.
LEMMA ExitIInv == ASSUME NEW c \in CPUs, IInv, exit(c) PROVE IInv'
  <1>1. PICK s \in Users : cpu[c].proc = s /\ sched(c)
          /\ proc' = [(IF \E t \in Slots : wakeup1(proc, proc[s].parent)[t].parent = s
                                          /\ wakeup1(proc, proc[s].parent)[t].state = "ZOMBIE"
                       THEN wakeup1(Reparent(wakeup1(proc, proc[s].parent), s), initproc)
                       ELSE Reparent(wakeup1(proc, proc[s].parent), s))
                      EXCEPT ![s].state = "ZOMBIE"]
    BY Zenon DEF exit, Runs
  <1>2. UNCHANGED <<pc, np, nextpid>>
    BY DEF exit
  <1>3. proc \in [Slots -> ProcRec] /\ s \in Slots /\ s # initproc /\ initproc \in Slots
    BY SlotsAssumption DEF IInv, Types, Users, Slots, initproc
  <1>4. PICK W : W = wakeup1(proc, proc[s].parent)
    OBVIOUS
  <1>5. PICK R : R = Reparent(W, s)
    BY Zenon
  <1>6. W \in [Slots -> ProcRec]
        /\ \A t \in Slots : /\ W[t].parent = proc[t].parent
                            /\ W[t].state # proc[t].state
                               => proc[t].state = "SLEEPING" /\ W[t].state = "RUNNABLE"
    BY <1>3, <1>4, Wakeup1
  <1>7. R \in [Slots -> ProcRec]
        /\ \A t \in Slots : /\ R[t].parent = (IF W[t].parent = s THEN initproc ELSE W[t].parent)
                            /\ R[t].state = W[t].state
    BY <1>3, <1>5, <1>6 DEF Reparent, ProcRec
  <1>8. PICK V : V \in {R, wakeup1(R, initproc)} /\ proc' = [V EXCEPT ![s].state = "ZOMBIE"]
    BY <1>1, <1>4, <1>5, Zenon
  <1>9. V \in [Slots -> ProcRec]
        /\ \A t \in Slots : /\ V[t].parent = R[t].parent
                            /\ V[t].state # R[t].state
                               => R[t].state = "SLEEPING" /\ V[t].state = "RUNNABLE"
    BY <1>7, <1>8, Wakeup1
  <1>10. /\ proc' \in [Slots -> ProcRec]
         /\ \A t \in Slots :
              /\ proc'[t].parent = V[t].parent
              /\ proc'[t].state = IF t = s THEN "ZOMBIE" ELSE V[t].state
    BY <1>3, <1>8, <1>9 DEF ProcRec, States
  <1>11. \A t \in Slots :
           /\ proc'[t].parent = (IF proc[t].parent = s THEN initproc ELSE proc[t].parent)
           /\ t = s => proc'[t].state = "ZOMBIE"
           /\ t # s /\ proc'[t].state # proc[t].state
              => proc[t].state = "SLEEPING" /\ proc'[t].state = "RUNNABLE"
    BY <1>6, <1>7, <1>9, <1>10
  <1>12. proc[s].state = "RUNNING"
    BY <1>1, <1>3, OnCpu, Zenon
  <1>13. CpuType' /\ \A d \in CPUs : cpu'[d].proc = IF d = c THEN None ELSE cpu[d].proc
    BY <1>1, CpuLeaves
  <1>14. Types'
    BY <1>2, <1>10, <1>13 DEF IInv, Types
  <1>15. RunningExclusive'
    <2>1. \A t \in Slots : proc'[t].state = "RUNNING" <=> proc[t].state = "RUNNING" /\ t # s
      BY <1>11, Zenon
    <2> QED
      BY <1>1, <1>3, <1>13, <2>1, RunningLeaves
  <1>16. Forking'
    <2>1. \A t \in Slots : proc[t].state = "EMBRYO" => proc'[t].state = "EMBRYO"
      BY <1>11, <1>12, Zenon
    <2> QED
      BY <1>2, <2>1, ForkingKept, Zenon
  <1>17. InitLives'
    BY <1>3, <1>11 DEF IInv, InitLives, Alive, None, Slots
  <1>18. ParentAlive'
    <2> SUFFICES ASSUME NEW t \in Slots \ {initproc}
                 PROVE  IF proc'[t].state \in {"UNUSED", "EMBRYO"}
                        THEN proc'[t].parent = None
                        ELSE proc'[t].parent \in Slots /\ proc'[proc'[t].parent].state \in Alive
      BY Zenon DEF ParentAlive
    <2>1. proc'[initproc].state \in Alive
      BY <1>17, Zenon DEF InitLives
    <2>2. \A u \in Slots \ {s} : proc[u].state \in Alive => proc'[u].state \in Alive
      BY <1>11, Zenon DEF Alive
    <2>3. CASE proc'[t].state \in {"UNUSED", "EMBRYO"}
      <3>1. proc[t].state \in {"UNUSED", "EMBRYO"}
        BY <1>11, <2>3, Zenon
      <3> QED
        BY <1>3, <1>11, <2>3, <3>1 DEF IInv, ParentAlive, None, Slots
    <2>4. CASE proc'[t].state \notin {"UNUSED", "EMBRYO"}
      <3>1. proc[t].parent \in Slots /\ proc[proc[t].parent].state \in Alive
        BY <1>11, <1>12, <2>4 DEF IInv, ParentAlive
      <3> QED
        BY <1>3, <1>11, <2>1, <2>2, <2>4, <3>1, Zenon
    <2> QED
      BY <2>3, <2>4, Zenon
  <1> QED
    BY <1>14, <1>15, <1>16, <1>17, <1>18 DEF IInv

\* wait() reaps a zombie, which is nobody's parent, or returns, or sleeps.
LEMMA WaitIInv == ASSUME NEW c \in CPUs, IInv, wait(c) \/ WaitAgain(c) PROVE IInv'
  <1>1. PICK s \in Slots : cpu[c].proc = s /\ WaitTurn(c, s)
    BY Zenon DEF wait, WaitAgain, InUser, Runs
  <1>2. np' = np /\ nextpid' = nextpid
    BY DEF wait, WaitAgain
  <1>3. proc \in [Slots -> ProcRec] /\ pc \in [Slots -> PCs] /\ proc[s].state = "RUNNING"
    BY <1>1, OnCpu DEF IInv, Types
  <1>4. pc' \in [Slots -> PCs] /\ \A u \in Slots : pc'[u] = "fork" => pc[u] = "fork"
    BY <1>1, <1>3, Zenon DEF WaitTurn, Return, PCs
  <1>5. ASSUME NEW t \in Children(s), proc[t].state = "ZOMBIE", cpu' = cpu,
               proc' = [proc EXCEPT ![t].pid = 0, ![t].parent = None,
                                    ![t].killed = FALSE, ![t].state = "UNUSED",
                                    ![s].chan = None]
        PROVE  IInv'
    <2>1. t \in Slots /\ t # s /\ proc[t].state = "ZOMBIE"
      BY <1>3, <1>5, Zenon DEF Children
    <2>2. PICK P1 : P1 = [proc EXCEPT ![t].pid = 0]
      BY Zenon
    <2>3. PICK P2 : P2 = [P1 EXCEPT ![t].parent = None]
      BY Zenon
    <2>4. PICK P3 : P3 = [P2 EXCEPT ![t].killed = FALSE]
      BY Zenon
    <2>5. PICK P4 : P4 = [P3 EXCEPT ![t].state = "UNUSED"]
      BY Zenon
    <2>6. proc' = [P4 EXCEPT ![s].chan = None]
      BY <1>5, <2>2, <2>3, <2>4, <2>5
    <2>7. P1 \in [Slots -> ProcRec]
          /\ \A u \in Slots : P1[u].state = proc[u].state /\ P1[u].parent = proc[u].parent
      BY <1>3, <2>1, <2>2 DEF ProcRec
    <2>8. P2 \in [Slots -> ProcRec]
          /\ \A u \in Slots : /\ P2[u].state = P1[u].state
                              /\ P2[u].parent = IF u = t THEN None ELSE P1[u].parent
      BY <2>1, <2>3, <2>7 DEF ProcRec
    <2>9. P3 \in [Slots -> ProcRec]
          /\ \A u \in Slots : P3[u].state = P2[u].state /\ P3[u].parent = P2[u].parent
      <3>1. P2[t] \in ProcRec
        BY <2>1, <2>8, Zenon
      <3>2. /\ [P2[t] EXCEPT !.killed = FALSE] \in ProcRec
            /\ [P2[t] EXCEPT !.killed = FALSE].state = P2[t].state
            /\ [P2[t] EXCEPT !.killed = FALSE].parent = P2[t].parent
        BY <3>1 DEF ProcRec
      <3> QED
        BY <2>1, <2>4, <2>8, <3>2, Zenon
    <2>10. P4 \in [Slots -> ProcRec]
           /\ \A u \in Slots : /\ P4[u].state = (IF u = t THEN "UNUSED" ELSE P3[u].state)
                               /\ P4[u].parent = P3[u].parent
      BY <2>1, <2>5, <2>9 DEF ProcRec, States
    <2>11. proc' \in [Slots -> ProcRec]
           /\ \A u \in Slots : proc'[u].state = P4[u].state /\ proc'[u].parent = P4[u].parent
      BY <2>6, <2>10 DEF ProcRec
    <2>12. \A u \in Slots : /\ proc'[u].state = (IF u = t THEN "UNUSED" ELSE proc[u].state)
                            /\ proc'[u].parent = (IF u = t THEN None ELSE proc[u].parent)
      BY <2>7, <2>8, <2>9, <2>10, <2>11
    <2>13. Types'
      BY <1>2, <1>4, <1>5, <2>11, Zenon DEF IInv, Types, CpuType
    <2>14. RunningExclusive'
      <3>1. \A u \in Slots : proc'[u].state = "RUNNING" <=> proc[u].state = "RUNNING"
        BY <2>1, <2>12, Zenon
      <3> QED
        BY <1>5, <3>1, RunningKept, Zenon
    <2>15. Forking'
      <3>1. \A u \in Slots : proc[u].state = "EMBRYO" => proc'[u].state = "EMBRYO"
        BY <2>1, <2>12, Zenon
      <3> QED
        BY <1>2, <1>4, <3>1, ForkingKept, Zenon
    <2>16. InitLives'
      BY <2>1, <2>12, SlotsAssumption DEF IInv, InitLives, Alive, Slots, initproc
    <2>17. \A u \in Slots : proc[u].state \in Alive => proc'[u].state \in Alive
      BY <2>1, <2>12, Zenon DEF Alive
    <2>18. ParentAlive'
      BY <2>12, <2>17, Zenon DEF IInv, ParentAlive
    <2> QED
      BY <2>13, <2>14, <2>15, <2>16, <2>18, Zenon DEF IInv
  <1>6. CASE cpu' = cpu /\ proc' = [proc EXCEPT ![s].chan = None]
    <2>1. proc' \in [Slots -> ProcRec]
          /\ \A u \in Slots : proc'[u].state = proc[u].state /\ proc'[u].parent = proc[u].parent
      BY <1>3, <1>6 DEF ProcRec
    <2>2. Types'
      BY <1>2, <1>4, <1>6, <2>1, Zenon DEF IInv, Types, CpuType
    <2>3. RunningExclusive'
      BY <1>6, <2>1, RunningKept, Zenon
    <2>4. Forking'
      BY <1>2, <1>4, <2>1, ForkingKept, Zenon
    <2>5. ParentAlive' /\ InitLives'
      BY <2>1, ParentsKept, Zenon
    <2> QED
      BY <2>2, <2>3, <2>4, <2>5, Zenon DEF IInv
  <1>7. CASE sched(c) /\ proc' = [proc EXCEPT ![s].chan = s, ![s].state = "SLEEPING"]
    <2>1. PICK P : P = [proc EXCEPT ![s].chan = s]
      BY Zenon
    <2>2. P \in [Slots -> ProcRec]
          /\ \A u \in Slots : P[u].state = proc[u].state /\ P[u].parent = proc[u].parent
      BY <1>3, <2>1 DEF ProcRec
    <2>3. proc' = [P EXCEPT ![s].state = "SLEEPING"]
      BY <1>7, <2>1, Zenon
    <2>4. proc' \in [Slots -> ProcRec]
          /\ \A u \in Slots : /\ proc'[u].state = (IF u = s THEN "SLEEPING" ELSE proc[u].state)
                              /\ proc'[u].parent = proc[u].parent
      BY <2>2, <2>3 DEF ProcRec, States
    <2> QED
      BY <1>1, <1>2, <1>4, <1>7, <2>4, StopIInv
  <1> QED
    BY <1>1, <1>5, <1>6, <1>7, Zenon DEF WaitTurn

-----------------------------------------------------------------------------
\* Every step keeps the invariant.
LEMMA NextIInv == IInv /\ [Next]_vars => IInv'
  <1> SUFFICES ASSUME IInv, [Next]_vars PROVE IInv'
    BY Zenon
  <1>1. CASE UNCHANGED vars
    BY <1>1 DEF vars, IInv, Types, CpuType, RunningExclusive, Forking, InitLives, ParentAlive
  <1>2. ASSUME NEW c \in CPUs, Step(c) PROVE IInv'
    BY <1>2, SchedulerIInv, SwitchIInv, ResumeIInv, NapIInv, TickIInv, SleepIInv, YieldIInv,
       WakeupIInv, KillIInv, SetPriorityIInv, AllocIInv, ForkIInv, ExitIInv, WaitIInv DEF Step
  <1> QED
    BY <1>1, <1>2, Zenon DEF Next

\* No kernel stack is ever run by two CPUs, whatever the number of CPUs, of
\* processes and of slots: sched() and scheduler() hand ptable.lock over.
THEOREM OneStackOneCpu == Spec => []RunningExclusive
  <1>1. IInv => RunningExclusive
    BY DEF IInv
  <1> QED
    BY <1>1, InitIInv, NextIInv, PTL DEF Spec

\* Every process but init always has a live parent to wait() for it: exit()
\* never leaves an orphan, and wait() never reaps a parent.
THEOREM ParentsWait == Spec => []ParentAlive
  <1>1. IInv => ParentAlive
    BY DEF IInv
  <1> QED
    BY <1>1, InitIInv, NextIInv, PTL DEF Spec

-----------------------------------------------------------------------------
\* Second part: the ranges of the variables, and that no wakeup is lost.  Both
\* rest on the first invariant, and on who holds tickslock while the condition
\* of sys_sleep is tested.

\* A tick in progress holds tickslock on CPU 0.
Ticking == \A c \in CPUs : intr[c] = "tick" => c = CPU0 /\ tickslock = c

\* A process between the test in sys_sleep and sleep() runs on the CPU that
\* holds tickslock, where no interrupt gets in, and still has ticks to wait for.
Napping ==
    \A s \in Slots : pc[s] = "napping" =>
      /\ left[s] > 0
      /\ \E c \in CPUs : /\ cpu[c].proc = s /\ tickslock = c
                         /\ ptable_lock # c /\ intr[c] = "none"

\* What TypeOK adds to Types, and that nobody is its own parent.
Ranges ==
    /\ \A s \in Slots : /\ proc[s].pid \in 0 .. MaxPid /\ proc[s].priority \in 0 .. Worst - 1
                         /\ proc[s].parent # s
    /\ \A c \in CPUs : cpu[c].max_priority \in 0 .. Worst
    /\ left \in [Slots -> Nat]
    /\ intr \in [CPUs -> {"none", "tick", "yield", "setpriority"}]
    /\ nextpid \in 1 .. MaxPid + 1
    /\ ptable_lock \in CPUs \cup {None} /\ tickslock \in CPUs \cup {None}

\* The second inductive invariant, on top of IInv.
SInv == Ranges /\ Ticking /\ Napping /\ NoLostWakeup

-----------------------------------------------------------------------------
\* Every set of naturals has a least element: what the scheduler's first loop
\* computes exists.
LEMMA LeastNatural ==
    ASSUME NEW S \in SUBSET Nat, S # {}
    PROVE  \E m \in S : \A n \in S : m <= n
  <1> DEFINE R == {ss \in Nat \X Nat : ss[1] < ss[2]}
  <1>1. IsWellFoundedOn(R, Nat)
    BY NatLessThanWellFounded DEF OpToRel
  <1>2. \A x, y \in Nat : <<y, x>> \in R <=> y < x
    OBVIOUS
  <1> HIDE DEF R
  <1>3. PICK x \in S : \A y \in S : ~ (<<y, x>> \in R)
    BY <1>1, WFMin, Zenon
  <1>4. \A y \in S : ~ (y < x)
    BY <1>2, <1>3, Zenon
  <1>5. \A y \in S : x <= y
    BY <1>4
  <1> QED
    BY <1>5

\* The best priority on offer is in the range of priorities, or 201 when there
\* is nothing to run.
LEMMA BestInRange ==
    ASSUME SInv, NEW P \in SUBSET Slots
    PROVE  Best(P) \in 0 .. Worst
  <1> DEFINE S == {proc[s].priority : s \in P} \cup {Worst}
  <1>1. S \subseteq 0 .. Worst /\ Worst \in S
    BY DEF SInv, Ranges, Worst
  <1>2. \A s \in P : proc[s].priority \in S
    OBVIOUS
  <1> HIDE DEF S
  <1>3. \E m \in S : \A n \in S : m <= n
    <2>1. S \in SUBSET Nat /\ S # {}
      BY <1>1 DEF Worst
    <2> QED
      BY <2>1, LeastNatural
  <1>4. \E m \in S : \A s \in P : m <= proc[s].priority
    BY <1>2, <1>3, Zenon
  <1>5. (CHOOSE m \in S : \A s \in P : m <= proc[s].priority) \in S
    BY <1>4, Zenon
  <1>6. Best(P) \in S
    BY <1>5 DEF Best, S
  <1> QED
    BY <1>1, <1>6, Zenon

\* Ranges complete Types to TypeOK.
LEMMA RangesType == IInv /\ SInv => TypeOK
  <1> SUFFICES ASSUME IInv, SInv PROVE TypeOK
    BY Zenon
  <1> DEFINE Rec == [state : Alive \cup {"UNUSED", "EMBRYO", "ZOMBIE"},
                     pid : 0 .. MaxPid, parent : Slots \cup {None},
                     chan : Slots \cup {None, TicksChan},
                     killed : BOOLEAN, priority : 0 .. Worst - 1]
  <1>1. proc \in [Slots -> Rec]
    <2>1. proc \in [Slots -> ProcRec]
      BY Zenon DEF IInv, Types
    <2>2. \A s \in Slots : proc[s] \in ProcRec => proc[s] \in Rec
      BY Zenon DEF SInv, Ranges, ProcRec, States, Alive
    <2> QED
      BY <2>1, <2>2
  <1>2. cpu \in [CPUs -> [proc : Slots \cup {None}, max_priority : 0 .. Worst,
                          p : Slots \cup {0}]]
    <2>1. PICK M : cpu \in CpuOf(M)
      BY DEF IInv, Types, CpuType
    <2> QED
      BY <2>1 DEF CpuOf, SInv, Ranges
  <1>3. pc \in [Slots -> PCs] /\ np \in [Slots -> Slots \cup {None}]
    BY DEF IInv, Types
  <1> QED
    BY <1>1, <1>2, <1>3 DEF SInv, Ranges, TypeOK, PCs

\* userinit.
LEMMA InitSInv == Init => SInv
  <1> SUFFICES ASSUME Init PROVE SInv
    BY Zenon
  <1>1. \A s \in Slots : /\ proc[s].state # "SLEEPING"
                         /\ proc[s].pid \in {0, 1}
                         /\ proc[s].priority \in {0, DefaultPriority}
                         /\ proc[s].parent # s
    BY DEF Init, Slot, None, Slots
  <1>2. Ranges
    BY <1>1, InputAssumption DEF Init, Ranges, Worst, DefaultPriority
  <1> QED
    BY <1>1, <1>2, Zenon DEF Init, SInv, Ticking, Napping, NoLostWakeup

-----------------------------------------------------------------------------
\* What a step may do without disturbing each part of the second invariant

\* A nap goes on while its CPU is left alone.
LEMMA NappingKept ==
    ASSUME SInv,
           \A s \in Slots : pc'[s] = "napping" => pc[s] = "napping" /\ left'[s] = left[s],
           \A c \in CPUs : tickslock = c /\ intr[c] = "none" /\ ptable_lock # c
                           /\ cpu[c].proc \in Slots /\ pc[cpu[c].proc] = "napping" =>
              /\ tickslock' = c /\ intr'[c] = "none" /\ ptable_lock' # c
              /\ cpu'[c].proc = cpu[c].proc
    PROVE  Napping'
  BY DEF SInv, Napping

\* Sleepers keep their reason while no process becomes a zombie, is woken
\* half-way or changes parents.
LEMMA SleepersKept ==
    ASSUME SInv,
           \A s \in Slots : proc'[s].state = "SLEEPING" =>
              /\ proc[s].state = "SLEEPING" /\ proc'[s].chan = proc[s].chan
              /\ proc'[s].killed => proc[s].killed
              /\ left'[s] = left[s],
           \A t \in Slots : /\ proc'[t].parent = proc[t].parent
                            /\ proc'[t].state = "ZOMBIE" => proc[t].state = "ZOMBIE",
           intr[CPU0] = "tick" => intr'[CPU0] = "tick"
    PROVE  NoLostWakeup'
  BY DEF SInv, NoLostWakeup, Children

\* The scheduler takes and releases ptable.lock.
LEMMA SchedulerSInv ==
    ASSUME NEW c \in CPUs, IInv, SInv, scheduler(c) \/ EndPass(c) PROVE SInv'
  <1>1. Runnable \in SUBSET Slots
    BY DEF Runnable
  <1>2. PICK m \in 0 .. Worst : cpu' = [cpu EXCEPT ![c].max_priority = m, ![c].p = 0]
    <2>1. Best(Runnable) \in 0 .. Worst /\ Worst \in 0 .. Worst
      BY <1>1, BestInRange DEF Worst
    <2>2. CASE scheduler(c)
      BY <2>1, <2>2, Zenon DEF scheduler
    <2>3. CASE EndPass(c)
      BY <2>1, <2>3, Zenon DEF EndPass
    <2> QED
      BY <2>2, <2>3, Zenon
  <1>3. PICK M : cpu \in CpuOf(M)
    BY Zenon DEF IInv, Types, CpuType
  <1>4. \A d \in CPUs : /\ cpu'[d].proc = cpu[d].proc
                        /\ cpu'[d].max_priority = IF d = c THEN m ELSE cpu[d].max_priority
    BY <1>2, <1>3, Zenon DEF CpuOf
  <1>5. UNCHANGED <<proc, pc, np, left, intr, nextpid, tickslock>> /\ cpu[c].proc = None
        /\ ptable_lock' \in {c, None}
    BY Zenon DEF scheduler, EndPass
  <1>6. Ranges'
    BY <1>4, <1>5, Zenon DEF SInv, Ranges
  <1>7. Napping'
    <2>1. None \notin Slots /\ None \notin CPUs
      BY CpuAssumption DEF None, Slots
    <2> QED
      BY <1>4, <1>5, <2>1, NappingKept
  <1>8. NoLostWakeup' /\ Ticking'
    BY <1>5 DEF SInv, NoLostWakeup, Children, Ticking
  <1> QED
    BY <1>6, <1>7, <1>8 DEF SInv

\* The scheduler starts a process.
LEMMA SwitchSInv == ASSUME NEW c \in CPUs, IInv, SInv, Switch(c) PROVE SInv'
  <1>1. PICK s \in Ahead(c) : proc' = [proc EXCEPT ![s].state = "RUNNING"]
                              /\ cpu' = [cpu EXCEPT ![c].proc = s, ![c].p = s]
    BY Zenon DEF Switch
  <1>2. s \in Slots /\ cpu[c].proc = None /\ None \notin Slots
        /\ UNCHANGED <<pc, np, left, intr, nextpid, ptable_lock, tickslock>>
    BY DEF Ahead, Runnable, Switch, None, Slots
  <1>3. PICK M : cpu \in CpuOf(M)
    BY Zenon DEF IInv, Types, CpuType
  <1>4. \A d \in CPUs : /\ cpu'[d].proc = (IF d = c THEN s ELSE cpu[d].proc)
                        /\ cpu'[d].max_priority = cpu[d].max_priority
    BY <1>1, <1>2, <1>3, Zenon DEF CpuOf
  <1>5. \A t \in Slots : /\ proc'[t].state = (IF t = s THEN "RUNNING" ELSE proc[t].state)
                         /\ proc'[t].parent = proc[t].parent /\ proc'[t].chan = proc[t].chan
                         /\ proc'[t].killed = proc[t].killed /\ proc'[t].pid = proc[t].pid
                         /\ proc'[t].priority = proc[t].priority
    BY <1>1, <1>2 DEF IInv, Types, ProcRec
  <1>6. Ranges' /\ Ticking'
    BY <1>2, <1>4, <1>5, Zenon DEF SInv, Ranges, Ticking
  <1>7. Napping'
    BY <1>2, <1>4, NappingKept, Zenon
  <1>8. NoLostWakeup'
    BY <1>2, <1>5, SleepersKept
  <1> QED
    BY <1>6, <1>7, <1>8 DEF SInv

\* A process picks up after its sched().
LEMMA ResumeSInv == ASSUME NEW c \in CPUs, IInv, SInv, Resume(c) PROVE SInv'
  <1> DEFINE s == cpu[c].proc
  <1>1. s \in Slots /\ ptable_lock = c /\ ptable_lock' = None /\ None \notin CPUs
        /\ UNCHANGED <<np, left, cpu, intr, nextpid, tickslock>>
    BY CpuAssumption, Zenon DEF IInv, Types, CpuType, CpuOf, Resume
  <1>2. \A t \in Slots : /\ proc'[t].state = proc[t].state
                         /\ proc'[t].parent = proc[t].parent
                         /\ proc'[t].chan = (IF t = s THEN None ELSE proc[t].chan)
                         /\ proc'[t].killed = proc[t].killed /\ proc'[t].pid = proc[t].pid
                         /\ proc'[t].priority = proc[t].priority
    BY <1>1 DEF IInv, Types, ProcRec, Resume
  <1>3. \A t \in Slots : pc'[t] = "napping" => pc[t] = "napping"
    BY <1>1, Zenon DEF IInv, Types, PCs, Resume, Return
  <1>4. proc[s].state = "RUNNING"
    BY <1>1, OnCpu, Zenon
  <1>5. Ranges' /\ Ticking'
    BY <1>1, <1>2, Zenon DEF SInv, Ranges, Ticking
  <1>6. Napping'
    BY <1>1, <1>3, NappingKept, Zenon
  <1>7. NoLostWakeup'
    BY <1>1, <1>2, <1>4, SleepersKept
  <1> QED
    BY <1>5, <1>6, <1>7, Zenon DEF SInv

\* sys_sleep's test of the while condition, first and again: it leaves tickslock
\* with the process when there are ticks to wait for.
LEMMA NapSInv == ASSUME NEW c \in CPUs, IInv, SInv, NapAgain(c) \/ \E n \in Naps : sys_sleep(c, n)
                 PROVE  SInv'
  <1>1. PICK s \in Slots, n \in Nat : Runs(c, s) /\ tickslock = None /\ NapTest(c, s, n)
    BY InputAssumption, Zenon DEF NapAgain, sys_sleep, InUser, Users, SInv, Ranges
  <1>2. UNCHANGED <<proc, np, cpu, nextpid, intr, ptable_lock>>
    BY Zenon DEF NapAgain, sys_sleep
  <1>3. pc \in [Slots -> PCs] /\ left \in [Slots -> Nat] /\ None \notin CPUs
    BY CpuAssumption, Zenon DEF IInv, Types, SInv, Ranges
  <1>4. proc[s].state = "RUNNING" /\ cpu[c].proc = s /\ ptable_lock # c /\ intr[c] = "none"
    BY <1>1, OnCpu, Zenon DEF Runs
  <1>5. /\ left' \in [Slots -> Nat] /\ tickslock' \in {None, c}
        /\ \A t \in Slots \ {s} : left'[t] = left[t] /\ pc'[t] = pc[t]
        /\ pc'[s] = "napping" => left'[s] > 0 /\ tickslock' = c
    BY <1>1, <1>3 DEF NapTest, Return
  <1>6. Ranges'
    BY <1>2, <1>5, Zenon DEF SInv, Ranges
  <1>7. Ticking'
    BY <1>1, <1>2, <1>3, Zenon DEF SInv, Ticking
  <1>8. Napping'
    BY <1>1, <1>2, <1>3, <1>4, <1>5, Zenon DEF SInv, Napping
  <1>9. NoLostWakeup'
    BY <1>2, <1>4, <1>5, SleepersKept
  <1> QED
    BY <1>6, <1>7, <1>8, <1>9, Zenon DEF SInv

\* The timer's tick: sleepers whose time is over are about to be woken.
LEMMA TickSInv == ASSUME NEW c \in CPUs, IInv, SInv, tick(c) PROVE SInv'
  <1>1. c = CPU0 /\ tickslock = None /\ tickslock' = c /\ None \notin CPUs
        /\ UNCHANGED <<proc, pc, np, cpu, nextpid, ptable_lock>>
        /\ intr' = [intr EXCEPT ![c] = "tick"]
        /\ left' = [s \in Slots |-> IF left[s] = 0 THEN 0 ELSE left[s] - 1]
    BY CpuAssumption, Zenon DEF tick
  <1>2. left \in [Slots -> Nat] /\ intr \in [CPUs -> {"none", "tick", "yield", "setpriority"}]
    BY Zenon DEF SInv, Ranges
  <1>3. Ranges'
    BY <1>1, <1>2 DEF SInv, Ranges
  <1>4. Ticking' /\ Napping'
    BY <1>1, <1>2, Zenon DEF SInv, Ticking, Napping
  <1>5. intr'[CPU0] = "tick"
    BY <1>1, <1>2, Zenon
  <1>6. NoLostWakeup'
    BY <1>1, <1>5 DEF SInv, NoLostWakeup, Children
  <1> QED
    BY <1>3, <1>4, <1>6, Zenon DEF SInv

-----------------------------------------------------------------------------
\* Process s leaves CPU c through sched(): what that leaves to show.
LEMMA LeaveSInv ==
    ASSUME NEW c \in CPUs, IInv, SInv, NEW s \in Slots, cpu[c].proc = s, sched(c),
           UNCHANGED <<left, nextpid>>,
           \A t \in Slots : /\ proc'[t].pid = proc[t].pid /\ proc'[t].priority = proc[t].priority
                            /\ proc'[t].parent # t,
           intr' \in [CPUs -> {"none", "tick", "yield", "setpriority"}],
           \A d \in CPUs : intr'[d] # intr[d] => d = c /\ intr'[d] = "none" /\ intr[d] # "tick",
           \A t \in Slots : pc'[t] = "napping" => pc[t] = "napping" /\ t # s,
           tickslock' = IF pc[s] = "napping" THEN None ELSE tickslock
    PROVE  Ranges' /\ Ticking' /\ Napping'
  <1>1. PICK M : cpu \in CpuOf(M)
    BY Zenon DEF IInv, Types, CpuType
  <1>2. /\ ptable_lock' = c
        /\ \A d \in CPUs : /\ cpu'[d].proc = (IF d = c THEN None ELSE cpu[d].proc)
                           /\ cpu'[d].max_priority = cpu[d].max_priority
    BY <1>1 DEF CpuOf, sched
  <1>3. Ranges'
    BY <1>2, Zenon DEF SInv, Ranges
  <1>4. pc[s] = "napping" => tickslock = c /\ intr[c] = "none"
    <2>1. \A d \in CPUs : cpu[d].proc = s => d = c
      BY DEF IInv, RunningExclusive, None, Slots
    <2> QED
      BY <2>1 DEF SInv, Napping
  <1>5. \A t \in Slots : pc'[t] = "napping" =>
          /\ left[t] > 0
          /\ \E d \in CPUs : /\ cpu[d].proc = t /\ tickslock = d /\ d # c
                             /\ ptable_lock # d /\ intr[d] = "none"
    BY DEF SInv, Napping
  <1>6. Ticking'
    BY <1>4 DEF SInv, Ticking
  <1>7. Napping'
    BY <1>2, <1>4, <1>5 DEF Napping
  <1> QED
    BY <1>3, <1>6, <1>7, Zenon

\* sleep() on ticks: tickslock was held since the test that found ticks left.
LEMMA SleepSInv == ASSUME NEW c \in CPUs, IInv, SInv, sleep(c) PROVE SInv'
  <1>1. PICK s \in Slots : /\ cpu[c].proc = s /\ pc[s] = "napping" /\ tickslock' = None
          /\ proc' = [proc EXCEPT ![s].chan = TicksChan, ![s].state = "SLEEPING"]
          /\ pc' = [pc EXCEPT ![s] = "sleep"]
    BY Zenon DEF sleep, Runs
  <1>2. sched(c) /\ UNCHANGED <<np, left, intr, nextpid>>
    BY Zenon DEF sleep
  <1>3. proc \in [Slots -> ProcRec] /\ pc \in [Slots -> PCs]
        /\ intr \in [CPUs -> {"none", "tick", "yield", "setpriority"}]
    BY Zenon DEF IInv, Types, SInv, Ranges
  <1>4. \A t \in Slots : /\ proc'[t].state = (IF t = s THEN "SLEEPING" ELSE proc[t].state)
                         /\ proc'[t].chan = (IF t = s THEN TicksChan ELSE proc[t].chan)
                         /\ proc'[t].parent = proc[t].parent
                         /\ proc'[t].killed = proc[t].killed /\ proc'[t].pid = proc[t].pid
                         /\ proc'[t].priority = proc[t].priority
    BY <1>1, <1>3 DEF ProcRec
  <1>5. Ranges' /\ Ticking' /\ Napping'
    <2>1. \A t \in Slots : pc'[t] = "napping" => pc[t] = "napping" /\ t # s
      BY <1>1, <1>3, Zenon
    <2>2. \A t \in Slots : proc'[t].parent # t
      BY <1>4, Zenon DEF SInv, Ranges
    <2> QED
      BY <1>1, <1>2, <1>3, <1>4, <2>1, <2>2, LeaveSInv
  <1>6. left[s] > 0
    BY <1>1, Zenon DEF SInv, Napping
  <1>7. NoLostWakeup'
    BY <1>2, <1>4, <1>6 DEF SInv, NoLostWakeup, Children
  <1> QED
    BY <1>5, <1>7 DEF SInv

\* yield(), and the exit of a killed process that it turns into.
LEMMA YieldSInv == ASSUME NEW c \in CPUs, IInv, SInv, yield(c) PROVE SInv'
  <1> DEFINE s == cpu[c].proc
  <1>1. s \in Slots /\ UNCHANGED <<np, left, nextpid, tickslock>>
        /\ intr' = [intr EXCEPT ![c] = "none"] /\ intr[c] # "tick"
        /\ (tickslock # c \/ intr[c] # "none")
    BY Zenon DEF IInv, Types, CpuType, CpuOf, yield, Interruptible
  <1>2. proc \in [Slots -> ProcRec] /\ pc \in [Slots -> PCs]
        /\ intr \in [CPUs -> {"none", "tick", "yield", "setpriority"}]
    BY Zenon DEF IInv, Types, SInv, Ranges
  <1>3. pc[s] # "napping"
    <2>1. \A d \in CPUs : cpu[d].proc = s => d = c
      BY <1>1 DEF IInv, RunningExclusive, None, Slots
    <2> QED
      BY <1>1, <2>1 DEF SInv, Napping
  <1>4. intr'[CPU0] = "tick" <=> intr[CPU0] = "tick"
    BY <1>1, <1>2, CpuAssumption
  <1>5. CASE UNCHANGED <<proc, cpu, ptable_lock>> /\ pc' = [pc EXCEPT ![s] = "exit"]
    <2>1. Ranges' /\ Ticking'
      BY <1>1, <1>2, <1>5, Zenon DEF SInv, Ranges, Ticking
    <2>2. Napping'
      BY <1>1, <1>2, <1>5, NappingKept, Zenon
    <2>3. NoLostWakeup'
      BY <1>1, <1>4, <1>5 DEF SInv, NoLostWakeup, Children
    <2> QED
      BY <2>1, <2>2, <2>3, Zenon DEF SInv
  <1>6. CASE proc' = [proc EXCEPT ![s].state = "RUNNABLE"] /\ sched(c) /\ UNCHANGED pc
    <2>1. \A t \in Slots : /\ proc'[t].state = (IF t = s THEN "RUNNABLE" ELSE proc[t].state)
                           /\ proc'[t].parent = proc[t].parent /\ proc'[t].chan = proc[t].chan
                           /\ proc'[t].killed = proc[t].killed /\ proc'[t].pid = proc[t].pid
                           /\ proc'[t].priority = proc[t].priority
      BY <1>1, <1>2, <1>6 DEF ProcRec
    <2>2. Ranges' /\ Ticking' /\ Napping'
      <3>1. intr' \in [CPUs -> {"none", "tick", "yield", "setpriority"}]
            /\ \A d \in CPUs : intr'[d] # intr[d] => d = c /\ intr'[d] = "none" /\ intr[d] # "tick"
        BY <1>1, <1>2, Zenon
      <3>2. \A t \in Slots : pc'[t] = "napping" => pc[t] = "napping" /\ t # s
        BY <1>3, <1>6, Zenon
      <3>3. \A t \in Slots : proc'[t].parent # t
        BY <2>1, Zenon DEF SInv, Ranges
      <3> QED
        BY <1>1, <1>3, <1>6, <2>1, <3>1, <3>2, <3>3, LeaveSInv
    <2>3. NoLostWakeup'
      BY <1>1, <1>4, <2>1, SleepersKept
    <2> QED
      BY <2>2, <2>3, Zenon DEF SInv
  <1> QED
    BY <1>5, <1>6, Zenon DEF yield

-----------------------------------------------------------------------------
\* wakeup1 leaves nobody asleep on chan and touches nothing but state.
LEMMA Wakeup1Wakes ==
    ASSUME NEW P \in [Slots -> ProcRec], NEW chan, NEW t \in Slots
    PROVE  /\ wakeup1(P, chan)[t].state = (IF P[t].state = "SLEEPING" /\ P[t].chan = chan
                                           THEN "RUNNABLE" ELSE P[t].state)
           /\ wakeup1(P, chan)[t].parent = P[t].parent
           /\ wakeup1(P, chan)[t].chan = P[t].chan
           /\ wakeup1(P, chan)[t].killed = P[t].killed
           /\ wakeup1(P, chan)[t].pid = P[t].pid
           /\ wakeup1(P, chan)[t].priority = P[t].priority
  BY Zenon DEF wakeup1, ProcRec

\* The timer wakes the processes in sys_sleep: none is left asleep on ticks.
LEMMA WakeupSInv == ASSUME NEW c \in CPUs, IInv, SInv, wakeup(c) PROVE SInv'
  <1>1. proc' = wakeup1(proc, TicksChan) /\ tickslock' = None /\ intr[c] = "tick"
        /\ UNCHANGED <<pc, np, left, cpu, nextpid, ptable_lock>>
        /\ intr' = [intr EXCEPT ![c] = IF cpu[c].proc = None THEN "none" ELSE "yield"]
    BY Zenon DEF wakeup
  <1>2. proc \in [Slots -> ProcRec] /\ intr \in [CPUs -> {"none", "tick", "yield", "setpriority"}]
    BY Zenon DEF IInv, Types, SInv, Ranges
  <1>3. \A t \in Slots : /\ proc'[t].state = (IF proc[t].state = "SLEEPING" /\ proc[t].chan = TicksChan
                                              THEN "RUNNABLE" ELSE proc[t].state)
                         /\ proc'[t].parent = proc[t].parent /\ proc'[t].chan = proc[t].chan
                         /\ proc'[t].killed = proc[t].killed /\ proc'[t].pid = proc[t].pid
                         /\ proc'[t].priority = proc[t].priority
    BY <1>1, <1>2, Wakeup1Wakes
  <1>4. c = CPU0 /\ tickslock = c
    BY <1>1, Zenon DEF SInv, Ticking
  <1>5. Ranges'
    BY <1>1, <1>2, <1>3, Zenon DEF SInv, Ranges
  <1>6. Ticking'
    BY <1>1, <1>2, <1>4, Zenon DEF SInv, Ticking
  <1>7. Napping'
    BY <1>1, <1>4, Zenon DEF SInv, Napping
  <1>8. NoLostWakeup'
    BY <1>3 DEF SInv, NoLostWakeup, Children
  <1> QED
    BY <1>5, <1>6, <1>7, <1>8, Zenon DEF SInv

\* kill() wakes its victim and marks it: no sleeper is left marked.
LEMMA KillSInv == ASSUME NEW c \in CPUs, NEW pid, IInv, SInv, kill(c, pid) PROVE SInv'
  <1>1. PICK s \in Users, t \in Slots : /\ Runs(c, s)
          /\ proc' = [proc EXCEPT ![t].killed = TRUE,
                                  ![t].state = IF @ = "SLEEPING" THEN "RUNNABLE" ELSE @]
          /\ pc' = [pc EXCEPT ![s] = IF s = t THEN "exit" ELSE @]
    BY Zenon DEF kill, InUser
  <1>2. proc \in [Slots -> ProcRec] /\ pc \in [Slots -> PCs]
    BY Zenon DEF IInv, Types
  <1>3. \A u \in Slots : /\ proc'[u].state = (IF u = t /\ proc[u].state = "SLEEPING"
                                              THEN "RUNNABLE" ELSE proc[u].state)
                         /\ proc'[u].parent = proc[u].parent /\ proc'[u].chan = proc[u].chan
                         /\ u # t => proc'[u].killed = proc[u].killed
                         /\ proc'[u].pid = proc[u].pid
                         /\ proc'[u].priority = proc[u].priority
    BY <1>1, <1>2, Zenon DEF ProcRec
  <1>4. UNCHANGED <<np, left, cpu, intr, nextpid, ptable_lock, tickslock>>
    BY Zenon DEF kill
  <1>5. \A u \in Slots : pc'[u] = "napping" => pc[u] = "napping"
    BY <1>1, <1>2, Zenon
  <1>6. Ranges' /\ Ticking'
    BY <1>3, <1>4, Zenon DEF SInv, Ranges, Ticking
  <1>7. Napping'
    BY <1>4, <1>5, NappingKept, Zenon
  <1>8. NoLostWakeup'
    BY <1>3, <1>4, SleepersKept
  <1> QED
    BY <1>6, <1>7, <1>8, Zenon DEF SInv

\* setpriority() keeps the range of priorities.
LEMMA SetPrioritySInv ==
    ASSUME NEW c \in CPUs, NEW n, IInv, SInv, sys_setpriority(c, n) PROVE SInv'
  <1>1. PICK s \in Users : /\ Runs(c, s) /\ pc[s] = "user" /\ n \in 0 .. Worst - 1
                           /\ proc' = [proc EXCEPT ![s].priority = n]
                           /\ intr' = [intr EXCEPT ![c] = IF proc[s].priority < n
                                                          THEN "setpriority" ELSE @]
    BY Zenon DEF sys_setpriority, InUser
  <1>2. proc \in [Slots -> ProcRec] /\ intr \in [CPUs -> {"none", "tick", "yield", "setpriority"}]
    BY Zenon DEF IInv, Types, SInv, Ranges
  <1>3. \A t \in Slots : /\ proc'[t].state = proc[t].state
                         /\ proc'[t].parent = proc[t].parent /\ proc'[t].chan = proc[t].chan
                         /\ proc'[t].killed = proc[t].killed /\ proc'[t].pid = proc[t].pid
                         /\ proc'[t].priority = IF t = s THEN n ELSE proc[t].priority
    BY <1>1, <1>2, Zenon DEF ProcRec, Users
  <1>4. UNCHANGED <<pc, np, left, cpu, nextpid, ptable_lock, tickslock>>
    BY Zenon DEF sys_setpriority
  <1>5. cpu[c].proc = s /\ intr[c] = "none" /\ s \in Slots
    BY <1>1, Zenon DEF Runs, Users
  <1>6. Ranges' /\ Ticking'
    BY <1>1, <1>2, <1>3, <1>4, <1>5 DEF SInv, Ranges, Ticking
  <1>7. Napping'
    BY <1>1, <1>2, <1>4, <1>5, NappingKept, Zenon
  <1>8. NoLostWakeup'
    BY <1>1, <1>2, <1>3, <1>4, <1>5, CpuAssumption, SleepersKept
  <1> QED
    BY <1>6, <1>7, <1>8 DEF SInv

-----------------------------------------------------------------------------
\* allocproc() hands out the next pid, within the bound.
LEMMA AllocSInv == ASSUME NEW c \in CPUs, IInv, SInv, allocproc(c) PROVE SInv'
  <1>1. PICK s \in Slots, t \in Slots :
          /\ Runs(c, s) /\ pc[s] = "user" /\ proc[t].state = "UNUSED" /\ nextpid <= MaxPid
          /\ proc' = [proc EXCEPT ![t].state = "EMBRYO", ![t].pid = nextpid,
                                  ![t].priority = DefaultPriority]
          /\ pc' = [pc EXCEPT ![s] = "fork", ![t] = "forkret"]
    BY Zenon DEF allocproc, InUser, FirstUnused
  <1>2. nextpid' = nextpid + 1 /\ UNCHANGED <<left, cpu, intr, ptable_lock, tickslock>>
    BY Zenon DEF allocproc
  <1>3. proc \in [Slots -> ProcRec] /\ pc \in [Slots -> PCs] /\ nextpid \in 1 .. MaxPid + 1
    BY Zenon DEF IInv, Types, SInv, Ranges
  <1>4. \A u \in Slots : /\ proc'[u].state = (IF u = t THEN "EMBRYO" ELSE proc[u].state)
                         /\ proc'[u].pid = (IF u = t THEN nextpid ELSE proc[u].pid)
                         /\ proc'[u].priority = (IF u = t THEN DefaultPriority ELSE proc[u].priority)
                         /\ proc'[u].parent = proc[u].parent /\ proc'[u].chan = proc[u].chan
                         /\ proc'[u].killed = proc[u].killed
    BY <1>1, <1>3 DEF ProcRec
  <1>5. \A u \in Slots : pc'[u] = "napping" => pc[u] = "napping"
    BY <1>1, <1>3, Zenon
  <1>6. Ranges'
    <2>1. nextpid \in 0 .. MaxPid /\ nextpid' \in 1 .. MaxPid + 1
      BY <1>1, <1>2, <1>3, InputAssumption
    <2>2. DefaultPriority \in 0 .. Worst - 1
      BY DEF DefaultPriority, Worst
    <2> QED
      BY <1>2, <1>4, <2>1, <2>2, Zenon DEF SInv, Ranges
  <1>7. Ticking'
    BY <1>2, Zenon DEF SInv, Ticking
  <1>8. Napping'
    BY <1>2, <1>5, NappingKept, Zenon
  <1>9. NoLostWakeup'
    BY <1>2, <1>4, SleepersKept
  <1> QED
    BY <1>6, <1>7, <1>8, <1>9 DEF SInv

\* The end of fork(): a new child takes nothing from a sleeper.
LEMMA ForkSInv == ASSUME NEW c \in CPUs, IInv, SInv, fork(c) \/ forkFails(c) PROVE SInv'
  <1>1. PICK s \in Slots :
          /\ Runs(c, s) /\ pc[s] = "fork"
          /\ \/ proc' = [proc EXCEPT ![np[s]].state = "RUNNABLE", ![np[s]].parent = s]
             \/ proc' = [proc EXCEPT ![np[s]].state = "UNUSED"]
          /\ pc' = [pc EXCEPT ![s] = Return(s)]
    BY Zenon DEF fork, forkFails
  <1>2. UNCHANGED <<left, cpu, intr, nextpid, ptable_lock, tickslock>>
    BY Zenon DEF fork, forkFails
  <1>3. proc \in [Slots -> ProcRec] /\ pc \in [Slots -> PCs]
    BY Zenon DEF IInv, Types
  <1>4. PICK t \in Slots : t = np[s] /\ proc[t].state = "EMBRYO"
    BY <1>1, Zenon DEF IInv, Forking
  <1>5. proc[s].state = "RUNNING" /\ s # t /\ t # initproc
    BY <1>1, <1>4, OnCpu, Zenon DEF IInv, InitLives, Alive, Runs
  <1>6. \A u \in Slots :
          /\ u # t => proc'[u] = proc[u]
          /\ proc'[u].chan = proc[u].chan /\ proc'[u].killed = proc[u].killed
          /\ proc'[u].pid = proc[u].pid /\ proc'[u].priority = proc[u].priority
          /\ proc'[t].state \in {"RUNNABLE", "UNUSED"}
          /\ proc'[t].parent \in {s, proc[t].parent}
    <2>1. CASE proc' = [proc EXCEPT ![t].state = "UNUSED"]
      BY <1>3, <2>1, Zenon DEF ProcRec
    <2>2. CASE proc' = [proc EXCEPT ![t].state = "RUNNABLE", ![t].parent = s]
      BY <1>3, <2>2, Zenon DEF ProcRec
    <2> QED
      BY <1>1, <1>4, <2>1, <2>2, Zenon
  <1>7. proc[t].parent = None
    BY <1>4, <1>5, Zenon DEF IInv, ParentAlive
  <1>8. \A u \in Slots : pc'[u] = "napping" => pc[u] = "napping"
    BY <1>1, <1>3, Zenon DEF Return
  <1>9. Ranges' /\ Ticking'
    <2>1. \A u \in Slots : proc'[u].parent # u
      BY <1>5, <1>6 DEF SInv, Ranges
    <2> QED
      BY <1>2, <1>6, <2>1, Zenon DEF SInv, Ranges, Ticking
  <1>10. Napping'
    BY <1>2, <1>8, NappingKept, Zenon
  <1>11. NoLostWakeup'
    <2> SUFFICES ASSUME NEW u \in Slots, proc'[u].state = "SLEEPING"
                 PROVE  \/ /\ proc'[u].chan = u /\ ~proc'[u].killed /\ Children(u)' # {}
                           /\ \A v \in Children(u)' : proc'[v].state # "ZOMBIE"
                        \/ proc'[u].chan = TicksChan /\ (left'[u] > 0 \/ intr'[CPU0] = "tick")
      BY Zenon DEF NoLostWakeup
    <2>1. u # t /\ u # s /\ proc[u].state = "SLEEPING" /\ u # None
      BY <1>5, <1>6 DEF None, Slots
    <2>2. Children(u)' = Children(u) /\ t \notin Children(u)
      BY <1>6, <1>7, <2>1 DEF Children
    <2> QED
      BY <1>2, <1>6, <2>1, <2>2 DEF SInv, NoLostWakeup, Children
  <1> QED
    BY <1>9, <1>10, <1>11 DEF SInv

\* exit() wakes the parent of the zombie it leaves, and init when it passes on a
\* zombie to it.
LEMMA ExitSInv == ASSUME NEW c \in CPUs, IInv, SInv, exit(c) PROVE SInv'
  <1>1. PICK s \in Users : /\ Runs(c, s) /\ pc[s] \in {"user", "exit"} /\ sched(c)
          /\ proc' = [(IF \E t \in Slots : wakeup1(proc, proc[s].parent)[t].parent = s
                                          /\ wakeup1(proc, proc[s].parent)[t].state = "ZOMBIE"
                       THEN wakeup1(Reparent(wakeup1(proc, proc[s].parent), s), initproc)
                       ELSE Reparent(wakeup1(proc, proc[s].parent), s))
                      EXCEPT ![s].state = "ZOMBIE"]
    BY Zenon DEF exit
  <1>2. UNCHANGED <<pc, np, left, intr, nextpid, tickslock>>
    BY Zenon DEF exit
  <1>3. proc \in [Slots -> ProcRec] /\ s \in Slots /\ s # initproc /\ initproc \in Slots
        /\ intr \in [CPUs -> {"none", "tick", "yield", "setpriority"}]
    BY SlotsAssumption DEF IInv, Types, SInv, Ranges, Users, Slots, initproc
  <1>4. PICK W : W = wakeup1(proc, proc[s].parent)
    BY Zenon
  <1>5. PICK R : R = Reparent(W, s)
    BY Zenon
  <1>6. W \in [Slots -> ProcRec]
        /\ \A t \in Slots :
             /\ W[t].state = (IF proc[t].state = "SLEEPING" /\ proc[t].chan = proc[s].parent
                              THEN "RUNNABLE" ELSE proc[t].state)
             /\ W[t].parent = proc[t].parent /\ W[t].chan = proc[t].chan
             /\ W[t].killed = proc[t].killed /\ W[t].pid = proc[t].pid
             /\ W[t].priority = proc[t].priority
    BY <1>3, <1>4, Wakeup1, Wakeup1Wakes
  <1>7. R \in [Slots -> ProcRec]
        /\ \A t \in Slots :
             /\ R[t].parent = (IF W[t].parent = s THEN initproc ELSE W[t].parent)
             /\ R[t].state = W[t].state /\ R[t].chan = W[t].chan
             /\ R[t].killed = W[t].killed /\ R[t].pid = W[t].pid
             /\ R[t].priority = W[t].priority
    BY <1>3, <1>5, <1>6 DEF Reparent, ProcRec
  <1>8. PICK V : /\ proc' = [V EXCEPT ![s].state = "ZOMBIE"]
                 /\ V = IF \E t \in Slots : W[t].parent = s /\ W[t].state = "ZOMBIE"
                        THEN wakeup1(R, initproc) ELSE R
    BY <1>1, <1>4, <1>5, Zenon
  <1>9. V \in [Slots -> ProcRec]
        /\ \A t \in Slots :
             /\ V[t].state # R[t].state => R[t].state = "SLEEPING" /\ V[t].state = "RUNNABLE"
             /\ (\E u \in Slots : W[u].parent = s /\ W[u].state = "ZOMBIE")
                /\ R[t].state = "SLEEPING" /\ R[t].chan = initproc => V[t].state = "RUNNABLE"
             /\ V[t].parent = R[t].parent /\ V[t].chan = R[t].chan
             /\ V[t].killed = R[t].killed /\ V[t].pid = R[t].pid
             /\ V[t].priority = R[t].priority
    <2>1. CASE V = R /\ ~ \E u \in Slots : W[u].parent = s /\ W[u].state = "ZOMBIE"
      BY <1>7, <2>1, Zenon
    <2>2. CASE V = wakeup1(R, initproc)
      BY <1>7, <2>2, Wakeup1, Wakeup1Wakes
    <2> QED
      BY <1>8, <2>1, <2>2, Zenon
  <1>10. \A t \in Slots :
           /\ proc'[t].state = (IF t = s THEN "ZOMBIE" ELSE V[t].state)
           /\ proc'[t].parent = V[t].parent /\ proc'[t].chan = V[t].chan
           /\ proc'[t].killed = V[t].killed /\ proc'[t].pid = V[t].pid
           /\ proc'[t].priority = V[t].priority
    BY <1>3, <1>8, <1>9 DEF ProcRec
  <1>11. cpu[c].proc = s /\ proc[s].state = "RUNNING"
    BY <1>1, <1>3, OnCpu DEF Runs
  <1>12. Ranges' /\ Ticking' /\ Napping'
    <2>1. \A t \in Slots : proc'[t].pid = proc[t].pid /\ proc'[t].priority = proc[t].priority
      BY <1>6, <1>7, <1>9, <1>10
    <2>2. pc[s] # "napping"
      BY <1>1, Zenon
    <2>3. \A t \in Slots : proc'[t].parent # t
      <3>1. \A t \in Slots :
              proc'[t].parent = IF proc[t].parent = s THEN initproc ELSE proc[t].parent
        BY <1>6, <1>7, <1>9, <1>10
      <3>2. proc[initproc].parent # s
        BY <1>3 DEF IInv, InitLives, None, Slots
      <3> QED
        BY <3>1, <3>2, Zenon DEF SInv, Ranges
    <2> QED
      BY <1>1, <1>2, <1>3, <1>11, <2>1, <2>2, <2>3, LeaveSInv
  <1>13. NoLostWakeup'
    <2> SUFFICES ASSUME NEW u \in Slots, proc'[u].state = "SLEEPING"
                 PROVE  \/ /\ proc'[u].chan = u /\ ~proc'[u].killed /\ Children(u)' # {}
                           /\ \A v \in Children(u)' : proc'[v].state # "ZOMBIE"
                        \/ proc'[u].chan = TicksChan /\ (left'[u] > 0 \/ intr'[CPU0] = "tick")
      BY Zenon DEF NoLostWakeup
    <2>1. /\ u # s /\ proc[u].state = "SLEEPING" /\ proc[u].chan # proc[s].parent
          /\ proc'[u].chan = proc[u].chan /\ proc'[u].killed = proc[u].killed
          /\ (\E v \in Slots : proc[v].parent = s /\ proc[v].state = "ZOMBIE")
               => proc[u].chan # initproc
      <3>1. u # s /\ V[u].state = "SLEEPING"
        BY <1>10, Zenon
      <3>2. R[u].state = "SLEEPING" /\ W[u].state = "SLEEPING"
        BY <1>7, <1>9, <3>1
      <3>3. proc[u].state = "SLEEPING" /\ proc[u].chan # proc[s].parent
        BY <1>6, <3>2, Zenon
      <3>4. ASSUME NEW v \in Slots, proc[v].parent = s, proc[v].state = "ZOMBIE"
            PROVE  proc[u].chan # initproc
        <4>1. W[v].parent = s /\ W[v].state = "ZOMBIE"
          BY <1>6, <3>4, Zenon
        <4> QED
          BY <1>6, <1>7, <1>9, <3>1, <3>2, <4>1
      <3>5. proc'[u].chan = W[u].chan /\ proc'[u].killed = W[u].killed
        BY <1>7, <1>9, <1>10
      <3>6. proc'[u].chan = proc[u].chan /\ proc'[u].killed = proc[u].killed
        BY <1>6, <3>5, Zenon
      <3> QED
        BY <3>1, <3>3, <3>4, <3>6, Zenon
    <2>2. CASE proc[u].chan = TicksChan /\ (left[u] > 0 \/ intr[CPU0] = "tick")
      BY <1>2, <2>1, <2>2, Zenon
    <2>3. CASE /\ proc[u].chan = u /\ ~proc[u].killed /\ Children(u) # {}
               /\ \A v \in Children(u) : proc[v].state # "ZOMBIE"
      <3>1. \A v \in Slots :
              /\ proc'[v].parent = (IF proc[v].parent = s THEN initproc ELSE proc[v].parent)
              /\ proc'[v].state = "ZOMBIE" => v = s \/ proc[v].state = "ZOMBIE"
        BY <1>6, <1>7, <1>9, <1>10
      <3>2. Children(u) \subseteq Children(u)'
        BY <2>1, <3>1, Zenon DEF Children
      <3>3. ASSUME NEW v \in Children(u)' PROVE proc'[v].state # "ZOMBIE"
        <4>1. v \in Slots /\ proc'[v].parent = u
          BY <3>3, Zenon DEF Children
        <4>2. CASE proc[v].parent = s
          <5>1. u = initproc /\ v # s
            BY <1>3, <3>1, <4>1, <4>2, Zenon DEF SInv, Ranges
          <5> QED
            BY <2>1, <2>3, <3>1, <4>1, <4>2, <5>1, Zenon
        <4>3. CASE proc[v].parent # s
          <5>1. v \in Children(u) /\ v # s
            BY <2>1, <2>3, <3>1, <4>1, <4>3 DEF Children
          <5> QED
            BY <2>3, <3>1, <4>1, <5>1, Zenon
        <4> QED
          BY <4>2, <4>3, Zenon
      <3> QED
        BY <2>1, <2>3, <3>2, <3>3, Zenon
    <2> QED
      BY <2>1, <2>2, <2>3, Zenon DEF SInv, NoLostWakeup
  <1> QED
    BY <1>12, <1>13 DEF SInv

\* wait() sleeps, with ptable.lock held since it looked, only while a child is
\* alive and nobody killed it.
LEMMA WaitSInv == ASSUME NEW c \in CPUs, IInv, SInv, wait(c) \/ WaitAgain(c) PROVE SInv'
  <1>1. PICK s \in Slots : /\ cpu[c].proc = s /\ WaitTurn(c, s)
                           /\ pc[s] \in {"user", "wait"}
    BY Zenon DEF wait, WaitAgain, InUser, Runs
  <1>2. UNCHANGED <<np, left, intr, nextpid, tickslock>>
    BY Zenon DEF wait, WaitAgain
  <1>3. proc \in [Slots -> ProcRec] /\ pc \in [Slots -> PCs] /\ proc[s].state = "RUNNING"
        /\ intr \in [CPUs -> {"none", "tick", "yield", "setpriority"}] /\ None \notin CPUs
    BY <1>1, OnCpu, CpuAssumption DEF IInv, Types, SInv, Ranges
  <1>4. \A u \in Slots : pc'[u] = "napping" => pc[u] = "napping" /\ u # s
    BY <1>1, <1>3 DEF WaitTurn, Return
  <1>5. ASSUME cpu' = cpu, ptable_lock' = None,
               \A u \in Slots : /\ proc'[u].pid \in {0, proc[u].pid}
                                /\ proc'[u].priority = proc[u].priority
                                /\ proc'[u].parent \in {None, proc[u].parent}
        PROVE  Ranges' /\ Ticking' /\ Napping'
    <2>1. Ranges'
      <3>1. 0 \in 0 .. MaxPid
        BY InputAssumption
      <3>2. \A u \in Slots : u # None
        BY DEF Slots, None
      <3>3. \A u \in Slots : /\ proc'[u].pid \in 0 .. MaxPid
                            /\ proc'[u].priority \in 0 .. Worst - 1
                            /\ proc'[u].parent # u
        <4> TAKE u \in Slots
        <4>1. /\ proc[u].pid \in 0 .. MaxPid /\ proc[u].priority \in 0 .. Worst - 1
              /\ proc[u].parent # u
          BY Zenon DEF SInv, Ranges
        <4>2. /\ proc'[u].pid = 0 \/ proc'[u].pid = proc[u].pid
              /\ proc'[u].priority = proc[u].priority
              /\ proc'[u].parent = None \/ proc'[u].parent = proc[u].parent
          BY <1>5, Zenon
        <4> QED
          BY <3>1, <3>2, <4>1, <4>2, Zenon
      <3> QED
        BY <1>2, <1>5, <3>3, Zenon DEF SInv, Ranges
    <2>2. Ticking'
      BY <1>2, Zenon DEF SInv, Ticking
    <2>3. Napping'
      BY <1>2, <1>3, <1>4, <1>5, NappingKept, Zenon
    <2> QED
      BY <2>1, <2>2, <2>3, Zenon
  <1>6. ASSUME NEW t \in Children(s), proc[t].state = "ZOMBIE", cpu' = cpu, ptable_lock' = None,
               proc' = [proc EXCEPT ![t].pid = 0, ![t].parent = None,
                                    ![t].killed = FALSE, ![t].state = "UNUSED",
                                    ![s].chan = None]
        PROVE  SInv'
    <2>1. t \in Slots /\ t # s /\ proc[t].state = "ZOMBIE" /\ proc[t].parent = s
      BY <1>3, <1>6, Zenon DEF Children
    <2>2. \A u \in Slots :
            /\ u \notin {s, t} => proc'[u] = proc[u]
            /\ u = t => /\ proc'[u].state = "UNUSED" /\ proc'[u].pid = 0
                        /\ proc'[u].parent = None /\ proc'[u].priority = proc[u].priority
            /\ u = s => /\ proc'[u].state = "RUNNING" /\ proc'[u].pid = proc[u].pid
                        /\ proc'[u].parent = proc[u].parent
                        /\ proc'[u].priority = proc[u].priority
      BY <1>3, <1>6, <2>1 DEF ProcRec
    <2>3. \A u \in Slots : /\ proc'[u].pid \in {0, proc[u].pid}
                           /\ proc'[u].priority = proc[u].priority
                           /\ proc'[u].parent \in {None, proc[u].parent}
      BY <2>2, Zenon
    <2>4. Ranges' /\ Ticking' /\ Napping'
      BY <1>5, <1>6, <2>3, Zenon
    <2>5. NoLostWakeup'
      <3> SUFFICES ASSUME NEW u \in Slots, proc'[u].state = "SLEEPING"
                   PROVE  \/ /\ proc'[u].chan = u /\ ~proc'[u].killed /\ Children(u)' # {}
                             /\ \A v \in Children(u)' : proc'[v].state # "ZOMBIE"
                          \/ proc'[u].chan = TicksChan /\ (left'[u] > 0 \/ intr'[CPU0] = "tick")
        BY Zenon DEF NoLostWakeup
      <3>1. u \notin {s, t} /\ proc'[u] = proc[u] /\ u # None
        BY <2>2 DEF None, Slots
      <3>2. \A v \in Slots : proc'[v].parent = u <=> proc[v].parent = u
        BY <2>1, <2>2, <3>1, Zenon
      <3>3. \A v \in Slots : proc'[v].state = "ZOMBIE" => proc[v].state = "ZOMBIE"
        BY <2>2, Zenon
      <3>4. \/ /\ proc[u].chan = u /\ ~proc[u].killed /\ Children(u) # {}
               /\ \A v \in Children(u) : proc[v].state # "ZOMBIE"
            \/ proc[u].chan = TicksChan /\ (left[u] > 0 \/ intr[CPU0] = "tick")
        BY <3>1, Zenon DEF SInv, NoLostWakeup
      <3>5. Children(u)' = Children(u) /\ Children(u) \subseteq Slots
        BY <3>2, Zenon DEF Children
      <3> QED
        BY <1>2, <3>1, <3>3, <3>4, <3>5, Zenon
    <2> QED
      BY <2>4, <2>5, Zenon DEF SInv
  <1>7. CASE cpu' = cpu /\ ptable_lock' = None /\ proc' = [proc EXCEPT ![s].chan = None]
    <2>1. \A u \in Slots : /\ proc'[u].state = proc[u].state
                           /\ proc'[u].parent = proc[u].parent
                           /\ u # s => proc'[u].chan = proc[u].chan
                           /\ proc'[u].killed = proc[u].killed /\ proc'[u].pid = proc[u].pid
                           /\ proc'[u].priority = proc[u].priority
      BY <1>3, <1>7 DEF ProcRec
    <2>2. Ranges' /\ Ticking' /\ Napping'
      BY <1>5, <1>7, <2>1
    <2>3. NoLostWakeup'
      BY <1>2, <1>3, <2>1, SleepersKept, Zenon
    <2> QED
      BY <2>2, <2>3, Zenon DEF SInv
  <1>8. CASE /\ {t \in Children(s) : proc[t].state = "ZOMBIE"} = {}
             /\ Children(s) # {} /\ ~proc[s].killed
             /\ sched(c) /\ proc' = [proc EXCEPT ![s].chan = s, ![s].state = "SLEEPING"]
    <2>1. \A u \in Slots : /\ proc'[u].state = (IF u = s THEN "SLEEPING" ELSE proc[u].state)
                           /\ proc'[u].chan = (IF u = s THEN s ELSE proc[u].chan)
                           /\ proc'[u].parent = proc[u].parent
                           /\ proc'[u].killed = proc[u].killed /\ proc'[u].pid = proc[u].pid
                           /\ proc'[u].priority = proc[u].priority
      BY <1>3, <1>8 DEF ProcRec
    <2>2. Ranges' /\ Ticking' /\ Napping'
      <3>1. \A u \in Slots : proc'[u].parent # u
        BY <2>1, Zenon DEF SInv, Ranges
      <3> QED
        BY <1>1, <1>2, <1>3, <1>4, <1>8, <2>1, <3>1, LeaveSInv
    <2>3. NoLostWakeup'
      <3>1. \A u \in Slots : Children(u)' = Children(u)
        BY <2>1, Zenon DEF Children
      <3>2. \A u \in Slots : proc'[u].state = "ZOMBIE" => proc[u].state = "ZOMBIE"
        BY <2>1, Zenon
      <3>3. ASSUME NEW u \in Slots, proc'[u].state = "SLEEPING"
            PROVE  \/ /\ proc'[u].chan = u /\ ~proc'[u].killed /\ Children(u)' # {}
                      /\ \A v \in Children(u)' : proc'[v].state # "ZOMBIE"
                   \/ proc'[u].chan = TicksChan /\ (left'[u] > 0 \/ intr'[CPU0] = "tick")
        <4>1. CASE u = s
          <5>1. \A v \in Children(s) : proc'[v].state # "ZOMBIE"
            BY <1>8, <3>2, Zenon DEF Children
          <5>2. proc'[s].chan = s /\ ~proc'[s].killed /\ Children(s)' = Children(s)
            BY <1>8, <2>1, <3>1, Zenon
          <5> QED
            BY <1>8, <4>1, <5>1, <5>2, Zenon
        <4>2. CASE u # s
          <5>1. proc[u].state = "SLEEPING" /\ proc'[u].chan = proc[u].chan
                /\ proc'[u].killed = proc[u].killed
            BY <2>1, <3>3, <4>2, Zenon
          <5>2. \/ /\ proc[u].chan = u /\ ~proc[u].killed /\ Children(u) # {}
                   /\ \A v \in Children(u) : proc[v].state # "ZOMBIE"
                \/ proc[u].chan = TicksChan /\ (left[u] > 0 \/ intr[CPU0] = "tick")
            BY <5>1, Zenon DEF SInv, NoLostWakeup
          <5>3. Children(u)' = Children(u) /\ Children(u) \subseteq Slots
            BY <3>1, Zenon DEF Children
          <5> QED
            BY <1>2, <3>2, <5>1, <5>2, <5>3, Zenon
        <4> QED
          BY <4>1, <4>2, Zenon
      <3> QED
        BY <3>3, Zenon DEF NoLostWakeup
    <2> QED
      BY <2>2, <2>3, Zenon DEF SInv
  <1> QED
    BY <1>1, <1>6, <1>7, <1>8, Zenon DEF WaitTurn

-----------------------------------------------------------------------------
\* Every step keeps the second invariant.
LEMMA NextSInv == IInv /\ SInv /\ [Next]_vars => SInv'
  <1> SUFFICES ASSUME IInv, SInv, [Next]_vars PROVE SInv'
    BY Zenon
  <1>1. CASE UNCHANGED vars
    BY <1>1, Zenon DEF vars, SInv, Ranges, Ticking, Napping, NoLostWakeup, Children
  <1>2. ASSUME NEW c \in CPUs, Step(c) PROVE SInv'
    BY <1>2, SchedulerSInv, SwitchSInv, ResumeSInv, NapSInv, TickSInv, SleepSInv, YieldSInv,
       WakeupSInv, KillSInv, SetPrioritySInv, AllocSInv, ForkSInv, ExitSInv, WaitSInv, Zenon DEF Step
  <1> QED
    BY <1>1, <1>2, Zenon DEF Next

\* Nobody sleeps through what it waits for, whatever the number of CPUs, slots
\* and ticks: wait() goes to sleep under the ptable.lock it looked with, exit()
\* and kill() wake under it, and sys_sleep keeps tickslock from its test until
\* sleep() has ptable.lock, so that no tick falls in between.
THEOREM NoWakeupLost == Spec => []NoLostWakeup
  <1>1. SInv => NoLostWakeup
    BY DEF SInv
  <1> QED
    BY <1>1, InitIInv, NextIInv, InitSInv, NextSInv, PTL DEF Spec

\* Types and ranges: sys_setpriority keeps priorities below the 201 that the
\* scheduler's first loop starts from, the minimum that loop takes is one of
\* them or 201, and allocproc() hands out pids up to the bound.
THEOREM TypesKept == Spec => []TypeOK
  BY RangesType, InitIInv, NextIInv, InitSInv, NextSInv, PTL DEF Spec
=============================================================================
