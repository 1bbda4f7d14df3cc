------------------------------ MODULE Xv6Proc ------------------------------
(***************************************************************************)
(* Processes of lab3's xv6 on several CPUs: the process table of proc.c,   *)
(* fork, exit, wait, kill, sleep and wakeup, the priority scheduler, the   *)
(* system calls of sysproc.c that drive them, and the timer interrupt of   *)
(* trap.c.                                                                 *)
(*                                                                         *)
(* One step is one critical section of ptable.lock or of tickslock.  The   *)
(* two spin locks are variables because they outlive a step: ptable.lock   *)
(* is handed from the scheduler to the process it starts and back, and     *)
(* sys_sleep and the timer hold tickslock while they wait for ptable.lock. *)
(* A step that acquires a lock is disabled while the lock is taken: a spin *)
(* that never ends shows as a deadlock.                                    *)
(*                                                                         *)
(* ticks is kept as the number of ticks each sleeper still has to see      *)
(* (left), which is what sys_sleep computes from it at every wakeup.       *)
(***************************************************************************)
EXTENDS Integers, FiniteSets

CONSTANTS
    NPROC,          \* slots of the process table
    CPUs,           \* the processors
    CPU0,           \* the one that counts ticks
    MaxPid,         \* bound: process ids handed out
    Priorities,     \* the values user code passes to setpriority
    Naps            \* the values user code passes to sleep

None == 0
Slots == 1 .. NPROC
initproc == 1
Users == Slots \ {initproc}   \* init.c only forks and waits
DefaultPriority == 50
Worst == 201
TicksChan == NPROC + 1

ASSUME SlotsAssumption == NPROC \in Nat /\ NPROC >= 1
ASSUME CpuAssumption == CPU0 \in CPUs /\ None \notin CPUs
ASSUME InputAssumption ==
    /\ Priorities \subseteq Int
    /\ Naps \subseteq Nat
    /\ MaxPid \in Nat /\ MaxPid >= 1

VARIABLES
    proc,           \* ptable.proc
    pc,             \* where each process's kernel thread is, or resumes
    np,             \* the child a fork in progress has allocated
    left,           \* ticks a process in sys_sleep still has to wait for
    cpu,            \* per CPU: c->proc, and scheduler()'s max_priority and p
    intr,           \* per CPU: what is left of a timer interrupt or setpriority
    nextpid,
    ptable_lock,    \* the CPU that holds it, or None
    tickslock

vars == <<proc, pc, np, left, cpu, intr, nextpid, ptable_lock, tickslock>>

Slot(state, pid, priority) ==
    [state |-> state, pid |-> pid, parent |-> None, chan |-> None, killed |-> FALSE,
     priority |-> priority]

\* userinit has run: slot 1 holds init, RUNNABLE; every CPU enters scheduler().
Init ==
    /\ proc = [s \in Slots |->
                 IF s = initproc THEN Slot("RUNNABLE", 1, DefaultPriority)
                                 ELSE Slot("UNUSED", 0, 0)]
    /\ pc = [s \in Slots |-> "forkret"]
    /\ np = [s \in Slots |-> None]
    /\ left = [s \in Slots |-> 0]
    /\ cpu = [c \in CPUs |-> [proc |-> None, max_priority |-> Worst, p |-> 0]]
    /\ intr = [c \in CPUs |-> "none"]
    /\ nextpid = 2
    /\ ptable_lock = None
    /\ tickslock = None

-----------------------------------------------------------------------------
\* The scheduler

Runnable == {s \in Slots : proc[s].state = "RUNNABLE"}

Best(P) == CHOOSE m \in {proc[s].priority : s \in P} \cup {Worst} :
               \A s \in P : m <= proc[s].priority

\* Mutant: the first loop forgets to skip slots that are not RUNNABLE.
SchedulerAllSlots(c) ==
    /\ cpu[c].proc = None /\ intr[c] = "none"
    /\ ptable_lock = None
    /\ ptable_lock' = c
    /\ cpu' = [cpu EXCEPT ![c].max_priority = Best(Slots), ![c].p = 0]
    /\ UNCHANGED <<proc, pc, np, left, intr, nextpid, tickslock>>

\* Head of the for(;;): take the lock and find the best priority on offer.
scheduler(c) ==
    /\ cpu[c].proc = None /\ intr[c] = "none"
    /\ ptable_lock = None
    /\ ptable_lock' = c
    /\ cpu' = [cpu EXCEPT ![c].max_priority = Best(Runnable), ![c].p = 0]
    /\ UNCHANGED <<proc, pc, np, left, intr, nextpid, tickslock>>

\* Slots the second loop of the pass would still run.
Ahead(c) == {s \in Runnable : s > cpu[c].p /\ proc[s].priority = cpu[c].max_priority}

\* Mutant: the process is started without p->state = RUNNING.
SwitchRunnable(c) ==
    /\ cpu[c].proc = None /\ ptable_lock = c
    /\ \E s \in Ahead(c) :
         /\ \A t \in Ahead(c) : s <= t
         /\ cpu' = [cpu EXCEPT ![c].proc = s, ![c].p = s]
    /\ UNCHANGED <<proc, pc, np, left, intr, nextpid, ptable_lock, tickslock>>

\* The loop reaches a process to run: swtch to it, with ptable.lock held.
Switch(c) ==
    /\ cpu[c].proc = None /\ ptable_lock = c
    /\ \E s \in Ahead(c) :
         /\ \A t \in Ahead(c) : s <= t
         /\ proc' = [proc EXCEPT ![s].state = "RUNNING"]
         /\ cpu' = [cpu EXCEPT ![c].proc = s, ![c].p = s]
    /\ UNCHANGED <<pc, np, left, intr, nextpid, ptable_lock, tickslock>>

\* The loop ends: the lock is free until the next pass, which sets
\* max_priority and p again.
EndPass(c) ==
    /\ cpu[c].proc = None /\ ptable_lock = c
    /\ Ahead(c) = {}
    /\ ptable_lock' = None
    /\ cpu' = [cpu EXCEPT ![c].max_priority = Worst, ![c].p = 0]
    /\ UNCHANGED <<proc, pc, np, left, intr, nextpid, tickslock>>

\* sched(): with ptable.lock held and state changed, back to the scheduler.
sched(c) ==
    /\ ptable_lock' = c
    /\ cpu' = [cpu EXCEPT ![c].proc = None]

-----------------------------------------------------------------------------
\* Sleep and wakeup

\* wakeup1 on table P: every sleeper on chan becomes RUNNABLE.
wakeup1(P, chan) ==
    [s \in Slots |-> IF P[s].state = "SLEEPING" /\ P[s].chan = chan
                     THEN [P[s] EXCEPT !.state = "RUNNABLE"]
                     ELSE P[s]]

\* Process s runs on c, outside ptable.lock and outside a trap handler.
Runs(c, s) == cpu[c].proc = s /\ s # None /\ ptable_lock # c /\ intr[c] = "none"

\* ... and is in user mode, not yet killed, so that a system call goes through.
InUser(c, s) == Runs(c, s) /\ pc[s] = "user" /\ ~proc[s].killed

\* Return from a system call: trap() exits a process killed meanwhile.
Return(s) == IF proc[s].killed THEN "exit" ELSE "user"

\* A process picked by the scheduler finishes the sched() that stopped it:
\* yield and forkret release ptable.lock, and trap() looks at killed again
\* after a yield; sleep forgets chan, and then wants tickslock again.  (A
\* process that slept in wait() goes on in WaitAgain.)
Resume(c) ==
    LET s == cpu[c].proc IN
    /\ s # None /\ ptable_lock = c /\ pc[s] # "wait"
    /\ ptable_lock' = None
    /\ proc' = [proc EXCEPT ![s].chan = None]
    /\ pc' = [pc EXCEPT ![s] = CASE @ = "forkret" -> "user"
                                 [] @ = "user" -> Return(s)
                                 [] @ = "sleep" -> "slept"
                                 [] OTHER -> @]
    /\ UNCHANGED <<np, left, cpu, intr, nextpid, tickslock>>

\* Mutant: tickslock is released before sleep() has ptable.lock.
NapTestUnlocks(c, s, n) ==
    /\ tickslock' = None
    /\ IF n = 0 \/ proc[s].killed
       THEN /\ pc' = [pc EXCEPT ![s] = Return(s)]
            /\ left' = [left EXCEPT ![s] = 0]
       ELSE /\ pc' = [pc EXCEPT ![s] = "napping"]
            /\ left' = [left EXCEPT ![s] = n]

\* sys_sleep: one test of the while condition, tickslock held from here on.
NapTest(c, s, n) ==
    IF n = 0 \/ proc[s].killed
    THEN /\ tickslock' = None
         /\ pc' = [pc EXCEPT ![s] = Return(s)]
         /\ left' = [left EXCEPT ![s] = 0]
    ELSE /\ tickslock' = c
         /\ pc' = [pc EXCEPT ![s] = "napping"]
         /\ left' = [left EXCEPT ![s] = n]

sys_sleep(c, n) ==
    \E s \in Users :
    /\ InUser(c, s) /\ tickslock = None
    /\ NapTest(c, s, n)
    /\ UNCHANGED <<proc, np, cpu, intr, nextpid, ptable_lock>>

\* sleep(&ticks, &tickslock): ptable.lock first, then tickslock is released.
sleep(c) ==
    \E s \in Slots :
    /\ Runs(c, s) /\ pc[s] = "napping" /\ ptable_lock = None
    /\ tickslock' = None
    /\ proc' = [proc EXCEPT ![s].chan = TicksChan, ![s].state = "SLEEPING"]
    /\ pc' = [pc EXCEPT ![s] = "sleep"]
    /\ sched(c)
    /\ UNCHANGED <<np, left, intr, nextpid>>

\* Awake, sleep() reacquires tickslock and sys_sleep tests again.
NapAgain(c) ==
    \E s \in Slots :
    /\ Runs(c, s) /\ pc[s] = "slept" /\ tickslock = None
    /\ NapTest(c, s, left[s])
    /\ UNCHANGED <<proc, np, cpu, intr, nextpid, ptable_lock>>

-----------------------------------------------------------------------------
\* fork, exit, wait, kill, setpriority

FirstUnused(s) ==
    /\ proc[s].state = "UNUSED"
    /\ \A t \in Slots : proc[t].state = "UNUSED" => s <= t

\* allocproc, called by fork.  killed is not reset.  When the table is full
\* fork returns -1 and nothing changes.
allocproc(c) ==
    \E s, t \in Slots :
    /\ InUser(c, s) /\ ptable_lock = None /\ nextpid <= MaxPid
    /\ FirstUnused(t)
    /\ proc' = [proc EXCEPT ![t].state = "EMBRYO", ![t].pid = nextpid,
                            ![t].priority = DefaultPriority]
    /\ nextpid' = nextpid + 1
    /\ np' = [np EXCEPT ![s] = t]
    /\ pc' = [pc EXCEPT ![s] = "fork", ![t] = "forkret"]
    /\ UNCHANGED <<left, cpu, intr, ptable_lock, tickslock>>

\* kalloc or copyuvm found no memory: the slot is given back without the lock,
\* its pid left as it is.
forkFails(c) ==
    \E s \in Slots :
    /\ Runs(c, s) /\ pc[s] = "fork"
    /\ proc' = [proc EXCEPT ![np[s]].state = "UNUSED"]
    /\ np' = [np EXCEPT ![s] = None]
    /\ pc' = [pc EXCEPT ![s] = Return(s)]
    /\ UNCHANGED <<left, cpu, intr, nextpid, ptable_lock, tickslock>>

\* The rest of fork: the child has its parent and may run.
fork(c) ==
    \E s \in Slots :
    /\ Runs(c, s) /\ pc[s] = "fork" /\ ptable_lock = None
    /\ proc' = [proc EXCEPT ![np[s]].state = "RUNNABLE", ![np[s]].parent = s]
    /\ np' = [np EXCEPT ![s] = None]
    /\ pc' = [pc EXCEPT ![s] = Return(s)]
    /\ UNCHANGED <<left, cpu, intr, nextpid, ptable_lock, tickslock>>

\* Mutant: exit() leaves the children where they are.
ReparentNobody(P, s) == P

\* The children of s go to init.
Reparent(P, s) ==
    [t \in Slots |-> IF P[t].parent = s THEN [P[t] EXCEPT !.parent = initproc] ELSE P[t]]

\* exit, called by user code or by trap() for a killed process, once its files
\* are closed: wake the parent, and init if it inherits a zombie.
exit(c) ==
    \E s \in Users :
    /\ Runs(c, s) /\ pc[s] \in {"user", "exit"} /\ ptable_lock = None
    /\ LET woken == wakeup1(proc, proc[s].parent)
           given == Reparent(woken, s)
           init  == IF \E t \in Slots : woken[t].parent = s /\ woken[t].state = "ZOMBIE"
                    THEN wakeup1(given, initproc) ELSE given
       IN proc' = [init EXCEPT ![s].state = "ZOMBIE"]
    /\ sched(c)
    /\ UNCHANGED <<pc, np, left, intr, nextpid, tickslock>>

Children(s) == {t \in Slots : proc[t].parent = s}

\* One turn of wait()'s loop for process s on c, ptable.lock held: reap the
\* first zombie child, or give up, or sleep.
WaitTurn(c, s) ==
    LET zombies == {t \in Children(s) : proc[t].state = "ZOMBIE"} IN
    \/ /\ zombies # {}
       /\ \E t \in zombies :
            /\ \A u \in zombies : t <= u
            /\ proc' = [proc EXCEPT ![t].pid = 0, ![t].parent = None,
                                    ![t].killed = FALSE, ![t].state = "UNUSED",
                                    ![s].chan = None]
       /\ pc' = [pc EXCEPT ![s] = Return(s)]
       /\ ptable_lock' = None
       /\ UNCHANGED cpu
    \/ /\ zombies = {}
       /\ Children(s) = {} \/ proc[s].killed
       /\ proc' = [proc EXCEPT ![s].chan = None]
       /\ pc' = [pc EXCEPT ![s] = Return(s)]
       /\ ptable_lock' = None
       /\ UNCHANGED cpu
    \/ /\ zombies = {}
       /\ Children(s) # {} /\ ~proc[s].killed
       /\ proc' = [proc EXCEPT ![s].chan = s, ![s].state = "SLEEPING"]
       /\ pc' = [pc EXCEPT ![s] = "wait"]
       /\ sched(c)

wait(c) ==
    \E s \in Slots :
    /\ InUser(c, s) /\ ptable_lock = None
    /\ WaitTurn(c, s)
    /\ UNCHANGED <<np, left, intr, nextpid, tickslock>>

WaitAgain(c) ==
    \E s \in Slots :
    /\ cpu[c].proc = s /\ ptable_lock = c /\ pc[s] = "wait"
    /\ WaitTurn(c, s)
    /\ UNCHANGED <<np, left, intr, nextpid, tickslock>>

\* kill(pid): the first slot with that pid, whatever its state.  (The kill of
\* init ends in panic("init exiting") and is left out.)
kill(c, pid) ==
    \E s \in Users, t \in Slots :
    /\ InUser(c, s) /\ ptable_lock = None
    /\ proc[t].pid = pid /\ \A u \in Slots : proc[u].pid = pid => t <= u
    /\ proc' = [proc EXCEPT ![t].killed = TRUE,
                            ![t].state = IF @ = "SLEEPING" THEN "RUNNABLE" ELSE @]
    /\ pc' = [pc EXCEPT ![s] = IF s = t THEN "exit" ELSE @]
    /\ UNCHANGED <<np, left, cpu, intr, nextpid, ptable_lock, tickslock>>

\* Mutant: the bound of sys_setpriority is off by one.
SetPriority201(c, n) ==
    \E s \in Users :
    /\ InUser(c, s) /\ n \in 0 .. Worst
    /\ proc' = [proc EXCEPT ![s].priority = n]
    /\ intr' = [intr EXCEPT ![c] = IF proc[s].priority < n THEN "setpriority" ELSE @]
    /\ UNCHANGED <<pc, np, left, cpu, nextpid, ptable_lock, tickslock>>

\* sys_setpriority: no lock; a value above the old one (a worse priority)
\* also yields.  Out of range, it returns -1 and changes nothing.
sys_setpriority(c, n) ==
    \E s \in Users :
    /\ InUser(c, s) /\ n \in 0 .. Worst - 1
    /\ proc' = [proc EXCEPT ![s].priority = n]
    /\ intr' = [intr EXCEPT ![c] = IF proc[s].priority < n THEN "setpriority" ELSE @]
    /\ UNCHANGED <<pc, np, left, cpu, nextpid, ptable_lock, tickslock>>

-----------------------------------------------------------------------------
\* The timer interrupt of trap(), on a CPU that holds no spin lock

Interruptible(c) ==
    /\ ptable_lock # c /\ tickslock # c /\ intr[c] = "none"

\* CPU 0 counts the tick under tickslock ...
tick(c) ==
    /\ c = CPU0 /\ Interruptible(c) /\ tickslock = None
    /\ tickslock' = c
    /\ left' = [s \in Slots |-> IF left[s] = 0 THEN 0 ELSE left[s] - 1]
    /\ intr' = [intr EXCEPT ![c] = "tick"]
    /\ UNCHANGED <<proc, pc, np, cpu, nextpid, ptable_lock>>

\* ... and wakes the sleepers before it gives the lock back.
wakeup(c) ==
    /\ intr[c] = "tick" /\ ptable_lock = None
    /\ proc' = wakeup1(proc, TicksChan)
    /\ tickslock' = None
    /\ intr' = [intr EXCEPT ![c] = IF cpu[c].proc = None THEN "none" ELSE "yield"]
    /\ UNCHANGED <<pc, np, left, cpu, nextpid, ptable_lock>>

\* yield(), from sys_setpriority or at the end of trap(), where the other CPUs
\* get without a tick.  A killed process interrupted in user mode exits instead.
yield(c) ==
    LET s == cpu[c].proc
        dies == intr[c] # "setpriority" /\ proc[s].killed /\ pc[s] = "user"
    IN
    /\ s # None
    /\ \/ intr[c] \in {"yield", "setpriority"}
       \/ c # CPU0 /\ Interruptible(c)
    /\ intr' = [intr EXCEPT ![c] = "none"]
    /\ \/ /\ dies
          /\ pc' = [pc EXCEPT ![s] = "exit"]
          /\ UNCHANGED <<proc, cpu, ptable_lock>>
       \/ /\ ~dies /\ ptable_lock = None
          /\ proc' = [proc EXCEPT ![s].state = "RUNNABLE"]
          /\ sched(c)
          /\ UNCHANGED pc
    /\ UNCHANGED <<np, left, nextpid, tickslock>>

-----------------------------------------------------------------------------
Step(c) ==
    \/ scheduler(c) \/ Switch(c) \/ EndPass(c) \/ Resume(c)
    \/ sleep(c) \/ NapAgain(c)
    \/ allocproc(c) \/ forkFails(c) \/ fork(c)
    \/ exit(c) \/ wait(c) \/ WaitAgain(c)
    \/ tick(c) \/ wakeup(c) \/ yield(c)
    \/ \E n \in Naps : sys_sleep(c, n)
    \/ \E pid \in {0} \cup 2 .. MaxPid : kill(c, pid)
    \/ \E n \in Priorities : sys_setpriority(c, n)

Next == \E c \in CPUs : Step(c)

Spec == Init /\ [][Next]_vars

\* Kernel code keeps going on every CPU.  Strong fairness, because most steps
\* acquire a spin lock: the xchg of acquire() wins sooner or later against a
\* CPU that keeps releasing the lock.  The timer keeps interrupting.  User code
\* owes nothing: its system calls are in no fairness condition.
KernelStep(c) ==
    \/ scheduler(c) \/ Switch(c) \/ EndPass(c) \/ Resume(c)
    \/ sleep(c) \/ NapAgain(c) \/ forkFails(c) \/ fork(c) \/ WaitAgain(c)
    \/ wakeup(c) \/ yield(c)
    \/ cpu[c].proc # None /\ pc[cpu[c].proc] = "exit" /\ exit(c)

FairSpec ==
    /\ Spec
    /\ \A c \in CPUs : SF_vars(KernelStep(c))
    /\ SF_vars(tick(CPU0))

-----------------------------------------------------------------------------
Alive == {"RUNNABLE", "RUNNING", "SLEEPING"}

\* Every variable has its type; sys_setpriority keeps priorities in 0 .. 200, so
\* that every RUNNABLE process is better than the 201 the scan starts from.
TypeOK ==
    /\ proc \in [Slots -> [state : Alive \cup {"UNUSED", "EMBRYO", "ZOMBIE"},
                           pid : 0 .. MaxPid, parent : Slots \cup {None},
                           chan : Slots \cup {None, TicksChan},
                           killed : BOOLEAN, priority : 0 .. Worst - 1]]
    /\ pc \in [Slots -> {"forkret", "user", "fork", "wait", "napping", "sleep",
                         "slept", "exit"}]
    /\ np \in [Slots -> Slots \cup {None}]
    /\ left \in [Slots -> Nat]
    /\ cpu \in [CPUs -> [proc : Slots \cup {None}, max_priority : 0 .. Worst,
                         p : Slots \cup {0}]]
    /\ intr \in [CPUs -> {"none", "tick", "yield", "setpriority"}]
    /\ nextpid \in 1 .. MaxPid + 1
    /\ {ptable_lock, tickslock} \subseteq CPUs \cup {None}

\* A kernel stack is never run by two CPUs: the RUNNING processes are exactly
\* the c->proc of the CPUs, one CPU each.  Rests on ptable.lock staying held
\* across swtch, from the change of state to the other side.
RunningExclusive ==
    /\ \A s \in Slots : proc[s].state = "RUNNING" <=> \E c \in CPUs : cpu[c].proc = s
    /\ \A c, d \in CPUs : cpu[c].proc = cpu[d].proc /\ c # d => cpu[c].proc = None

\* Nobody sleeps through the event it waits for: a process asleep in wait()
\* has a child, none of them a zombie, and was not killed; a process asleep in
\* sys_sleep whose ticks have passed is about to be woken by the timer.
NoLostWakeup ==
    \A s \in Slots : proc[s].state = "SLEEPING" =>
      \/ /\ proc[s].chan = s /\ ~proc[s].killed /\ Children(s) # {}
         /\ \A t \in Children(s) : proc[t].state # "ZOMBIE"
      \/ proc[s].chan = TicksChan /\ (left[s] > 0 \/ intr[CPU0] = "tick")

\* Every process but init has a parent that can still wait() for it, so that
\* its slot can be reaped: exit() gives the children away before it leaves a
\* zombie behind.
ParentAlive ==
    \A s \in Slots \ {initproc} :
      IF proc[s].state \in {"UNUSED", "EMBRYO"}
      THEN proc[s].parent = None
      ELSE proc[s].parent \in Slots /\ proc[proc[s].parent].state \in Alive

\* A RUNNABLE process nobody has a better priority than gets a CPU, however
\* stale the max_priority of the passes under way is.
BestServed ==
    \A s \in Slots :
      <>[](\A t \in Slots : proc[t].state = "UNUSED" \/ proc[s].priority <= proc[t].priority)
        => []<>(proc[s].state # "RUNNABLE")

\* kill() marks processes, not free slots: the slot a later fork takes does
\* not come with killed set.
KillsProcesses ==
    [][\A s \in Slots : proc'[s].killed /\ ~proc[s].killed => proc[s].state # "UNUSED"]_vars
=============================================================================
