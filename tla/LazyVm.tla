------------------------------- MODULE LazyVm -------------------------------
(***************************************************************************)
(* Memory of lab4's xv6: the page allocator (kalloc.c), page tables        *)
(* (vm.c), the lazy sbrk of sysproc.c with the page fault handler of       *)
(* trap.c, and the places that build and destroy address spaces: fork and  *)
(* wait (proc.c), exec (exec.c).                                           *)
(*                                                                         *)
(* Sizes and addresses are in pages.  Above the user pages (KERNBASE) come *)
(* the kernel's, and between these and DEVSPACE a gap that nothing maps: a *)
(* program that touches it gets a page there, as below KERNBASE.           *)
(*                                                                         *)
(* fork and exec take one allocation at a time, so that processes compete  *)
(* for the last frames; what only frees is one step.  The free list is a   *)
(* set: which frame kalloc returns makes no difference.  panic() stops the *)
(* machine.                                                                *)
(***************************************************************************)
EXTENDS Integers, FiniteSets

CONSTANTS
    NPROC,          \* slots of the process table
    NFRAMES,        \* physical pages kinit gave to the allocator
    NPAGES,         \* user pages below KERNBASE
    NPTENTRIES,     \* pages one page table maps, here also the kernel's pages
    NGAP,           \* pages of the gap above the kernel's
    Text,           \* pages of a program exec loads
    SbrkSizes       \* bound: the sizes that programs ask sbrk for

None == 0
Slots == 1 .. NPROC
Frames == 1 .. NFRAMES
UserPages == 0 .. NPAGES - 1
TOP == NPAGES + NPTENTRIES + NGAP       \* addresses wrap around here
Gap == NPAGES + NPTENTRIES .. TOP - 1
Pages == UserPages \cup Gap             \* where trap() can map a page
Tables == {a \div NPTENTRIES : a \in Pages}
PDX(a) == a \div NPTENTRIES
Guard == Text               \* the inaccessible page exec puts below the stack
ProgSize == Text + 2
ProgTabs == PDX(ProgSize - 1) + 1       \* page tables of a program just loaded

ASSUME SizeAssumption ==
    /\ NPROC \in Nat /\ NFRAMES \in Nat /\ NPAGES \in Nat /\ NPTENTRIES \in Nat
    /\ NGAP \in Nat /\ NPAGES % NPTENTRIES = 0 /\ SbrkSizes \subseteq 0 .. TOP - 1
    /\ NPROC >= 1 /\ NPTENTRIES >= 1 /\ Text \in Nat /\ Text >= 1 /\ ProgSize <= NPAGES

\* The machine boots: the allocator has the frames of init's kernel stack, page
\* directory, page tables and pages ("userinit: out of memory?").
ASSUME BootAssumption == 3 + ProgTabs + ProgSize <= NFRAMES

VARIABLES
    free,           \* kmem.freelist
    fill,           \* what a frame was last filled with
    state,          \* p->state: UNUSED, EMBRYO, ALIVE (it can run) or ZOMBIE
    kstack,         \* p->kstack
    vm,             \* p->pgdir: directory, kernel and user page tables, PTEs
    sz,             \* p->sz
    call,           \* the fork or exec a process is in
    new,            \* the page directory that call is building
    lost,           \* history: frames that freevm left in the gap
    panicked

vars == <<free, fill, state, kstack, vm, sz, call, new, lost, panicked>>

NoVm == [dir |-> None, ktab |-> None, tab |-> [d \in Tables |-> None],
         pte |-> [a \in Pages |-> None], user |-> {}]
NoCall == [op |-> "none", child |-> None, i |-> 0]

\* deallocuvm, as freevm calls it: the pages below KERNBASE, whatever sz is.
deallocuvm(v) == {v.pte[a] : a \in UserPages} \ {None}

\* What freevm frees: these, every page table and the directory.
Freed(v) == deallocuvm(v) \cup (({v.dir, v.ktab} \cup {v.tab[d] : d \in Tables}) \ {None})

\* What it does not: the frames mapped above KERNBASE.
Left(v) == {v.pte[a] : a \in Gap} \ {None}

\* Frames an address space holds.
FramesOf(v) == Freed(v) \cup Left(v)

-----------------------------------------------------------------------------
\* The allocator

\* kalloc: a frame of the free list F.
kalloc(F) == CHOOSE f \in F : TRUE

\* kfree also fills the page with junk "to catch dangling refs".
Junk(F, w) == [f \in Frames |-> IF f \in F THEN "junk" ELSE w[f]]

kfree(F) ==
    /\ free' = free \cup F
    /\ fill' = Junk(F, fill)

\* freevm(v), and the kernel stack K that goes with it (or none).
freevm(v, K) == kfree(Freed(v) \cup K) /\ lost' = lost \cup Left(v)

\* Page table pages walkpgdir must allocate to map page a in v.
TabsFor(v, a) == IF v.tab[PDX(a)] = None THEN 1 ELSE 0

\* mappages: a frame for page a of v, and a page table if it is the first page
\* of its table; u is PTE_U.
MapPage(v, a, u) ==
    LET f == kalloc(free)
        t == kalloc(free \ {f})
    IN [dir |-> v.dir, ktab |-> v.ktab,
        tab |-> [v.tab EXCEPT ![PDX(a)] = IF @ = None THEN t ELSE @],
        pte |-> [v.pte EXCEPT ![a] = f],
        user |-> IF u THEN v.user \cup {a} ELSE v.user]

CanMap(v, a) == Cardinality(free) >= 1 + TabsFor(v, a)

\* The frames MapPage(v, a, _) takes leave the free list; tables are zeroed.
TakeFor(v, a, with) ==
    LET f == kalloc(free)
        F == IF v.tab[PDX(a)] = None THEN {f, kalloc(free \ {f})} ELSE {f}
    IN /\ free' = free \ F
       /\ fill' = [g \in Frames |-> IF g = f THEN with
                                    ELSE IF g \in F THEN "table" ELSE fill[g]]

\* setupkvm: a directory and the page table of the kernel's mappings.
setupkvm ==
    LET d == kalloc(free)
        k == kalloc(free \ {d})
    IN [dir |-> d, ktab |-> k, tab |-> NoVm.tab, pte |-> NoVm.pte, user |-> {}]

Running(p) == state[p] = "ALIVE" /\ call[p].op = "none"

-----------------------------------------------------------------------------
\* userinit, then exec of init: slot 1 holds a process just loaded.
Init ==
    LET tabs == ProgTabs
        first == [dir |-> 2, ktab |-> 3,
                  tab |-> [d \in Tables |-> IF d < tabs THEN 4 + d ELSE None],
                  pte |-> [a \in Pages |-> IF a < ProgSize THEN 4 + tabs + a ELSE None],
                  user |-> (0 .. ProgSize - 1) \ {Guard}]
    IN
    /\ kstack = [p \in Slots |-> IF p = 1 THEN 1 ELSE None]
    /\ vm = [p \in Slots |-> IF p = 1 THEN first ELSE NoVm]
    /\ free = Frames \ (FramesOf(first) \cup {1})
    /\ fill = [f \in Frames |-> IF f \in free THEN "junk"
                                ELSE IF f < 4 + tabs THEN "table" ELSE "data"]
    /\ state = [p \in Slots |-> IF p = 1 THEN "ALIVE" ELSE "UNUSED"]
    /\ sz = [p \in Slots |-> IF p = 1 THEN ProgSize ELSE 0]
    /\ call = [p \in Slots |-> NoCall]
    /\ new = [p \in Slots |-> NoVm]
    /\ lost = {} /\ panicked = FALSE

panic == panicked' = TRUE /\ UNCHANGED <<free, fill, state, kstack, vm, sz, call, new, lost>>

\* sys_sbrk moves sz and nothing else, up or down, without any check.
sys_sbrk(p, n) ==
    /\ Running(p)
    /\ sz' = [sz EXCEPT ![p] = (@ + n) % TOP]
    /\ UNCHANGED <<free, fill, state, kstack, vm, call, new, lost, panicked>>

\* Mutant: the fault handler forgets the memset.
pgfaultJunk(p, a) ==
    /\ Running(p) /\ vm[p].pte[a] = None /\ CanMap(vm[p], a)
    /\ vm' = [vm EXCEPT ![p] = MapPage(@, a, TRUE)]
    /\ TakeFor(vm[p], a, "junk")
    /\ UNCHANGED <<state, kstack, sz, call, new, lost, panicked>>

\* A user access to a page with no PTE: trap() maps a zeroed frame, whatever
\* sz is and above KERNBASE as well as below.  With no frame left trap()
\* returns and the access faults again.
pgfault(p, a) ==
    /\ Running(p) /\ vm[p].pte[a] = None /\ CanMap(vm[p], a)
    /\ vm' = [vm EXCEPT ![p] = MapPage(@, a, TRUE)]
    /\ TakeFor(vm[p], a, "zero")
    /\ UNCHANGED <<state, kstack, sz, call, new, lost, panicked>>

\* A user access to a present page it may not touch (the guard page, or the
\* kernel's): mappages finds the PTE present.
remap(p) ==
    /\ Running(p) /\ free # {}
    /\ panic

\* A system call follows a pointer argptr accepted (below sz).  A page that is
\* not there faults in kernel mode, and trap() panics.
argptr(p, a) ==
    /\ Running(p) /\ a < sz[p] /\ vm[p].pte[a] = None
    /\ panic

-----------------------------------------------------------------------------
\* fork

\* allocproc: a slot and a kernel stack; without a frame nothing is kept.
allocproc(p, c) ==
    /\ Running(p) /\ state[c] = "UNUSED" /\ free # {}
    /\ state' = [state EXCEPT ![c] = "EMBRYO"]
    /\ kstack' = [kstack EXCEPT ![c] = kalloc(free)]
    /\ free' = free \ {kalloc(free)}
    /\ fill' = [fill EXCEPT ![kalloc(free)] = "table"]
    /\ call' = [call EXCEPT ![p] = [op |-> "fork", child |-> c, i |-> 0]]
    /\ UNCHANGED <<vm, sz, new, lost, panicked>>

\* copyuvm or exec calls setupkvm.
StartVm(p) ==
    /\ call[p].op # "none" /\ new[p].dir = None /\ Cardinality(free) >= 2
    /\ new' = [new EXCEPT ![p] = setupkvm]
    /\ free' = free \ {setupkvm.dir, setupkvm.ktab}
    /\ fill' = [f \in Frames |-> IF f \in {setupkvm.dir, setupkvm.ktab} THEN "table" ELSE fill[f]]
    /\ UNCHANGED <<state, kstack, vm, sz, call, lost, panicked>>

\* Mutant: every page of the child gets PTE_U.
copyuvmUser(p) ==
    LET a == call[p].i IN
    /\ call[p].op = "fork" /\ new[p].dir # None /\ a < sz[p]
    /\ IF a \in UserPages /\ vm[p].pte[a] # None
       THEN /\ CanMap(new[p], a)
            /\ new' = [new EXCEPT ![p] = MapPage(@, a, TRUE)]
            /\ TakeFor(new[p], a, fill[vm[p].pte[a]])
            /\ call' = [call EXCEPT ![p].i = a + 1]
            /\ UNCHANGED <<state, kstack, vm, sz, lost, panicked>>
       ELSE (a \in UserPages \/ free # {}) /\ panic

\* One turn of copyuvm's loop; the flags go along.  A page that is not there
\* is a panic, and so is the first page of the kernel, which the copy has.
copyuvm(p) ==
    LET a == call[p].i IN
    /\ call[p].op = "fork" /\ new[p].dir # None /\ a < sz[p]
    /\ IF a \in UserPages /\ vm[p].pte[a] # None
       THEN /\ CanMap(new[p], a)
            /\ new' = [new EXCEPT ![p] = MapPage(@, a, a \in vm[p].user)]
            /\ TakeFor(new[p], a, fill[vm[p].pte[a]])
            /\ call' = [call EXCEPT ![p].i = a + 1]
            /\ UNCHANGED <<state, kstack, vm, sz, lost, panicked>>
       ELSE (a \in UserPages \/ free # {}) /\ panic

\* The rest of fork: the child gets its page directory and may run.
fork(p) ==
    LET c == call[p].child IN
    /\ call[p].op = "fork" /\ new[p].dir # None /\ call[p].i >= sz[p]
    /\ vm' = [vm EXCEPT ![c] = new[p]]
    /\ sz' = [sz EXCEPT ![c] = sz[p]]
    /\ state' = [state EXCEPT ![c] = "ALIVE"]
    /\ new' = [new EXCEPT ![p] = NoVm]
    /\ call' = [call EXCEPT ![p] = NoCall]
    /\ UNCHANGED <<free, fill, kstack, lost, panicked>>

\* The frame fork needs next is not there: freevm(d), and the slot is given
\* back with its kernel stack.
NoFrame(p) ==
    LET a == call[p].i IN
    IF new[p].dir = None THEN Cardinality(free) < 2
    ELSE /\ a < sz[p]
         /\ IF a \in UserPages THEN vm[p].pte[a] # None /\ ~CanMap(new[p], a) ELSE free = {}

\* Mutant: the kernel stack is not given back.
forkFailsLeaks(p) ==
    LET c == call[p].child IN
    /\ call[p].op = "fork" /\ NoFrame(p)
    /\ freevm(new[p], {})
    /\ kstack' = [kstack EXCEPT ![c] = None]
    /\ state' = [state EXCEPT ![c] = "UNUSED"]
    /\ new' = [new EXCEPT ![p] = NoVm]
    /\ call' = [call EXCEPT ![p] = NoCall]
    /\ UNCHANGED <<vm, sz, panicked>>

forkFails(p) ==
    LET c == call[p].child IN
    /\ call[p].op = "fork" /\ NoFrame(p)
    /\ freevm(new[p], {kstack[c]})
    /\ kstack' = [kstack EXCEPT ![c] = None]
    /\ state' = [state EXCEPT ![c] = "UNUSED"]
    /\ new' = [new EXCEPT ![p] = NoVm]
    /\ call' = [call EXCEPT ![p] = NoCall]
    /\ UNCHANGED <<vm, sz, panicked>>

-----------------------------------------------------------------------------
\* exec, exit, wait

sys_exec(p) ==
    /\ Running(p)
    /\ call' = [call EXCEPT ![p].op = "exec"]
    /\ UNCHANGED <<free, fill, state, kstack, vm, sz, new, lost, panicked>>

\* loaduvm reads the text from the file; what follows is as allocuvm left it.
loaduvm(a) == IF a < Text THEN "data" ELSE "zero"

\* clearpteu takes PTE_U from the first of the two stack pages.
clearpteu(a) == a # Guard

\* allocuvm, page by page, for the text and for the two stack pages.
allocuvm(p) ==
    LET a == call[p].i IN
    /\ call[p].op = "exec" /\ new[p].dir # None /\ a < ProgSize /\ CanMap(new[p], a)
    /\ new' = [new EXCEPT ![p] = MapPage(@, a, clearpteu(a))]
    /\ TakeFor(new[p], a, loaduvm(a))
    /\ call' = [call EXCEPT ![p].i = a + 1]
    /\ UNCHANGED <<state, kstack, vm, sz, lost, panicked>>

\* "Commit to the user image", then free the old one.
exec(p) ==
    /\ call[p].op = "exec" /\ call[p].i = ProgSize
    /\ vm' = [vm EXCEPT ![p] = new[p]]
    /\ sz' = [sz EXCEPT ![p] = ProgSize]
    /\ freevm(vm[p], {})
    /\ new' = [new EXCEPT ![p] = NoVm]
    /\ call' = [call EXCEPT ![p] = NoCall]
    /\ UNCHANGED <<state, kstack, panicked>>

\* bad: no frame, a file that is not a program, or too many arguments; what was
\* built is freed.
execFails(p) ==
    /\ call[p].op = "exec"
    /\ freevm(new[p], {})
    /\ new' = [new EXCEPT ![p] = NoVm]
    /\ call' = [call EXCEPT ![p] = NoCall]
    /\ UNCHANGED <<state, kstack, vm, sz, panicked>>

\* exit leaves a zombie with all its memory; init does not exit.
exit(p) ==
    /\ Running(p) /\ p # 1
    /\ state' = [state EXCEPT ![p] = "ZOMBIE"]
    /\ UNCHANGED <<free, fill, kstack, vm, sz, call, new, lost, panicked>>

\* wait, in the parent: kfree(kstack) and freevm(pgdir).  (sz of a free slot is
\* not looked at again before fork sets it.)
wait(p) ==
    /\ state[p] = "ZOMBIE"
    /\ freevm(vm[p], {kstack[p]})
    /\ kstack' = [kstack EXCEPT ![p] = None]
    /\ vm' = [vm EXCEPT ![p] = NoVm]
    /\ sz' = [sz EXCEPT ![p] = 0]
    /\ state' = [state EXCEPT ![p] = "UNUSED"]
    /\ UNCHANGED <<call, new, panicked>>

Step(p) ==
    \/ \E z \in SbrkSizes : sys_sbrk(p, z - sz[p])
    \/ remap(p)
    \/ \E a \in Pages : pgfault(p, a) \/ argptr(p, a)
    \/ \E c \in Slots : allocproc(p, c)
    \/ StartVm(p) \/ copyuvm(p) \/ fork(p) \/ forkFails(p)
    \/ sys_exec(p) \/ allocuvm(p) \/ exec(p) \/ execFails(p)
    \/ exit(p) \/ wait(p)

\* Nothing happens after a panic.
Next == \E p \in {q \in Slots : ~panicked} : Step(p)

Spec == Init /\ [][Next]_vars

-----------------------------------------------------------------------------
\* The places of an address space that refer to a frame, and what they hold.
Places == {<<"dir", 0>>, <<"ktab", 0>>} \cup ({"tab"} \X Tables) \cup ({"pte"} \X Pages)

At(v, n) ==
    CASE n[1] = "dir" -> v.dir
      [] n[1] = "ktab" -> v.ktab
      [] n[1] = "tab" -> v.tab[n[2]]
      [] n[1] = "pte" -> v.pte[n[2]]

\* What can own frames: the kernel stack of a slot, its address space, and the
\* one its fork or exec is building.
Owners == Slots \X {"kstack", "vm", "new"}

Owned(o) ==
    CASE o[2] = "kstack" -> {kstack[o[1]]} \ {None}
      [] o[2] = "vm" -> FramesOf(vm[o[1]])
      [] o[2] = "new" -> FramesOf(new[o[1]])

\* No two places of an address space refer to the same frame.
Distinct(v) ==
    \A m \in Places : At(v, m) # None => \A n \in Places : At(v, n) = At(v, m) => n = m

\* Every frame is on the free list, is referred to exactly once (as a stack, a
\* page table or a page), or was left in the gap of an address space that is
\* gone: no page is mapped twice, freed while mapped, or lost by an error path
\* of fork or exec, and freevm loses the pages above KERNBASE and no others.
FramesOwnedOnce ==
    /\ (UNION {Owned(o) : o \in Owners}) \cup lost = Frames \ free
    /\ \A o \in Owners : Owned(o) \cap lost = {}
    /\ \A o, q \in Owners : o # q => Owned(o) \cap Owned(q) = {}
    /\ \A p \in Slots : Distinct(vm[p]) /\ Distinct(new[p])

\* No process sees what kfree left in a page: every user page was zeroed,
\* loaded or copied, and every page table was zeroed before it was used.
NoJunkVisible ==
    \A p \in Slots : state[p] = "ALIVE" =>
      /\ \A a \in Pages : vm[p].pte[a] # None => fill[vm[p].pte[a]] \in {"zero", "data"}
      /\ \A d \in Tables : vm[p].tab[d] # None => fill[vm[p].tab[d]] = "table"

\* The guard page is there, and no user access to it is let through.
HasGuard(v) == v.pte[Guard] # None /\ Guard \notin v.user

\* The page below the stack stays present and inaccessible ("Make the first
\* inaccessible"): exec leaves it so, it stays so in that address space, and
\* fork hands it to a child unless the parent shrank below it (copyuvm copies
\* what is below sz only).
GuardKept ==
    [][\A p \in Slots :
         /\ HasGuard(vm[p]) /\ vm'[p].dir = vm[p].dir => HasGuard(vm'[p])
         /\ call[p].op = "exec" /\ vm'[p] # vm[p] => HasGuard(vm'[p])
         /\ \A c \in Slots :
              /\ call[p].op = "fork" /\ c = call[p].child /\ vm'[c] # vm[c]
              /\ HasGuard(vm[p]) /\ sz[p] > Guard
              => HasGuard(vm'[c])]_vars

\* sbrk with a negative size unmaps the pages it gives back (usertests.c:1485:
\* "sbrk de-allocation didn't really deallocate"), so that they read as zero
\* when the program grows again.
SbrkDeallocates ==
    [][\A p \in Slots : UNCHANGED <<state[p], call[p]>> /\ sz'[p] < sz[p] =>
         \A a \in UserPages \cap (sz'[p] .. sz[p] - 1) : vm'[p].pte[a] = None]_vars

\* Nothing a program does stops the kernel (trap.c:91: "In user space, assume
\* process misbehaved"; vm.c:313: "create a copy of it for a child").
NoPanic == ~panicked
=============================================================================
