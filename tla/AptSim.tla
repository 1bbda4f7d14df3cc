------------------------------- MODULE AptSim -------------------------------
(***************************************************************************)
(* The apartment-inspection simulation of proj2/aptsim.c.  The parent      *)
(* forks a tenant creator and the agents, the creator forks the tenants,   *)
(* and agents and tenants meet through seven kernel semaphores and two     *)
(* counters in shared memory.                                              *)
(*                                                                         *)
(* A step is one system call together with the unshared code around it;    *)
(* the shared counters are loaded and stored in separate steps, so their   *)
(* consistency rests on the mutex and not on the granularity of the model. *)
(* Printing, sleeping and the arrival probabilities only delay a process,  *)
(* which the interleaving covers.                                          *)
(***************************************************************************)
EXTENDS Integers, Sequences, FiniteSets

CONSTANTS Agents,                 \* the agent processes (-k of them)
          Tenants,                \* the tenant processes (-m of them)
          Agent0,                 \* the agent whose agent_id is 0
          Main, Creator,          \* the parent and the tenant creator
          MAX_TENANTS_PER_AGENT

ASSUME ProcsAssumption ==
    /\ Agent0 \in Agents
    /\ IsFiniteSet(Agents) /\ IsFiniteSet(Tenants)
    /\ Agents \cap Tenants = {}
    /\ Main # Creator /\ {Main, Creator} \cap (Agents \cup Tenants) = {}

ASSUME MaxAssumption == MAX_TENANTS_PER_AGENT \in Nat \ {0}

Procs == Agents \cup Tenants \cup {Main, Creator}

Sems == {"mutex", "waiting_for_agent", "tenant_arrived", "agent_arrived",
         "apt_lock", "tenants_leave", "agent_apt_lock"}

VARIABLES
    value,                  \* [Sems -> Int]: cs1550_sem.value
    queue,                  \* [Sems -> Seq(Procs)]: the processes asleep on it
    current_agent_tenants,  \* tenants the current agent has been given
    tenants_in_apt,         \* tenants that have arrived and not yet left
    reg,                    \* the counter a process has loaded
    pc                      \* the next step of each process

sems == <<value, queue>>
counters == <<current_agent_tenants, tenants_in_apt, reg>>
vars == <<value, queue, current_agent_tenants, tenants_in_apt, reg, pc>>

-----------------------------------------------------------------------------
(***************************************************************************)
(* The semaphore system calls.  A process that goes to sleep has already   *)
(* moved on to the step after its down: it takes it once an up has removed *)
(* it from the queue, whose head is the process that has slept longest.    *)
(***************************************************************************)
Sleepers(s) == {queue[s][i] : i \in 1..Len(queue[s])}

Awake(p) == \A s \in Sems : p \notin Sleepers(s)

At(p, step) == pc[p] = step /\ Awake(p)

Goto(p, next) == pc' = [pc EXCEPT ![p] = next]

down(p, s, next) ==
    /\ value' = [value EXCEPT ![s] = @ - 1]
    /\ queue' = [queue EXCEPT ![s] = IF value[s] <= 0 THEN Append(@, p) ELSE @]
    /\ Goto(p, next)

up(p, s, next) ==
    /\ value' = [value EXCEPT ![s] = @ + 1]
    /\ queue' = [queue EXCEPT ![s] = IF value[s] < 0 THEN Tail(@) ELSE @]
    /\ Goto(p, next)

Load(p, counter, next) ==
    /\ reg' = [reg EXCEPT ![p] = counter]
    /\ Goto(p, next)
    /\ UNCHANGED <<sems, current_agent_tenants, tenants_in_apt>>

-----------------------------------------------------------------------------
(***************************************************************************)
(* Agents.  An operator whose name ends in "Bug" is a mutated form of the  *)
(* operator it precedes, used to see that a property can fail.             *)
(***************************************************************************)
waitTurnBug(a) == At(a, "wait turn") /\ Goto(a, "relock") /\ UNCHANGED sems

waitTurn(a) == At(a, "wait turn") /\ down(a, "agent_apt_lock", "relock")

agentArrives(a) ==
    /\ \/ At(a, "arrives")    /\ down(a, "mutex", "first?")
       \/ At(a, "first?")     /\ a # Agent0 /\ up(a, "mutex", "wait turn")
       \/ waitTurn(a)
       \/ At(a, "relock")     /\ down(a, "mutex", "wake tenant")
       \/ At(a, "wake tenant")/\ up(a, "waiting_for_agent", "enters")
       \/ At(a, "first?")     /\ a = Agent0 /\ down(a, "agent_apt_lock", "enters")
       \/ At(a, "enters")     /\ up(a, "mutex", "announces")
       \/ At(a, "announces")  /\ up(a, "agent_arrived", "meets")
       \/ At(a, "meets")      /\ down(a, "tenant_arrived", "opens")
    /\ UNCHANGED counters

openApt(a) ==
    At(a, "opens") /\ up(a, "apt_lock", "shows") /\ UNCHANGED counters

agentLeaves(a) ==
    \/ At(a, "shows") /\ down(a, "tenants_leave", "all left") /\ UNCHANGED counters
    \/ At(a, "all left") /\ down(a, "mutex", "leaves") /\ UNCHANGED counters
    \/ At(a, "leaves") /\ up(a, "agent_apt_lock", "resets") /\ UNCHANGED counters
    \/ /\ At(a, "resets")
       /\ up(a, "mutex", "done")
       /\ current_agent_tenants' = 0
       /\ UNCHANGED <<tenants_in_apt, reg>>

agentProcess(a) == agentArrives(a) \/ openApt(a) \/ agentLeaves(a)

-----------------------------------------------------------------------------
(***************************************************************************)
(* Tenants.                                                                *)
(***************************************************************************)
waitAgentBug(t) ==
    /\ \/ At(t, "wait agent") /\ down(t, "waiting_for_agent", "relock")
       \/ At(t, "relock") /\ Goto(t, "woken") /\ UNCHANGED sems
    /\ UNCHANGED counters

\* Wait for the next agent, without the mutex, and take the mutex again.
waitAgent(t) ==
    /\ \/ At(t, "wait agent") /\ down(t, "waiting_for_agent", "relock")
       \/ At(t, "relock") /\ down(t, "mutex", "woken")
    /\ UNCHANGED counters

\* Be given to the current agent, or wait for the next one.
takeAgent(t) ==
    \/ At(t, "arrives") /\ down(t, "mutex", "full?") /\ UNCHANGED counters
    \/ /\ At(t, "full?") /\ current_agent_tenants >= MAX_TENANTS_PER_AGENT
       /\ up(t, "mutex", "wait agent") /\ UNCHANGED counters
    \/ waitAgent(t)
    \/ At(t, "woken") /\ Load(t, current_agent_tenants, "taken late")
    \/ /\ At(t, "taken late")
       /\ current_agent_tenants' = reg[t] + 1
       /\ \/ /\ reg[t] + 1 < MAX_TENANTS_PER_AGENT
             /\ up(t, "waiting_for_agent", "joins")
          \/ /\ reg[t] + 1 >= MAX_TENANTS_PER_AGENT
             /\ Goto(t, "joins") /\ UNCHANGED sems
       /\ UNCHANGED <<tenants_in_apt, reg>>
    \/ /\ At(t, "full?") /\ current_agent_tenants < MAX_TENANTS_PER_AGENT
       /\ Load(t, current_agent_tenants, "taken")
    \/ /\ At(t, "taken")
       /\ current_agent_tenants' = reg[t] + 1
       /\ Goto(t, "joins")
       /\ UNCHANGED <<sems, tenants_in_apt, reg>>

countInBug(t) ==
    /\ At(t, "counted")
    /\ \/ current_agent_tenants = 1 /\ up(t, "tenant_arrived", "unlocks")
       \/ current_agent_tenants # 1 /\ Goto(t, "unlocks") /\ UNCHANGED sems
    /\ UNCHANGED counters

\* Be counted in; the agent's first tenant signals it.
countIn(t) ==
    /\ At(t, "counted")
    /\ tenants_in_apt' = reg[t] + 1
    /\ \/ current_agent_tenants = 1 /\ up(t, "tenant_arrived", "unlocks")
       \/ current_agent_tenants # 1 /\ Goto(t, "unlocks") /\ UNCHANGED sems
    /\ UNCHANGED <<current_agent_tenants, reg>>

meetAgentBug(t) ==
    /\ \/ At(t, "await agent") /\ down(t, "agent_arrived", "met agent")
       \/ At(t, "met agent") /\ down(t, "mutex", "pass on agent")
       \/ At(t, "pass on agent") /\ Goto(t, "unlocks again") /\ UNCHANGED sems
       \/ At(t, "unlocks again") /\ up(t, "mutex", "at door")
    /\ UNCHANGED counters

\* Wait for the agent and let the next waiting tenant know of it.
meetAgent(t) ==
    /\ \/ At(t, "await agent") /\ down(t, "agent_arrived", "met agent")
       \/ At(t, "met agent") /\ down(t, "mutex", "pass on agent")
       \/ At(t, "pass on agent") /\ up(t, "agent_arrived", "unlocks again")
       \/ At(t, "unlocks again") /\ up(t, "mutex", "at door")
    /\ UNCHANGED counters

tenantArrives(t) ==
    \/ takeAgent(t)
    \/ At(t, "joins") /\ Load(t, tenants_in_apt, "counted")
    \/ countIn(t)
    \/ At(t, "unlocks") /\ up(t, "mutex", "await agent") /\ UNCHANGED counters
    \/ meetAgent(t)

viewApt(t) ==
    /\ \/ At(t, "at door")  /\ down(t, "apt_lock", "inspects")
       \/ At(t, "inspects") /\ up(t, "apt_lock", "viewed")
    /\ UNCHANGED counters

lockToLeaveBug(t) ==
    At(t, "viewed") /\ Goto(t, "leaves") /\ UNCHANGED <<sems, counters>>

lockToLeave(t) == At(t, "viewed") /\ down(t, "mutex", "leaves") /\ UNCHANGED counters

countOutBug(t) ==
    /\ At(t, "counts out")
    /\ tenants_in_apt' = reg[t] - 1
    /\ \/ /\ reg[t] - 1 = 0
          /\ current_agent_tenants' = MAX_TENANTS_PER_AGENT
          /\ Goto(t, "last out") /\ UNCHANGED sems
       \/ /\ reg[t] - 1 # 0
          /\ Goto(t, "out") /\ UNCHANGED <<sems, current_agent_tenants>>
    /\ UNCHANGED reg

\* Be counted out; the last tenant closes the visit and signals the agent.
countOut(t) ==
    /\ At(t, "counts out")
    /\ tenants_in_apt' = reg[t] - 1
    /\ \/ /\ reg[t] - 1 = 0
          /\ current_agent_tenants' = MAX_TENANTS_PER_AGENT
          /\ up(t, "tenants_leave", "last out")
       \/ /\ reg[t] - 1 # 0
          /\ Goto(t, "out") /\ UNCHANGED <<sems, current_agent_tenants>>
    /\ UNCHANGED reg

tenantLeaves(t) ==
    \/ lockToLeave(t)
    \/ At(t, "leaves") /\ Load(t, tenants_in_apt, "counts out")
    \/ countOut(t)
    \/ /\ \/ At(t, "out") /\ up(t, "mutex", "done")
          \/ At(t, "last out") /\ up(t, "mutex", "resets agent")
          \/ At(t, "resets agent") /\ down(t, "agent_arrived", "resets door")
          \/ At(t, "resets door") /\ down(t, "apt_lock", "done")
       /\ UNCHANGED counters

tenantProcess(t) == tenantArrives(t) \/ viewApt(t) \/ tenantLeaves(t)

-----------------------------------------------------------------------------
(***************************************************************************)
(* The parent and the tenant creator.  loadArguments runs off its end on   *)
(* valid arguments, so main tests an unspecified value: either branch.     *)
(***************************************************************************)
Fork(p, child, next) ==
    /\ pc[child] = "unborn"
    /\ pc' = [pc EXCEPT ![p] = next,
                        ![child] = IF child = Creator THEN "forks" ELSE "arrives"]

loadArguments ==
    /\ pc[Main] = "loads"
    /\ \E next \in {"forks creator", "done"} : Goto(Main, next)
    /\ UNCHANGED <<sems, counters>>

forkCreator ==
    /\ pc[Main] = "forks creator"
    /\ Fork(Main, Creator, "forks")
    /\ UNCHANGED <<sems, counters>>

\* startAgentCreation and startTenantCreation: fork every child, in some order.
startCreation(p, children) ==
    /\ pc[p] = "forks"
    /\ \/ \E child \in children : Fork(p, child, "forks")
       \/ (\A child \in children : pc[child] # "unborn") /\ Goto(p, "waits")
    /\ UNCHANGED <<sems, counters>>

waitChildren(p, children) ==
    /\ pc[p] = "waits"
    /\ \A child \in children : pc[child] = "done" /\ Awake(child)
    /\ Goto(p, "done")
    /\ UNCHANGED <<sems, counters>>

main ==
    \/ loadArguments
    \/ forkCreator
    \/ startCreation(Main, Agents)
    \/ waitChildren(Main, Agents \cup {Creator})

creator == startCreation(Creator, Tenants) \/ waitChildren(Creator, Tenants)

-----------------------------------------------------------------------------
initSharedVariables ==
    /\ value = [s \in Sems |-> IF s \in {"mutex", "agent_apt_lock"} THEN 1 ELSE 0]
    /\ queue = [s \in Sems |-> <<>>]
    /\ current_agent_tenants = 0
    /\ tenants_in_apt = 0

Init ==
    /\ initSharedVariables
    /\ reg = [p \in Procs |-> 0]
    /\ pc = [p \in Procs |-> IF p = Main THEN "loads" ELSE "unborn"]

Next ==
    \/ main
    \/ creator
    \/ \E a \in Agents : agentProcess(a)
    \/ \E t \in Tenants : tenantProcess(t)

Spec == Init /\ [][Next]_vars

\* The kernel runs every process that is ready to run.
Fairness ==
    /\ WF_vars(main) /\ WF_vars(creator)
    /\ \A a \in Agents : WF_vars(agentProcess(a))
    /\ \A t \in Tenants : WF_vars(tenantProcess(t))

FairSpec == Spec /\ Fairness

-----------------------------------------------------------------------------
(***************************************************************************)
(* Properties.                                                             *)
(***************************************************************************)
MutexSteps == {"first?", "wake tenant", "enters", "leaves", "resets",
               "full?", "woken", "taken late", "taken", "joins", "counted",
               "unlocks", "pass on agent", "unlocks again", "counts out",
               "out", "last out"}

HoldsMutex(p) == pc[p] \in MutexSteps /\ p \notin Sleepers("mutex")

InsideSteps == {"relock", "wake tenant", "enters", "announces", "meets",
                "opens", "shows", "all left", "leaves"}

AgentInside(a) == pc[a] \in InsideSteps /\ a \notin Sleepers("agent_apt_lock")

VisitSteps == {"unlocks", "await agent", "met agent", "pass on agent",
               "unlocks again", "at door", "inspects", "viewed", "leaves",
               "counts out"}

Steps == MutexSteps \cup InsideSteps \cup VisitSteps \cup
         {"unborn", "loads", "forks creator", "forks", "waits", "arrives",
          "wait turn", "wait agent", "resets agent", "resets door", "done"}

\* The variables have their types; in particular the tenant counters of shared
\* memory never become negative, whatever the order of arrivals and departures.
TypeOK ==
    /\ value \in [Sems -> Int]
    /\ queue \in [Sems -> Seq(Procs)]
    /\ current_agent_tenants \in Nat
    /\ tenants_in_apt \in Nat
    /\ reg \in [Procs -> Nat]
    /\ pc \in [Procs -> Steps]

\* Between its down(mutex) and its up(mutex) a process is alone, agents and
\* tenants together: on the path that waits for an agent, on the one an agent
\* takes while it waits for its turn, and when the mutex is handed to a sleeper.
MutexExclusion ==
    \A p, q \in Procs : HoldsMutex(p) /\ HoldsMutex(q) => p = q

\* "Only one agent can enter the apartment at a time" (writeup): from its
\* down(agent_apt_lock) to its up, with or without waiting, an agent is alone.
OneAgentInside ==
    \A a, b \in Agents : AgentInside(a) /\ AgentInside(b) => a = b

\* tenants_in_apt, incremented by tenantArrives and decremented by
\* tenantLeaves, is the number of tenants between the two, so the tenant that
\* brings it to 0 is the last one: no increment or decrement is lost.
TenantsCounted ==
    tenants_in_apt = Cardinality({t \in Tenants : pc[t] \in VisitSteps})

\* "There exists no circular dependencies for a deadlock to occur" (writeup):
\* no agent sleeps on agent_apt_lock with the mutex while the agent that has
\* agent_apt_lock sleeps on the mutex.
DeadlockFree ==
    ~ \E p, q \in Agents :
        /\ HoldsMutex(p) /\ p \in Sleepers("agent_apt_lock")
        /\ AgentInside(q) /\ q \in Sleepers("mutex")

\* "Only 10 tenants can be assigned to a single agent" (writeup): no more than
\* that many tenants have been let in and not left.
AtMostMaxTenants == tenants_in_apt <= MAX_TENANTS_PER_AGENT

\* "Tenants wait for an agent [...] before [they] can view the apartment"
\* (writeup): while a tenant inspects, some agent is in the apartment.
InspectsWithAgent ==
    \A t \in Tenants : At(t, "inspects") => \E a \in Agents : AgentInside(a)

\* A tenant that is visiting while the agent is there gets to leave: it meets
\* the agent, gets in and is counted out, however many tenants come with it.
VisitEnds ==
    \A t \in Tenants :
        (pc[t] \in VisitSteps /\ \E a \in Agents : AgentInside(a))
            ~> pc[t] \notin VisitSteps

\* An agent that arrives meets a tenant, shows the apartment, is told that the
\* last tenant has left and leaves.
AgentServes == \A a \in Agents : pc[a] = "arrives" ~> pc[a] = "done"

-----------------------------------------------------------------------------
(***************************************************************************)
(* The inductive invariant behind the first three safety properties.       *)
(***************************************************************************)
\* A semaphore has as many sleepers as its value is below zero, each once.
QueueInv ==
    \A s \in Sems :
        /\ Len(queue[s]) = IF value[s] < 0 THEN 0 - value[s] ELSE 0
        /\ \A i, j \in 1..Len(queue[s]) : queue[s][i] = queue[s][j] => i = j

\* A holder of the mutex, or of agent_apt_lock, has taken its only credit.
MutexInv ==
    /\ value["mutex"] <= 1
    /\ \A p \in Procs : HoldsMutex(p) => value["mutex"] <= 0
    /\ MutexExclusion

AptLockInv ==
    /\ value["agent_apt_lock"] <= 1
    /\ \A a \in Agents : AgentInside(a) => value["agent_apt_lock"] <= 0
    /\ OneAgentInside

\* A process that sleeps on the mutex has yet to load a counter, and one that
\* has loaded tenants_in_apt and not stored it back has its current value.
RegInv ==
    /\ \A p \in Sleepers("mutex") : pc[p] \notin {"counted", "counts out"}
    /\ \A t \in Tenants :
         pc[t] \in {"counted", "counts out"} => reg[t] = tenants_in_apt

IInv == TypeOK /\ QueueInv /\ MutexInv /\ AptLockInv /\ RegInv /\ TenantsCounted
=============================================================================
