---------------------------- MODULE AptSimProofs ----------------------------
(***************************************************************************)
(* Proofs about the apartment simulation, for any number of agents and     *)
(* tenants and any MAX_TENANTS_PER_AGENT.                                  *)
(***************************************************************************)
EXTENDS AptSim, FiniteSetTheorems, SequenceTheorems, TLAPS

\* A process that is awake and goes down on a semaphore without credit is its
\* last sleeper; with credit the sleepers do not change.  Nobody else moves.
LEMMA DownStep ==
    ASSUME TypeOK, QueueInv, NEW p \in Procs, NEW s \in Sems, NEW next \in Steps,
           Awake(p), down(p, s, next)
    PROVE  /\ value' \in [Sems -> Int] /\ queue' \in [Sems -> Seq(Procs)]
           /\ pc' \in [Procs -> Steps]
           /\ QueueInv'
           /\ value[s] > 0 => Sleepers(s)' = Sleepers(s)
           /\ value[s] <= 0 => Sleepers(s)' = Sleepers(s) \cup {p}
           /\ \A r \in Sems : r # s => Sleepers(r)' = Sleepers(r)
<1>0. /\ value[s] \in Int /\ queue[s] \in Seq(Procs) /\ Len(queue[s]) \in Nat
      /\ \A i \in 1..Len(queue[s]) : queue[s][i] \in Procs
  BY DEF TypeOK
<1>1. pc' \in [Procs -> Steps] /\ value' \in [Sems -> Int]
  BY DEF down, Goto, TypeOK
<1>2. \A r \in Sems : r # s => queue'[r] = queue[r] /\ value'[r] = value[r]
  BY Zenon DEF down, TypeOK
<1>3. value'[s] = value[s] - 1
  BY Zenon DEF down, TypeOK
<1>4. \A r \in Sems : r # s => Sleepers(r)' = Sleepers(r)
  BY <1>2, Zenon DEF Sleepers
<1>5. \A i \in 1..Len(queue[s]) : queue[s][i] # p
  BY Zenon DEF Awake, Sleepers
<1>6. CASE value[s] > 0
  <2>1. queue' = queue
    BY <1>6, <1>0 DEF down, TypeOK
  <2>2. Sleepers(s)' = Sleepers(s)
    BY <2>1, Zenon DEF Sleepers
  <2>3. QueueInv'
    BY <2>1, <1>0, <1>2, <1>3, <1>6 DEF QueueInv
  <2> QED
    BY <2>1, <2>2, <2>3, <1>1, <1>4, <1>6, <1>0 DEF TypeOK
<1>7. CASE value[s] <= 0
  <2>1. queue'[s] = Append(queue[s], p)
    BY <1>7, <1>0, Zenon DEF down, TypeOK
  <2>2. /\ Append(queue[s], p) \in Seq(Procs)
        /\ Len(Append(queue[s], p)) = Len(queue[s]) + 1
        /\ \A i \in 1..Len(queue[s]) : Append(queue[s], p)[i] = queue[s][i]
        /\ Append(queue[s], p)[Len(queue[s]) + 1] = p
    BY <1>0
  <2>3. queue' \in [Sems -> Seq(Procs)]
    BY <2>1, <2>2, <1>7, <1>0, Zenon DEF down, TypeOK
  <2>4. Sleepers(s)' = Sleepers(s) \cup {p}
    BY <2>1, <2>2, <1>0 DEF Sleepers
  <2>5. ASSUME NEW r \in Sems, r # s
        PROVE  /\ Len(queue'[r]) = IF value'[r] < 0 THEN 0 - value'[r] ELSE 0
               /\ \A i, j \in 1..Len(queue'[r]) : queue'[r][i] = queue'[r][j] => i = j
    BY <2>5, <1>2, Zenon DEF QueueInv
  <2>6. Len(queue'[s]) = IF value'[s] < 0 THEN 0 - value'[s] ELSE 0
    BY <2>1, <2>2, <1>0, <1>3, <1>7 DEF QueueInv
  <2>7. \A i, j \in 1..Len(queue'[s]) : queue'[s][i] = queue'[s][j] => i = j
    BY <2>1, <2>2, <1>0, <1>5 DEF QueueInv
  <2>8. QueueInv'
    BY <2>5, <2>6, <2>7, Zenon DEF QueueInv
  <2> QED
    BY <2>3, <2>4, <2>8, <1>1, <1>4, <1>7, <1>0
<1> QED
  BY <1>6, <1>7, <1>0

\* An up on a semaphore without sleepers leaves everyone where they are; with
\* sleepers it wakes exactly one of them, which then sleeps nowhere.
LEMMA UpStep ==
    ASSUME TypeOK, QueueInv, NEW p \in Procs, NEW s \in Sems, NEW next \in Steps,
           up(p, s, next)
    PROVE  /\ value' \in [Sems -> Int] /\ queue' \in [Sems -> Seq(Procs)]
           /\ pc' \in [Procs -> Steps]
           /\ QueueInv'
           /\ value[s] >= 0 => Sleepers(s) = {} /\ Sleepers(s)' = {}
           /\ value[s] < 0 => \E h \in Sleepers(s) : Sleepers(s)' = Sleepers(s) \ {h}
           /\ \A r \in Sems : r # s => Sleepers(r)' = Sleepers(r)
<1>0. /\ value[s] \in Int /\ queue[s] \in Seq(Procs) /\ Len(queue[s]) \in Nat
      /\ \A i \in 1..Len(queue[s]) : queue[s][i] \in Procs
  BY DEF TypeOK
<1>1. pc' \in [Procs -> Steps] /\ value' \in [Sems -> Int]
  BY DEF up, Goto, TypeOK
<1>2. \A r \in Sems : r # s => queue'[r] = queue[r] /\ value'[r] = value[r]
  BY Zenon DEF up, TypeOK
<1>3. value'[s] = value[s] + 1
  BY Zenon DEF up, TypeOK
<1>4. \A r \in Sems : r # s => Sleepers(r)' = Sleepers(r)
  BY <1>2, Zenon DEF Sleepers
<1>6. CASE value[s] >= 0
  <2>1. queue' = queue
    BY <1>6, <1>0 DEF up, TypeOK
  <2>2. Len(queue[s]) = 0
    BY <1>6, <1>0 DEF QueueInv
  <2>3. Sleepers(s) = {} /\ Sleepers(s)' = {}
    BY <2>1, <2>2 DEF Sleepers
  <2>4. QueueInv'
    BY <2>1, <1>0, <1>2, <1>3, <1>6 DEF QueueInv
  <2> QED
    BY <2>1, <2>3, <2>4, <1>1, <1>4, <1>6, <1>0 DEF TypeOK
<1>7. CASE value[s] < 0
  <2> DEFINE q == queue[s]
  <2>1. queue'[s] = Tail(q)
    BY <1>7, <1>0, Zenon DEF up, TypeOK
  <2>2. Len(q) = 0 - value[s] /\ Len(q) > 0 /\ q # <<>>
    BY <1>7, <1>0 DEF QueueInv
  <2>3. /\ Tail(q) \in Seq(Procs)
        /\ Len(Tail(q)) = Len(q) - 1
        /\ \A i \in 1..Len(q) - 1 : Tail(q)[i] = q[i + 1]
    BY <2>2, <1>0, HeadTailProperties, Zenon
  <2>4. \A i, j \in 1..Len(q) : q[i] = q[j] => i = j
    BY Zenon DEF QueueInv
  <2>5. queue' \in [Sems -> Seq(Procs)]
    BY <2>1, <2>3, <1>7, <1>0, Zenon DEF up, TypeOK
  <2>6. q[1] \in Sleepers(s)
    BY <2>2, <1>0 DEF Sleepers
  <2>7. Sleepers(s)' = {Tail(q)[i] : i \in 1..Len(q) - 1}
    BY <2>1, <2>3, Zenon DEF Sleepers
  <2>8. ASSUME NEW x \in Sleepers(s)' PROVE x \in Sleepers(s) \ {q[1]}
    <3>1. PICK i \in 1..Len(q) - 1 : x = q[i + 1]
      BY <2>7, <2>8, <2>3, Zenon
    <3>2. i + 1 \in 1..Len(q) /\ i + 1 # 1 /\ 1 \in 1..Len(q)
      BY <1>0, <2>2
    <3> QED
      BY <3>1, <3>2, <2>4, Zenon DEF Sleepers
  <2>9. ASSUME NEW x \in Sleepers(s), x # q[1] PROVE x \in Sleepers(s)'
    <3>1. PICK i \in 1..Len(q) : x = q[i]
      BY <2>9, Zenon DEF Sleepers
    <3>2. i # 1 /\ i - 1 \in 1..Len(q) - 1 /\ (i - 1) + 1 = i
      BY <3>1, <2>9, <1>0, <2>2
    <3> QED
      BY <3>1, <3>2, <2>3, <2>7, Zenon
  <2>10. Sleepers(s)' = Sleepers(s) \ {q[1]}
    BY <2>8, <2>9, Zenon
  <2>11. ASSUME NEW r \in Sems, r # s
         PROVE  /\ Len(queue'[r]) = IF value'[r] < 0 THEN 0 - value'[r] ELSE 0
                /\ \A i, j \in 1..Len(queue'[r]) : queue'[r][i] = queue'[r][j] => i = j
    BY <2>11, <1>2, Zenon DEF QueueInv
  <2>12. Len(queue'[s]) = IF value'[s] < 0 THEN 0 - value'[s] ELSE 0
    BY <2>1, <2>2, <2>3, <1>0, <1>3, <1>7
  <2>13. ASSUME NEW i \in 1..Len(queue'[s]), NEW j \in 1..Len(queue'[s]),
                queue'[s][i] = queue'[s][j]
         PROVE  i = j
    <3>1. i \in 1..Len(q) - 1 /\ j \in 1..Len(q) - 1 /\ q[i + 1] = q[j + 1]
      BY <2>13, <2>1, <2>3, Zenon
    <3>2. i + 1 \in 1..Len(q) /\ j + 1 \in 1..Len(q)
      BY <3>1, <1>0
    <3> QED
      BY <3>1, <3>2, <2>4
  <2>14. QueueInv'
    BY <2>11, <2>12, <2>13, Zenon DEF QueueInv
  <2>15. \E h \in Sleepers(s) : Sleepers(s)' = Sleepers(s) \ {h}
    BY <2>6, <2>10, Zenon
  <2>16. ~ (value[s] >= 0)
    BY <1>7, <1>0
  <2> QED
    BY <2>5, <2>14, <2>15, <2>16, <1>1, <1>4, Zenon
<1> QED
  BY <1>6, <1>7, <1>0

-----------------------------------------------------------------------------
(***************************************************************************)
(* The two locks.  A step keeps LocksInv when it goes down on a lock as it *)
(* enters the lock's section and up as it leaves it, and otherwise stays   *)
(* on its side of the section's border.                                    *)
(***************************************************************************)
LoadedSteps == {"counted", "counts out"}

SleepInv == \A p \in Sleepers("mutex") : pc[p] \notin LoadedSteps

LocksInv == TypeOK /\ QueueInv /\ MutexInv /\ AptLockInv /\ SleepInv

\* Only processes sleep.
LEMMA SleepersProcs ==
    ASSUME TypeOK, NEW s \in Sems
    PROVE  Sleepers(s) \subseteq Procs
<1>1. queue[s] \in Seq(Procs)
  BY Zenon DEF TypeOK
<1>2. \A i \in 1..Len(queue[s]) : queue[s][i] \in Procs
  BY <1>1, ElementOfSeq, Zenon
<1> QED
  BY <1>2, Zenon DEF Sleepers

\* A down by a process that is awake keeps LocksInv.
LEMMA DownKeepsLocks ==
    ASSUME LocksInv, NEW p \in Procs, NEW s \in Sems, NEW next \in Steps,
           Awake(p), down(p, s, next), UNCHANGED counters,
           next \notin LoadedSteps,
           IF s = "mutex" THEN pc[p] \notin MutexSteps /\ next \in MutexSteps
                          ELSE pc[p] \in MutexSteps <=> next \in MutexSteps,
           IF s = "agent_apt_lock"
           THEN pc[p] \notin InsideSteps /\ next \in InsideSteps
           ELSE p \in Agents => (pc[p] \in InsideSteps <=> next \in InsideSteps)
    PROVE  LocksInv'
<1>1. /\ value' \in [Sems -> Int] /\ queue' \in [Sems -> Seq(Procs)]
      /\ pc' \in [Procs -> Steps]
      /\ QueueInv'
      /\ value[s] > 0 => Sleepers(s)' = Sleepers(s)
      /\ value[s] <= 0 => Sleepers(s)' = Sleepers(s) \cup {p}
      /\ \A r \in Sems : r # s => Sleepers(r)' = Sleepers(r)
  BY DownStep, Zenon DEF LocksInv
<1>2. TypeOK'
  BY <1>1, Zenon DEF LocksInv, TypeOK, counters
<1>3. /\ pc'[p] = next /\ \A q \in Procs : q # p => pc'[q] = pc[q]
      /\ value'[s] = value[s] - 1 /\ \A r \in Sems : r # s => value'[r] = value[r]
      /\ \A r \in Sems : value[r] \in Int
      /\ "mutex" \in Sems /\ "agent_apt_lock" \in Sems /\ Agents \subseteq Procs
      /\ \A r \in Sems : p \notin Sleepers(r)
  BY Zenon DEF LocksInv, TypeOK, down, Goto, Sems, Procs, Awake
<1>4. SleepInv'
  <2>1. Sleepers("mutex") \subseteq Procs
    BY <1>3, SleepersProcs, Zenon DEF LocksInv
  <2>2. ASSUME NEW q \in Sleepers("mutex")' PROVE pc'[q] \notin LoadedSteps
    <3>1. q = p \/ q \in Sleepers("mutex")
      BY <1>1, <1>3
    <3> QED
      BY <3>1, <2>1, <1>3, Zenon DEF LocksInv, SleepInv
  <2> QED
    BY <2>2, Zenon DEF SleepInv
<1>5. MutexInv'
  <2>1. CASE s = "mutex"
    BY <2>1, <1>1, <1>3 DEF LocksInv, MutexInv, MutexExclusion, HoldsMutex
  <2>2. CASE s # "mutex"
    <3>1. \A q \in Procs : HoldsMutex(q)' <=> HoldsMutex(q)
      BY <2>2, <1>1, <1>3, Zenon DEF HoldsMutex
    <3> QED
      BY <2>2, <3>1, <1>3, Zenon DEF LocksInv, MutexInv, MutexExclusion
  <2> QED
    BY <2>1, <2>2, Zenon
<1>6. AptLockInv'
  <2>1. CASE s = "agent_apt_lock"
    BY <2>1, <1>1, <1>3 DEF LocksInv, AptLockInv, OneAgentInside, AgentInside
  <2>2. CASE s # "agent_apt_lock"
    <3>1. \A a \in Agents : AgentInside(a)' <=> AgentInside(a)
      BY <2>2, <1>1, <1>3, Zenon DEF AgentInside
    <3> QED
      BY <2>2, <3>1, <1>3, Zenon DEF LocksInv, AptLockInv, OneAgentInside
  <2> QED
    BY <2>1, <2>2, Zenon
<1> QED
  BY <1>1, <1>2, <1>4, <1>5, <1>6, Zenon DEF LocksInv

\* An up keeps LocksInv.
LEMMA UpKeepsLocks ==
    ASSUME LocksInv, NEW p \in Procs, NEW s \in Sems, NEW next \in Steps,
           Awake(p), up(p, s, next), UNCHANGED reg,
           current_agent_tenants' \in Nat, tenants_in_apt' \in Nat,
           IF s = "mutex" THEN pc[p] \in MutexSteps /\ next \notin MutexSteps
                          ELSE pc[p] \in MutexSteps <=> next \in MutexSteps,
           IF s = "agent_apt_lock"
           THEN p \in Agents /\ pc[p] \in InsideSteps /\ next \notin InsideSteps
           ELSE p \in Agents => (pc[p] \in InsideSteps <=> next \in InsideSteps)
    PROVE  LocksInv'
<1>1. /\ value' \in [Sems -> Int] /\ queue' \in [Sems -> Seq(Procs)]
      /\ pc' \in [Procs -> Steps]
      /\ QueueInv'
      /\ value[s] >= 0 => Sleepers(s) = {} /\ Sleepers(s)' = {}
      /\ value[s] < 0 => \E h \in Sleepers(s) : Sleepers(s)' = Sleepers(s) \ {h}
      /\ \A r \in Sems : r # s => Sleepers(r)' = Sleepers(r)
  BY UpStep, Zenon DEF LocksInv
<1>2. TypeOK'
  BY <1>1, Zenon DEF LocksInv, TypeOK
<1>3. /\ pc'[p] = next /\ \A q \in Procs : q # p => pc'[q] = pc[q]
      /\ value'[s] = value[s] + 1 /\ \A r \in Sems : r # s => value'[r] = value[r]
      /\ \A r \in Sems : value[r] \in Int
      /\ "mutex" \in Sems /\ "agent_apt_lock" \in Sems /\ Agents \subseteq Procs
      /\ \A r \in Sems : p \notin Sleepers(r)
  BY Zenon DEF LocksInv, TypeOK, up, Goto, Sems, Procs, Awake
<1>4. SleepInv'
  <2>1. Sleepers("mutex") \subseteq Procs
    BY <1>3, SleepersProcs, Zenon DEF LocksInv
  <2>2. ASSUME NEW q \in Sleepers("mutex")' PROVE pc'[q] \notin LoadedSteps
    <3>1. q \in Sleepers("mutex")
      BY <1>1, <1>3
    <3> QED
      BY <3>1, <2>1, <1>3, Zenon DEF LocksInv, SleepInv
  <2> QED
    BY <2>2, Zenon DEF SleepInv
<1>5. MutexInv'
  <2>1. CASE s = "mutex"
    BY <2>1, <1>1, <1>3 DEF LocksInv, MutexInv, MutexExclusion, HoldsMutex
  <2>2. CASE s # "mutex"
    BY <2>2, <1>1, <1>3, Zenon DEF LocksInv, MutexInv, MutexExclusion, HoldsMutex
  <2> QED
    BY <2>1, <2>2, Zenon
<1>6. AptLockInv'
  <2>1. CASE s = "agent_apt_lock"
    <3>1. AgentInside(p) /\ value[s] <= 0 /\ \A a \in Agents : AgentInside(a) => a = p
      BY <2>1, <1>3, Zenon DEF LocksInv, AptLockInv, OneAgentInside, AgentInside
    <3>2. CASE value[s] >= 0
      <4>1. \A a \in Agents : ~ AgentInside(a)'
        BY <3>1, <3>2, <2>1, <1>1, <1>3, Zenon DEF AgentInside
      <4> QED
        BY <4>1, <3>1, <3>2, <2>1, <1>3 DEF AptLockInv, OneAgentInside
    <3>3. CASE value[s] < 0
      <4>1. PICK h \in Sleepers(s) : Sleepers(s)' = Sleepers(s) \ {h}
        BY <3>3, <1>1, Zenon
      <4>2. \A a \in Agents : AgentInside(a)' => a = h
        BY <4>1, <3>1, <2>1, <1>3, Zenon DEF AgentInside
      <4> QED
        BY <4>2, <3>3, <2>1, <1>3 DEF AptLockInv, OneAgentInside
    <3> QED
      BY <3>2, <3>3, <2>1, <1>3
  <2>2. CASE s # "agent_apt_lock"
    <3>1. \A a \in Agents : AgentInside(a)' <=> AgentInside(a)
      BY <2>2, <1>1, <1>3, Zenon DEF AgentInside
    <3> QED
      BY <2>2, <3>1, <1>3, Zenon DEF LocksInv, AptLockInv, OneAgentInside
  <2> QED
    BY <2>1, <2>2, Zenon
<1> QED
  BY <1>1, <1>2, <1>4, <1>5, <1>6, Zenon DEF LocksInv

\* A step that calls neither down nor up keeps LocksInv if nobody crosses the
\* border of a section.
LEMMA LocalKeepsLocks ==
    ASSUME LocksInv, UNCHANGED sems, pc' \in [Procs -> Steps],
           reg' \in [Procs -> Nat],
           current_agent_tenants' \in Nat, tenants_in_apt' \in Nat,
           \A q \in Procs :
             /\ pc'[q] \in MutexSteps <=> pc[q] \in MutexSteps
             /\ q \in Agents => (pc'[q] \in InsideSteps <=> pc[q] \in InsideSteps)
             /\ pc'[q] \in LoadedSteps => pc[q] \in LoadedSteps \/ Awake(q)
    PROVE  LocksInv'
<1>1. value' = value /\ queue' = queue /\ \A s : Sleepers(s)' = Sleepers(s)
  BY Zenon DEF sems, Sleepers
<1>2. TypeOK' /\ QueueInv'
  BY <1>1, Zenon DEF LocksInv, TypeOK, QueueInv
<1>3. Sleepers("mutex") \subseteq Procs /\ "mutex" \in Sems /\ Agents \subseteq Procs
  <2>1. "mutex" \in Sems /\ Agents \subseteq Procs
    BY Zenon DEF Sems, Procs
  <2> QED
    BY <2>1, SleepersProcs, Zenon DEF LocksInv
<1>4. SleepInv'
  BY <1>1, <1>3, Zenon DEF LocksInv, SleepInv, Awake
<1>5. MutexInv'
  BY <1>1, Zenon DEF LocksInv, MutexInv, MutexExclusion, HoldsMutex
<1>6. AptLockInv'
  BY <1>1, <1>3, Zenon DEF LocksInv, AptLockInv, OneAgentInside, AgentInside
<1> QED
  BY <1>2, <1>4, <1>5, <1>6, Zenon DEF LocksInv

-----------------------------------------------------------------------------
(***************************************************************************)
(* The tenant counter.                                                     *)
(***************************************************************************)
CountInv ==
    /\ \A t \in Tenants : pc[t] \in LoadedSteps => reg[t] = tenants_in_apt
    /\ TenantsCounted

\* The inductive invariant is the locks' part and the counter's part.
LEMMA IInvParts == IInv <=> LocksInv /\ CountInv
  BY Zenon DEF IInv, LocksInv, CountInv, RegInv, SleepInv, LoadedSteps

\* A step that leaves tenants_in_apt alone keeps CountInv if no tenant starts or
\* ends its visit, and a tenant that has just loaded the counter has it right.
LEMMA KeepsCount ==
    ASSUME CountInv, tenants_in_apt' = tenants_in_apt,
           \A t \in Tenants :
             /\ pc'[t] \in VisitSteps <=> pc[t] \in VisitSteps
             /\ pc'[t] \in LoadedSteps =>
                  \/ pc[t] \in LoadedSteps /\ reg'[t] = reg[t]
                  \/ reg'[t] = tenants_in_apt
    PROVE  CountInv'
<1>1. {t \in Tenants : pc'[t] \in VisitSteps} = {t \in Tenants : pc[t] \in VisitSteps}
  BY Zenon
<1> QED
  BY <1>1, Zenon DEF CountInv, TenantsCounted

\* A down that changes no counter keeps the invariant.
LEMMA DownKeeps ==
    ASSUME IInv, NEW p \in Procs, NEW s \in Sems, NEW next \in Steps,
           Awake(p), down(p, s, next), UNCHANGED counters,
           next \notin LoadedSteps,
           IF s = "mutex" THEN pc[p] \notin MutexSteps /\ next \in MutexSteps
                          ELSE pc[p] \in MutexSteps <=> next \in MutexSteps,
           IF s = "agent_apt_lock"
           THEN pc[p] \notin InsideSteps /\ next \in InsideSteps
           ELSE p \in Agents => (pc[p] \in InsideSteps <=> next \in InsideSteps),
           p \in Tenants => (pc[p] \in VisitSteps <=> next \in VisitSteps)
    PROVE  IInv'
<1>1. LocksInv /\ CountInv
  BY IInvParts, Zenon
<1>2. LocksInv'
  BY <1>1, DownKeepsLocks, Zenon
<1>3. \A q \in Procs : pc'[q] = IF q = p THEN next ELSE pc[q]
  BY Zenon DEF down, Goto, IInv, TypeOK
<1>4. CountInv'
  BY <1>1, <1>3, KeepsCount DEF counters, Procs
<1> QED
  BY <1>2, <1>4, IInvParts, PTL

\* An up that leaves tenants_in_apt alone keeps the invariant.
LEMMA UpKeeps ==
    ASSUME IInv, NEW p \in Procs, NEW s \in Sems, NEW next \in Steps,
           Awake(p), up(p, s, next), UNCHANGED <<tenants_in_apt, reg>>,
           current_agent_tenants' \in Nat, next \notin LoadedSteps,
           IF s = "mutex" THEN pc[p] \in MutexSteps /\ next \notin MutexSteps
                          ELSE pc[p] \in MutexSteps <=> next \in MutexSteps,
           IF s = "agent_apt_lock"
           THEN p \in Agents /\ pc[p] \in InsideSteps /\ next \notin InsideSteps
           ELSE p \in Agents => (pc[p] \in InsideSteps <=> next \in InsideSteps),
           p \in Tenants => (pc[p] \in VisitSteps <=> next \in VisitSteps)
    PROVE  IInv'
<1>1. LocksInv /\ CountInv
  BY IInvParts, Zenon
<1>2. LocksInv'
  BY <1>1, UpKeepsLocks, Zenon DEF LocksInv, TypeOK
<1>3. \A q \in Procs : pc'[q] = IF q = p THEN next ELSE pc[q]
  BY Zenon DEF up, Goto, IInv, TypeOK
<1>4. CountInv'
  BY <1>1, <1>3, KeepsCount DEF Procs
<1> QED
  BY <1>2, <1>4, IInvParts, PTL

-----------------------------------------------------------------------------
(***************************************************************************)
(* One lemma per process.                                                  *)
(***************************************************************************)
\* Every step of an agent keeps the invariant.
LEMMA AgentKeeps ==
    ASSUME IInv, NEW a \in Agents, agentProcess(a)
    PROVE  IInv'
<1> USE DEF At, Sems, Steps, MutexSteps, InsideSteps, VisitSteps, LoadedSteps
<1>0. /\ a \in Procs /\ a \notin Tenants /\ current_agent_tenants \in Nat
  BY ProcsAssumption, Zenon DEF Procs, IInv, TypeOK
<1>1. ASSUME agentArrives(a) PROVE IInv'
  <2>0. UNCHANGED counters /\ UNCHANGED <<tenants_in_apt, reg>> /\ current_agent_tenants' \in Nat
    BY <1>1, <1>0, Zenon DEF agentArrives, counters
  <2>1. CASE At(a, "arrives") /\ down(a, "mutex", "first?")
    BY <2>1, <2>0, <1>0, DownKeeps, Zenon
  <2>2. CASE At(a, "first?") /\ a # Agent0 /\ up(a, "mutex", "wait turn")
    BY <2>2, <2>0, <1>0, UpKeeps, Zenon
  <2>3. CASE waitTurn(a)
    BY <2>3, <2>0, <1>0, DownKeeps, Zenon DEF waitTurn
  <2>4. CASE At(a, "relock") /\ down(a, "mutex", "wake tenant")
    BY <2>4, <2>0, <1>0, DownKeeps, Zenon
  <2>5. CASE At(a, "wake tenant") /\ up(a, "waiting_for_agent", "enters")
    BY <2>5, <2>0, <1>0, UpKeeps, Zenon
  <2>6. CASE At(a, "first?") /\ a = Agent0 /\ down(a, "agent_apt_lock", "enters")
    BY <2>6, <2>0, <1>0, DownKeeps, Zenon
  <2>7. CASE At(a, "enters") /\ up(a, "mutex", "announces")
    BY <2>7, <2>0, <1>0, UpKeeps, Zenon
  <2>8. CASE At(a, "announces") /\ up(a, "agent_arrived", "meets")
    BY <2>8, <2>0, <1>0, UpKeeps, Zenon
  <2>9. CASE At(a, "meets") /\ down(a, "tenant_arrived", "opens")
    BY <2>9, <2>0, <1>0, DownKeeps, Zenon
  <2> QED
    BY <1>1, <2>1, <2>2, <2>3, <2>4, <2>5, <2>6, <2>7, <2>8, <2>9, Zenon DEF agentArrives
<1>2. ASSUME openApt(a) PROVE IInv'
  BY <1>2, <1>0, UpKeeps, Zenon DEF openApt, counters
<1>3. ASSUME agentLeaves(a) PROVE IInv'
  <2>1. CASE At(a, "shows") /\ down(a, "tenants_leave", "all left") /\ UNCHANGED counters
    BY <2>1, <1>0, DownKeeps, Zenon
  <2>2. CASE At(a, "all left") /\ down(a, "mutex", "leaves") /\ UNCHANGED counters
    BY <2>2, <1>0, DownKeeps, Zenon
  <2>3. CASE At(a, "leaves") /\ up(a, "agent_apt_lock", "resets") /\ UNCHANGED counters
    BY <2>3, <1>0, UpKeeps, Zenon DEF counters
  <2>4. CASE /\ At(a, "resets") /\ up(a, "mutex", "done")
             /\ current_agent_tenants' = 0 /\ UNCHANGED <<tenants_in_apt, reg>>
    BY <2>4, <1>0, UpKeeps, Zenon
  <2> QED
    BY <1>3, <2>1, <2>2, <2>3, <2>4, Zenon DEF agentLeaves
<1> QED
  BY <1>1, <1>2, <1>3 DEF agentProcess

\* Every step of the parent and of the tenant creator keeps the invariant.
LEMMA ForkKeeps ==
    ASSUME IInv, main \/ creator
    PROVE  IInv'
<1> USE DEF Steps, MutexSteps, InsideSteps, VisitSteps, LoadedSteps
<1> DEFINE Forking == {"loads", "forks creator", "forks", "waits", "done"}
<1>1. UNCHANGED <<sems, counters>>
  BY Zenon DEF main, creator, loadArguments, forkCreator, startCreation, waitChildren
<1>2. \E p \in Procs :
        /\ pc[p] \in Forking
        /\ \/ \E next \in Forking : Goto(p, next)
           \/ \E child \in Procs, next \in Forking : Fork(p, child, next)
  <2>1. Main \in Procs /\ Creator \in Procs /\ Agents \subseteq Procs /\ Tenants \subseteq Procs
    BY DEF Procs
  <2>2. CASE loadArguments
    BY <2>1, <2>2, Zenon DEF loadArguments
  <2>3. CASE forkCreator
    BY <2>1, <2>3, Zenon DEF forkCreator
  <2>4. ASSUME NEW p \in Procs, NEW C \in SUBSET Procs, startCreation(p, C)
        PROVE  <1>2
    BY <2>4, Zenon DEF startCreation
  <2>5. ASSUME NEW p \in Procs, NEW C, waitChildren(p, C)
        PROVE  <1>2
    BY <2>5, Zenon DEF waitChildren
  <2> QED
    BY <2>1, <2>2, <2>3, <2>4, <2>5, Zenon DEF main, creator
<1>3. /\ pc' \in [Procs -> Steps]
      /\ \A q \in Procs : \/ pc'[q] = pc[q]
                          \/ /\ pc[q] \in Forking \cup {"unborn"}
                             /\ pc'[q] \in Forking \cup {"arrives"}
  <2>1. PICK p \in Procs :
          /\ pc[p] \in Forking
          /\ \/ \E next \in Forking : Goto(p, next)
             \/ \E child \in Procs, next \in Forking : Fork(p, child, next)
    BY <1>2, Zenon
  <2>2. pc \in [Procs -> Steps]
    BY Zenon DEF IInv, TypeOK
  <2>3. ASSUME NEW next \in Forking, Goto(p, next) PROVE <1>3
    BY <2>1, <2>2, <2>3, Zenon DEF Goto
  <2>4. ASSUME NEW child \in Procs, NEW next \in Forking, Fork(p, child, next) PROVE <1>3
    <3> DEFINE first == IF child = Creator THEN "forks" ELSE "arrives"
    <3>1. first \in {"forks", "arrives"}
      BY Zenon
    <3> HIDE DEF first
    <3>2. /\ pc[child] = "unborn" /\ child # p
          /\ pc' = [pc EXCEPT ![p] = next, ![child] = first]
      BY <2>1, <2>4, Zenon DEF Fork, first
    <3>3. \A q \in Procs : pc'[q] = IF q = child THEN first ELSE IF q = p THEN next ELSE pc[q]
      BY <3>2, <2>2, Zenon
    <3> QED
      BY <3>1, <3>2, <3>3, <2>1, <2>2, Zenon
  <2> QED
    BY <2>1, <2>3, <2>4, Zenon
<1>4. LocksInv'
  BY <1>1, <1>3, LocalKeepsLocks, IInvParts DEF IInv, TypeOK, counters
<1>5. CountInv'
  BY <1>1, <1>3, KeepsCount, IInvParts, Zenon DEF counters, Procs
<1> QED
  BY <1>4, <1>5, IInvParts, PTL

\* Only one tenant at a time is between loading tenants_in_apt and storing it.
LEMMA LoadedAlone ==
    ASSUME IInv, NEW t \in Tenants, NEW u \in Tenants,
           pc[t] \in LoadedSteps, pc[u] \in LoadedSteps
    PROVE  u = t /\ reg[t] = tenants_in_apt
<1>1. t \in Procs /\ u \in Procs
  BY DEF Procs
<1>2. HoldsMutex(t) /\ HoldsMutex(u)
  BY IInvParts, Zenon DEF LocksInv, SleepInv, HoldsMutex, LoadedSteps, MutexSteps
<1> QED
  BY <1>1, <1>2, IInvParts, Zenon DEF LocksInv, MutexInv, MutexExclusion, CountInv

\* A tenant that stores tenants_in_apt as it starts its visit, or as it ends
\* it, keeps CountInv.
LEMMA StoreKeepsCount ==
    ASSUME IInv, NEW t \in Tenants, NEW next,
           pc[t] \in LoadedSteps, next \notin LoadedSteps,
           pc' = [pc EXCEPT ![t] = next], reg' = reg,
           \/ /\ pc[t] \notin VisitSteps /\ next \in VisitSteps
              /\ tenants_in_apt' = reg[t] + 1
           \/ /\ pc[t] \in VisitSteps /\ next \notin VisitSteps
              /\ tenants_in_apt' = reg[t] - 1
    PROVE  CountInv' /\ tenants_in_apt' \in Nat
<1> DEFINE V == {u \in Tenants : pc[u] \in VisitSteps}
<1>1. \A u \in Tenants : pc'[u] = IF u = t THEN next ELSE pc[u]
  BY Zenon DEF IInv, TypeOK, Procs
<1>2. reg[t] = tenants_in_apt /\ tenants_in_apt = Cardinality(V)
  BY LoadedAlone, IInvParts, Zenon DEF CountInv, TenantsCounted
<1>3. IsFiniteSet(V) /\ Cardinality(V) \in Nat
  BY ProcsAssumption, FS_Subset, FS_CardinalityType, Zenon
<1>4. \A u \in Tenants : pc'[u] \notin LoadedSteps
  BY <1>1, LoadedAlone, Zenon
<1>5. CASE /\ pc[t] \notin VisitSteps /\ next \in VisitSteps
           /\ tenants_in_apt' = reg[t] + 1
  <2>1. {u \in Tenants : pc'[u] \in VisitSteps} = V \cup {t} /\ t \notin V
    BY <1>1, <1>5, Zenon
  <2>2. IsFiniteSet(V \cup {t}) /\ Cardinality(V \cup {t}) = Cardinality(V) + 1
    BY <2>1, <1>3, FS_AddElement, Zenon
  <2>3. Cardinality(V \cup {t}) \in Nat
    BY <2>2, FS_CardinalityType
  <2> QED
    BY <2>1, <2>2, <2>3, <1>2, <1>3, <1>4, <1>5, Zenon DEF CountInv, TenantsCounted
<1>6. CASE /\ pc[t] \in VisitSteps /\ next \notin VisitSteps
           /\ tenants_in_apt' = reg[t] - 1
  <2>1. {u \in Tenants : pc'[u] \in VisitSteps} = V \ {t} /\ t \in V
    BY <1>1, <1>6, Zenon
  <2>2. IsFiniteSet(V \ {t}) /\ Cardinality(V \ {t}) = Cardinality(V) - 1
    BY <2>1, <1>3, FS_RemoveElement, Zenon
  <2>3. Cardinality(V \ {t}) \in Nat
    BY <2>2, FS_CardinalityType, Zenon
  <2> QED
    BY <2>1, <2>2, <2>3, <1>2, <1>3, <1>4, <1>6, Zenon DEF CountInv, TenantsCounted
<1> QED
  BY <1>5, <1>6, Zenon

\* A tenant that loads a counter under the mutex keeps the invariant.
LEMMA LoadKeeps ==
    ASSUME IInv, NEW t \in Tenants, NEW next \in Steps,
           Awake(t), Goto(t, next),
           UNCHANGED <<sems, current_agent_tenants, tenants_in_apt>>,
           reg' = [reg EXCEPT ![t] = reg'[t]], reg'[t] \in Nat,
           pc[t] \in MutexSteps, next \in MutexSteps,
           pc[t] \in VisitSteps <=> next \in VisitSteps,
           next \in LoadedSteps => reg'[t] = tenants_in_apt
    PROVE  IInv'
<1>1. t \in Procs /\ t \notin Agents
  BY ProcsAssumption, Zenon DEF Procs
<1>2. /\ pc' \in [Procs -> Steps] /\ reg' \in [Procs -> Nat]
      /\ \A q \in Procs : pc'[q] = IF q = t THEN next ELSE pc[q]
      /\ \A q \in Procs : q # t => reg'[q] = reg[q]
  BY <1>1, Zenon DEF Goto, IInv, TypeOK
<1>3. LocksInv'
  BY <1>1, <1>2, LocalKeepsLocks, IInvParts, Zenon DEF IInv, TypeOK
<1>4. CountInv'
  BY <1>1, <1>2, KeepsCount, IInvParts DEF Procs
<1> QED
  BY <1>3, <1>4, IInvParts, PTL

\* Every step of a tenant keeps the invariant.
LEMMA TenantKeeps ==
    ASSUME IInv, NEW t \in Tenants, tenantProcess(t)
    PROVE  IInv'
<1> USE DEF At, Sems, Steps, MutexSteps, InsideSteps, VisitSteps, LoadedSteps
<1>0. /\ t \in Procs /\ t \notin Agents
      /\ current_agent_tenants \in Nat /\ tenants_in_apt \in Nat
      /\ reg \in [Procs -> Nat] /\ reg[t] \in Nat
  BY ProcsAssumption, Zenon DEF Procs, IInv, TypeOK
<1>1. reg[t] + 1 \in Nat
  BY <1>0
<1>2. ASSUME takeAgent(t) PROVE IInv'
  <2>1. CASE At(t, "arrives") /\ down(t, "mutex", "full?") /\ UNCHANGED counters
    BY <2>1, <1>0, DownKeeps, Zenon
  <2>2. CASE At(t, "full?") /\ up(t, "mutex", "wait agent") /\ UNCHANGED counters
    BY <2>2, <1>0, UpKeeps, Zenon DEF counters
  <2>3. CASE waitAgent(t)
    <3>1. CASE At(t, "wait agent") /\ down(t, "waiting_for_agent", "relock") /\ UNCHANGED counters
      BY <3>1, <1>0, DownKeeps, Zenon
    <3>2. CASE At(t, "relock") /\ down(t, "mutex", "woken") /\ UNCHANGED counters
      BY <3>2, <1>0, DownKeeps, Zenon
    <3> QED
      BY <2>3, <3>1, <3>2, Zenon DEF waitAgent
  <2>4. CASE At(t, "woken") /\ Load(t, current_agent_tenants, "taken late")
    BY <2>4, <1>0, LoadKeeps, Zenon DEF Load
  <2>5. CASE At(t, "full?") /\ Load(t, current_agent_tenants, "taken")
    BY <2>5, <1>0, LoadKeeps, Zenon DEF Load
  <2>6. CASE /\ At(t, "taken late") /\ up(t, "waiting_for_agent", "joins")
             /\ current_agent_tenants' = reg[t] + 1 /\ UNCHANGED <<tenants_in_apt, reg>>
    BY <2>6, <1>0, <1>1, UpKeeps, Zenon
  <2>7. CASE /\ At(t, "taken late") \/ At(t, "taken")
             /\ Goto(t, "joins") /\ UNCHANGED sems
             /\ current_agent_tenants' = reg[t] + 1 /\ UNCHANGED <<tenants_in_apt, reg>>
    <3>1. pc' \in [Procs -> Steps] /\ \A q \in Procs : pc'[q] = IF q = t THEN "joins" ELSE pc[q]
      BY <2>7, Zenon DEF Goto, IInv, TypeOK
    <3>2. current_agent_tenants' \in Nat /\ tenants_in_apt' \in Nat /\ reg' \in [Procs -> Nat]
      BY <2>7, <1>0, <1>1, Zenon
    <3>3. LocksInv'
      BY <2>7, <3>1, <3>2, <1>0, LocalKeepsLocks, IInvParts, Zenon
    <3>4. CountInv'
      BY <2>7, <3>1, KeepsCount, IInvParts, Zenon DEF Procs
    <3> QED
      BY <3>3, <3>4, IInvParts, PTL
  <2> QED
    BY <1>2, <2>1, <2>2, <2>3, <2>4, <2>5, <2>6, <2>7, Zenon DEF takeAgent
<1>3. ASSUME countIn(t) PROVE IInv'
  <2>1. CountInv' /\ tenants_in_apt' \in Nat /\ current_agent_tenants' \in Nat /\ reg' = reg
    <3>1. /\ pc' = [pc EXCEPT ![t] = "unlocks"] /\ reg' = reg
          /\ tenants_in_apt' = reg[t] + 1 /\ pc[t] = "counted"
          /\ current_agent_tenants' = current_agent_tenants
      BY <1>3, Zenon DEF countIn, up, Goto
    <3>2. /\ "counted" \in LoadedSteps /\ "unlocks" \notin LoadedSteps
          /\ "counted" \notin VisitSteps /\ "unlocks" \in VisitSteps
      BY Zenon
    <3> HIDE DEF LoadedSteps, VisitSteps
    <3>3. CountInv' /\ tenants_in_apt' \in Nat
      BY <3>1, <3>2, StoreKeepsCount, Zenon
    <3> QED
      BY <3>1, <3>3, <1>0, Zenon
  <2>2. CASE up(t, "tenant_arrived", "unlocks")
    <3>1. LocksInv'
      BY <1>3, <2>1, <2>2, <1>0, UpKeepsLocks, IInvParts, Zenon DEF countIn
    <3> QED
      BY <3>1, <2>1, IInvParts, PTL
  <2>3. CASE Goto(t, "unlocks") /\ UNCHANGED sems
    <3>1. pc' \in [Procs -> Steps] /\ \A q \in Procs : pc'[q] = IF q = t THEN "unlocks" ELSE pc[q]
      BY <2>3, Zenon DEF Goto, IInv, TypeOK
    <3>2. LocksInv'
      BY <1>3, <2>1, <2>3, <3>1, <1>0, LocalKeepsLocks, IInvParts, Zenon DEF countIn
    <3> QED
      BY <3>2, <2>1, IInvParts, PTL
  <2> QED
    BY <1>3, <2>2, <2>3, Zenon DEF countIn
<1>4. ASSUME meetAgent(t) PROVE IInv'
  <2>0. UNCHANGED counters /\ UNCHANGED <<tenants_in_apt, reg>> /\ current_agent_tenants' \in Nat
    BY <1>4, <1>0, Zenon DEF meetAgent, counters
  <2>1. CASE At(t, "await agent") /\ down(t, "agent_arrived", "met agent")
    BY <2>1, <2>0, <1>0, DownKeeps, Zenon
  <2>2. CASE At(t, "met agent") /\ down(t, "mutex", "pass on agent")
    BY <2>2, <2>0, <1>0, DownKeeps, Zenon
  <2>3. CASE At(t, "pass on agent") /\ up(t, "agent_arrived", "unlocks again")
    BY <2>3, <2>0, <1>0, UpKeeps, Zenon
  <2>4. CASE At(t, "unlocks again") /\ up(t, "mutex", "at door")
    BY <2>4, <2>0, <1>0, UpKeeps, Zenon
  <2> QED
    BY <1>4, <2>1, <2>2, <2>3, <2>4, Zenon DEF meetAgent
<1>5. ASSUME tenantArrives(t) PROVE IInv'
  <2>1. CASE At(t, "joins") /\ Load(t, tenants_in_apt, "counted")
    BY <2>1, <1>0, LoadKeeps, Zenon DEF Load
  <2>2. CASE At(t, "unlocks") /\ up(t, "mutex", "await agent") /\ UNCHANGED counters
    BY <2>2, <1>0, UpKeeps, Zenon DEF counters
  <2> QED
    BY <1>2, <1>3, <1>4, <1>5, <2>1, <2>2, Zenon DEF tenantArrives
<1>6. ASSUME viewApt(t) PROVE IInv'
  <2>1. CASE At(t, "at door") /\ down(t, "apt_lock", "inspects") /\ UNCHANGED counters
    BY <2>1, <1>0, DownKeeps, Zenon
  <2>2. CASE At(t, "inspects") /\ up(t, "apt_lock", "viewed") /\ UNCHANGED counters
    BY <2>2, <1>0, UpKeeps, Zenon DEF counters
  <2> QED
    BY <1>6, <2>1, <2>2, Zenon DEF viewApt
<1>7. ASSUME countOut(t) PROVE IInv'
  <2>1. /\ pc[t] = "counts out" /\ Awake(t) /\ reg' = reg
        /\ tenants_in_apt' = reg[t] - 1 /\ current_agent_tenants' \in Nat
        /\ \/ up(t, "tenants_leave", "last out")
           \/ Goto(t, "out") /\ UNCHANGED sems
    BY <1>7, <1>0, MaxAssumption, Zenon DEF countOut
  <2>2. /\ "counts out" \in LoadedSteps /\ {"out", "last out"} \cap LoadedSteps = {}
        /\ "counts out" \in VisitSteps /\ {"out", "last out"} \cap VisitSteps = {}
    OBVIOUS
  <2>3. CountInv' /\ tenants_in_apt' \in Nat
    <3>1. \E next \in {"out", "last out"} : pc' = [pc EXCEPT ![t] = next]
      BY <2>1, Zenon DEF up, Goto
    <3> HIDE DEF LoadedSteps, VisitSteps
    <3> QED
      BY <3>1, <2>1, <2>2, StoreKeepsCount, Zenon
  <2>4. CASE up(t, "tenants_leave", "last out")
    <3>1. LocksInv'
      BY <2>1, <2>3, <2>4, <1>0, UpKeepsLocks, IInvParts, Zenon
    <3> QED
      BY <3>1, <2>3, IInvParts, PTL
  <2>5. CASE Goto(t, "out") /\ UNCHANGED sems
    <3>1. pc' \in [Procs -> Steps] /\ \A q \in Procs : pc'[q] = IF q = t THEN "out" ELSE pc[q]
      BY <2>5, Zenon DEF Goto, IInv, TypeOK
    <3>2. LocksInv'
      BY <2>1, <2>3, <2>5, <3>1, <1>0, LocalKeepsLocks, IInvParts, Zenon
    <3> QED
      BY <3>2, <2>3, IInvParts, PTL
  <2> QED
    BY <2>1, <2>4, <2>5, Zenon
<1>8. ASSUME tenantLeaves(t) PROVE IInv'
  <2>1. CASE lockToLeave(t)
    BY <2>1, <1>0, DownKeeps, Zenon DEF lockToLeave
  <2>2. CASE At(t, "leaves") /\ Load(t, tenants_in_apt, "counts out")
    BY <2>2, <1>0, LoadKeeps, Zenon DEF Load
  <2>3. CASE At(t, "out") /\ up(t, "mutex", "done") /\ UNCHANGED counters
    BY <2>3, <1>0, UpKeeps, Zenon DEF counters
  <2>4. CASE At(t, "last out") /\ up(t, "mutex", "resets agent") /\ UNCHANGED counters
    BY <2>4, <1>0, UpKeeps, Zenon DEF counters
  <2>5. CASE At(t, "resets agent") /\ down(t, "agent_arrived", "resets door") /\ UNCHANGED counters
    BY <2>5, <1>0, DownKeeps, Zenon
  <2>6. CASE At(t, "resets door") /\ down(t, "apt_lock", "done") /\ UNCHANGED counters
    BY <2>6, <1>0, DownKeeps, Zenon
  <2> QED
    BY <1>7, <1>8, <2>1, <2>2, <2>3, <2>4, <2>5, <2>6, Zenon DEF tenantLeaves
<1> QED
  BY <1>5, <1>6, <1>8 DEF tenantProcess

-----------------------------------------------------------------------------
\* In the initial state every semaphore is free and nobody has been born.
LEMMA InitIInv == Init => IInv
<1> SUFFICES ASSUME Init PROVE IInv
  BY Zenon
<1> USE DEF Init, initSharedVariables
<1>1. TypeOK
  BY DEF TypeOK, Sems, Steps
<1>2. \A s \in Sems : Len(queue[s]) = 0 /\ Sleepers(s) = {}
  BY DEF Sleepers
<1>3. QueueInv
  BY <1>2 DEF QueueInv, Sems
<1>4. \A p \in Procs : pc[p] \in {"loads", "unborn"}
  BY Zenon
<1>5. MutexInv
  BY <1>4 DEF MutexInv, MutexExclusion, HoldsMutex, MutexSteps, Sems
<1>6. AptLockInv
  BY <1>4 DEF AptLockInv, OneAgentInside, AgentInside, InsideSteps, Procs, Sems
<1>7. RegInv
  BY <1>2, <1>4, Zenon DEF RegInv, Procs, Sems
<1>8. {t \in Tenants : pc[t] \in VisitSteps} = {}
  BY <1>4, Zenon DEF VisitSteps, Procs
<1>9. TenantsCounted
  BY <1>8, FS_EmptySet, Zenon DEF TenantsCounted
<1> QED
  BY <1>1, <1>3, <1>5, <1>6, <1>7, <1>9, Zenon DEF IInv

\* No step, and no stuttering step, breaks the invariant.
LEMMA NextIInv == IInv /\ [Next]_vars => IInv'
<1>1. ASSUME IInv, Next PROVE IInv'
  BY <1>1, AgentKeeps, TenantKeeps, ForkKeeps DEF Next
<1>2. ASSUME IInv, UNCHANGED vars PROVE IInv'
  BY <1>2, Zenon DEF vars, IInv, TypeOK, QueueInv, MutexInv, MutexExclusion, HoldsMutex,
              AptLockInv, OneAgentInside, AgentInside, RegInv, TenantsCounted, Sleepers
<1> QED
  BY <1>1, <1>2, Zenon

\* The inductive invariant holds in every reachable state.
THEOREM Invariance == Spec => []IInv
  BY InitIInv, NextIInv, PTL DEF Spec

\* The variables have their types, and the counters in shared memory are never
\* negative, however the agents and tenants of aptsim.c interleave.
THEOREM TypeCorrect == Spec => []TypeOK
<1>1. IInv => TypeOK
  BY DEF IInv
<1> QED
  BY <1>1, Invariance, PTL

\* The mutex of aptsim.c is held by one process at a time.
THEOREM MutexIsExclusive == Spec => []MutexExclusion
<1>1. IInv => MutexExclusion
  BY DEF IInv, MutexInv
<1> QED
  BY <1>1, Invariance, PTL

\* At most one agent is between its down and its up of agent_apt_lock.
THEOREM AgentsAreExclusive == Spec => []OneAgentInside
<1>1. IInv => OneAgentInside
  BY DEF IInv, AptLockInv
<1> QED
  BY <1>1, Invariance, PTL

\* tenants_in_apt is the number of tenants that have been counted in and not out,
\* although it is loaded and stored in separate steps.
THEOREM CounterIsExact == Spec => []TenantsCounted
<1>1. IInv => TenantsCounted
  BY DEF IInv
<1> QED
  BY <1>1, Invariance, PTL
=============================================================================
