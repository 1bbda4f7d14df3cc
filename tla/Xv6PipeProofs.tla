--------------------------- MODULE Xv6PipeProofs ----------------------------
(***************************************************************************)
(* Proofs about the ring buffer of Xv6Pipe, for any bytes, any pipe size   *)
(* that divides the range of the counters, and any number of processes:    *)
(* the unsigned counters delimit the bytes of a queue, who sleeps on the   *)
(* pipe has a reason to, and the pipe implements PipeFifo.  The inductive  *)
(* invariant is RInv, which contains FInv of Xv6FileProofs.                *)
(***************************************************************************)
EXTENDS Xv6FileProofs, SequenceTheorems

-----------------------------------------------------------------------------
\* Unsigned arithmetic

\* Division with remainder, and that the remainder is the only one.
LEMMA DivMod ==
    ASSUME NEW a \in Int, NEW m \in Nat \ {0}
    PROVE  \E q \in Int, r \in 0..(m - 1) : a = m * q + r /\ a % m = r
  <1>1. a \div m \in Int /\ a % m \in 0..(m - 1)
    OBVIOUS
  <1>2. a = m * (a \div m) + (a % m)
    OBVIOUS
  <1> QED
    BY <1>1, <1>2, Zenon

\* The remainder is the only one.
LEMMA ModUnique ==
    ASSUME NEW a \in Int, NEW m \in Nat \ {0}, NEW q \in Int, NEW r \in 0..(m - 1),
           a = m * q + r
    PROVE  a % m = r
  OBVIOUS

\* One period up or down.
LEMMA ModCases ==
    ASSUME NEW a \in Int, NEW m \in Nat \ {0}
    PROVE  /\ a % m \in 0..(m - 1)
           /\ a \in 0..(m - 1) => a % m = a
           /\ m <= a /\ a < 2 * m => a % m = a - m
           /\ -m <= a /\ a < 0 => a % m = a + m
  OBVIOUS

\* A positive multiple of m is at least m.
LEMMA MulBig ==
    ASSUME NEW m \in Nat \ {0}, NEW q \in Int, q >= 1
    PROVE  m * q >= m
  OBVIOUS

\* Numbers less than m apart with the same remainder are equal.
LEMMA ModDistinct ==
    ASSUME NEW m \in Nat \ {0}, NEW a \in Int, NEW b \in Int, a % m = b % m,
           a <= b, b - a < m
    PROVE  a = b
  <1>1. PICK q \in Int, r \in 0..(m - 1) : a = m * q + r /\ a % m = r
    BY DivMod, Zenon
  <1>2. PICK q2 \in Int, r2 \in 0..(m - 1) : b = m * q2 + r2 /\ b % m = r2
    BY DivMod, Zenon
  <1>3. r2 = r
    BY <1>1, <1>2, Zenon
  <1>4. b - a = m * (q2 - q)
    BY <1>1, <1>2, <1>3
  <1>5. q2 - q \in Int /\ m * (q2 - q) < m
    BY <1>4
  <1>6. ~(q2 - q >= 1)
    BY <1>5, MulBig
  <1>7. CASE q2 - q <= -1
    <2>1. q - q2 \in Int /\ q - q2 >= 1
      BY <1>7
    <2>2. m * (q - q2) >= m
      BY <2>1, MulBig, Zenon
    <2>3. m * (q2 - q) = -(m * (q - q2))
      OBVIOUS
    <2>4. m * (q - q2) \in Int
      BY <2>1
    <2> QED
      BY <1>4, <2>2, <2>3, <2>4
  <1>8. CASE q2 = q
    BY <1>1, <1>2, <1>3, <1>8
  <1> QED
    BY <1>6, <1>7, <1>8

\* The size of the pipe divides the range of the counters.
LEMMA ShiftMod ==
    ASSUME NEW a \in Int
    PROVE  (a - UINT) % PIPESIZE = a % PIPESIZE
  <1>1. PIPESIZE \in Nat \ {0} /\ UINT \in Nat /\ UINT % PIPESIZE = 0
    BY PipeAssumption, Zenon
  <1>2. PICK u \in Int, z \in 0..(PIPESIZE - 1) : UINT = PIPESIZE * u + z /\ UINT % PIPESIZE = z
    <2>1. UINT \in Int /\ PIPESIZE \in Nat \ {0}
      BY PipeAssumption
    <2> QED
      BY <2>1, DivMod, Zenon
  <1>3. UINT = PIPESIZE * u
    BY <1>1, <1>2
  <1>4. PICK q \in Int, r \in 0..(PIPESIZE - 1) : a = PIPESIZE * q + r /\ a % PIPESIZE = r
    BY <1>1, DivMod, Zenon
  <1>5. a - UINT = PIPESIZE * (q - u) + r /\ q - u \in Int /\ a - UINT \in Int
    BY <1>1, <1>3, <1>4
  <1>6. (a - UINT) % PIPESIZE = r
    BY <1>1, <1>5, ModUnique
  <1> QED
    BY <1>4, <1>6, Zenon

\* Types, of the ring buffer and what is written and read.
RTypes ==
    /\ data \in [0..(PIPESIZE - 1) -> Bytes]
    /\ nread \in 0..(UINT - 1) /\ nwrite \in 0..(UINT - 1) /\ Used <= PIPESIZE
    /\ left \in [Procs -> Seq(Bytes)] /\ got \in Seq(Bytes)

\* Where byte t of the pipe is, counted from the next to be read.
Pos(t) == ((nread + t) % UINT) % PIPESIZE

\* What the counters say, without the unsigned arithmetic.
LEMMA UsedIs ==
    ASSUME RTypes
    PROVE  /\ PIPESIZE \in Nat \ {0} /\ UINT \in Nat /\ UINT > PIPESIZE
           /\ nread \in Int /\ nwrite \in Int
           /\ Used \in 0..PIPESIZE
           /\ nwrite = nread + Used \/ nwrite = nread + Used - UINT
           /\ nread = nwrite <=> Used = 0
  <1>1. PIPESIZE \in Nat \ {0} /\ UINT \in Nat \ {0} /\ UINT > PIPESIZE
    BY PipeAssumption
  <1>2. nread \in 0..(UINT - 1) /\ nwrite \in 0..(UINT - 1) /\ Used <= PIPESIZE
    BY Zenon DEF RTypes
  <1>3. nwrite - nread \in Int /\ -UINT <= nwrite - nread /\ nwrite - nread < UINT
    BY <1>1, <1>2
  <1>4. /\ nwrite - nread \in 0..(UINT - 1) => Used = nwrite - nread
        /\ nwrite - nread < 0 => Used = nwrite - nread + UINT
    BY <1>1, <1>3, ModCases, Zenon DEF Used
  <1> QED
    BY <1>1, <1>2, <1>3, <1>4

\* The same of a state and of the next one.
LEMMA UsedNext == RTypes => (nread = nwrite <=> Used = 0)
  BY UsedIs

\* A counter's place in the buffer does not depend on the wrap of the counter,
\* because PIPESIZE divides the range.
LEMMA PosIs ==
    ASSUME RTypes, NEW t \in 0..PIPESIZE
    PROVE  Pos(t) = (nread + t) % PIPESIZE /\ Pos(t) \in 0..(PIPESIZE - 1)
  <1>1. /\ PIPESIZE \in Nat \ {0} /\ UINT \in Nat \ {0} /\ UINT > PIPESIZE
        /\ nread \in 0..(UINT - 1)
    BY UsedIs DEF RTypes
  <1>2. PICK x \in Int : x = nread + t /\ x >= 0 /\ x < 2 * UINT
    BY <1>1
  <1>3. x % UINT = x \/ x % UINT = x - UINT
    <2>1. x \in 0..(UINT - 1) => x % UINT = x
      BY <1>1, ModCases, Zenon
    <2>2. UINT <= x /\ x < 2 * UINT => x % UINT = x - UINT
      BY <1>1, ModCases, Zenon
    <2> QED
      BY <1>1, <1>2, <2>1, <2>2
  <1>4. Pos(t) = (nread + t) % PIPESIZE
    BY <1>2, <1>3, ShiftMod DEF Pos
  <1> QED
    BY <1>1, <1>2, <1>4, ModCases

\* Different bytes are at different places.
LEMMA PosDistinct ==
    ASSUME RTypes, NEW t \in 0..(PIPESIZE - 1), NEW u \in 0..(PIPESIZE - 1), Pos(t) = Pos(u)
    PROVE  t = u
  <1>1. PIPESIZE \in Nat \ {0} /\ nread \in Int
    BY UsedIs, Zenon
  <1>2. t \in 0..PIPESIZE /\ u \in 0..PIPESIZE
    BY <1>1
  <1>3. (nread + t) % PIPESIZE = (nread + u) % PIPESIZE
    BY <1>2, PosIs, Zenon
  <1>4. CASE t <= u
    <2>1. nread + t \in Int /\ nread + u \in Int /\ nread + t <= nread + u
          /\ (nread + u) - (nread + t) < PIPESIZE
      BY <1>1, <1>4
    <2>2. nread + t = nread + u
      BY <1>1, <1>3, <2>1, ModDistinct, Zenon
    <2> QED
      BY <1>1, <2>2
  <1>5. CASE u <= t
    <2>1. nread + t \in Int /\ nread + u \in Int /\ nread + u <= nread + t
          /\ (nread + t) - (nread + u) < PIPESIZE
      BY <1>1, <1>5
    <2>2. nread + u = nread + t
      BY <1>1, <1>3, <2>1, ModDistinct, Zenon
    <2> QED
      BY <1>1, <2>2
  <1> QED
    BY <1>1, <1>4, <1>5

\* Byte t of a write goes after the bytes in the pipe.
LEMMA WritePos ==
    ASSUME RTypes, NEW t \in Nat, Used + t <= PIPESIZE
    PROVE  /\ (nwrite + t) % UINT = (nread + (Used + t)) % UINT
           /\ ((nwrite + t) % UINT) % PIPESIZE = Pos(Used + t)
  <1>1. /\ PIPESIZE \in Nat \ {0} /\ UINT \in Nat \ {0} /\ UINT > PIPESIZE
        /\ nread \in 0..(UINT - 1) /\ nwrite \in 0..(UINT - 1) /\ Used \in 0..PIPESIZE
        /\ nwrite = nread + Used \/ nwrite = nread + Used - UINT
    BY UsedIs DEF RTypes
  <1> DEFINE x == nread + (Used + t)
  <1>2. x \in Int /\ x >= 0 /\ x < 2 * UINT
    BY <1>1
  <1>3. nwrite + t = x \/ nwrite + t = x - UINT
    BY <1>1
  <1>4. nwrite + t \in Int /\ nwrite + t >= 0
    BY <1>1
  <1> HIDE DEF x
  <1>5. nwrite + t = x - UINT => (nwrite + t) % UINT = x - UINT /\ x % UINT = x - UINT
    <2> SUFFICES ASSUME nwrite + t = x - UINT
                 PROVE  (x - UINT) % UINT = x - UINT /\ x % UINT = x - UINT
      BY Zenon
    <2>1. x - UINT \in 0..(UINT - 1) /\ UINT <= x /\ x < 2 * UINT /\ x - UINT \in Int
      BY <1>1, <1>2, <1>4
    <2>2. (x - UINT) % UINT = x - UINT
      BY <1>1, <2>1, ModCases
    <2>3. x % UINT = x - UINT
      BY <1>1, <1>2, <2>1, ModCases, Zenon
    <2> QED
      BY <2>2, <2>3, Zenon
  <1>6. (nwrite + t) % UINT = x % UINT
    BY <1>3, <1>5
  <1> QED
    BY <1>6, Zenon DEF x, Pos

\* pipewrite's test for a full pipe is right.
LEMMA FullIs ==
    ASSUME RTypes, NEW t \in Nat, Used + t <= PIPESIZE
    PROVE  Full(nwrite + t) <=> Used + t = PIPESIZE
  <1>1. /\ PIPESIZE \in Nat \ {0} /\ UINT \in Nat \ {0} /\ UINT > PIPESIZE
        /\ nread \in 0..(UINT - 1) /\ Used \in 0..PIPESIZE
    BY UsedIs DEF RTypes
  <1>2. (nwrite + t) % UINT = (nread + (Used + t)) % UINT
    BY WritePos, Zenon
  <1>3. Full(nwrite + t) <=> (nread + (Used + t)) % UINT = (nread + PIPESIZE) % UINT
    BY <1>2, Zenon DEF Full
  <1>4. ASSUME (nread + (Used + t)) % UINT = (nread + PIPESIZE) % UINT PROVE Used + t = PIPESIZE
    <2>1. /\ nread + (Used + t) \in Int /\ nread + PIPESIZE \in Int
          /\ nread + (Used + t) <= nread + PIPESIZE
          /\ (nread + PIPESIZE) - (nread + (Used + t)) < UINT
      BY <1>1
    <2>2. nread + (Used + t) = nread + PIPESIZE
      BY <1>1, <1>4, <2>1, ModDistinct
    <2> QED
      BY <1>1, <2>2
  <1> QED
    BY <1>3, <1>4, Zenon

\* pipewrite's test of the counters finds a full buffer full.
LEMMA FullNext == RTypes => (Used = PIPESIZE => Full(nwrite))
  <1> SUFFICES ASSUME RTypes, Used = PIPESIZE PROVE Full(nwrite)
    BY Zenon
  <1>1. PIPESIZE \in Nat /\ nwrite \in Int
    BY UsedIs, Zenon
  <1>2. 0 \in Nat /\ Used + 0 = PIPESIZE /\ Used + 0 <= PIPESIZE /\ nwrite + 0 = nwrite
    BY <1>1
  <1> QED
    BY <1>2, FullIs, Zenon

\* pipewrite stores what fits.
LEMMA StoredIs ==
    ASSUME RTypes, NEW s \in Seq(Bytes)
    PROVE  /\ Stored(s) \in 0..Len(s)
           /\ Stored(s) = IF Used + Len(s) <= PIPESIZE THEN Len(s) ELSE PIPESIZE - Used
  <1>1. PIPESIZE \in Nat /\ Used \in 0..PIPESIZE /\ Len(s) \in Nat
    BY UsedIs
  <1> DEFINE K == IF Used + Len(s) <= PIPESIZE THEN Len(s) ELSE PIPESIZE - Used
             Good(k) == /\ \A i \in 0..(k - 1) : ~Full(nwrite + i)
                        /\ k = Len(s) \/ Full(nwrite + k)
  <1>2. K \in 0..Len(s) /\ Used + K <= PIPESIZE /\ (K # Len(s) => Used + K = PIPESIZE)
    BY <1>1
  <1> HIDE DEF K
  <1>3. \A i \in 0..(K - 1) : ~Full(nwrite + i)
    <2> SUFFICES ASSUME NEW i \in 0..(K - 1) PROVE ~Full(nwrite + i)
      BY Zenon
    <2>1. i \in Nat /\ Used + i <= PIPESIZE /\ Used + i # PIPESIZE
      BY <1>1, <1>2
    <2> QED
      BY <2>1, FullIs, Zenon
  <1>4. K # Len(s) => Full(nwrite + K)
    <2>1. K \in Nat
      BY <1>1, <1>2
    <2> QED
      BY <1>2, <2>1, FullIs, Zenon
  <1>5. Good(K)
    BY <1>3, <1>4, Zenon
  <1>6. ASSUME NEW k \in 0..Len(s), Good(k) PROVE k = K
    <2>1. k \in Nat /\ K \in Nat
      BY <1>1, <1>2
    <2>2. CASE k < K
      <3>1. k \in 0..(K - 1) /\ k # Len(s)
        BY <1>1, <1>2, <2>1, <2>2
      <3> QED
        BY <1>3, <1>6, <3>1, Zenon
    <2>3. CASE k > K
      <3>1. K \in 0..(k - 1) /\ K # Len(s)
        BY <1>1, <1>2, <2>1, <2>3
      <3> QED
        BY <1>4, <1>6, <3>1, Zenon
    <2> QED
      BY <2>1, <2>2, <2>3
  <1>7. Stored(s) = CHOOSE k \in 0..Len(s) : Good(k)
    BY Zenon DEF Stored
  <1> HIDE DEF Good
  <1>8. Stored(s) = K
    BY <1>2, <1>5, <1>6, <1>7
  <1> QED
    BY <1>2, <1>8, Zenon DEF K

\* The distance of two counters, when it fits.
LEMMA ModShift ==
    ASSUME NEW m \in Nat \ {0}, NEW x \in 0..(m - 1), NEW y \in Int,
           y = x \/ y = x - m \/ y = x + m
    PROVE  y % m = x
  <1>1. y \in 0..(m - 1) => y % m = y
    BY ModCases, Zenon
  <1>2. m <= y /\ y < 2 * m => y % m = y - m
    BY ModCases, Zenon
  <1>3. -m <= y /\ y < 0 => y % m = y + m
    BY ModCases, Zenon
  <1> QED
    BY <1>1, <1>2, <1>3

-----------------------------------------------------------------------------
\* The ring buffer

\* What the step of pipewrite does to the ring: k bytes of s go after the bytes
\* that are there, which stay; k is all of s, or fills the pipe.
Wrote(s, k) ==
    /\ k \in 0..Len(s) /\ Used + k <= PIPESIZE /\ nread' = nread
    /\ k # Len(s) => Used + k = PIPESIZE
    /\ data' \in [0..(PIPESIZE - 1) -> Bytes] /\ nwrite' \in 0..(UINT - 1)
    /\ Used' = Used + k
    /\ \A t \in 0..(Used - 1) : data'[Pos(t)] = data[Pos(t)]
    /\ \A t \in 0..(k - 1) : data'[Pos(Used + t)] = s[t + 1]

\* ... which is what pipewrite does.
LEMMA WriteRing ==
    ASSUME RTypes, NEW p \in Procs, pipewrite(p)
    PROVE  Wrote(left[p], Stored(left[p]))
  <1>1. PICK s \in Seq(Bytes) : s = left[p]
    BY Zenon DEF RTypes
  <1>2. PICK k \in 0..Len(s) : k = Stored(s)
    BY StoredIs, Zenon
  <1>3. Len(s) \in Nat /\ \A j \in 1..Len(s) : s[j] \in Bytes
    BY LenProperties, ElementOfSeq, Zenon
  <1>4. /\ PIPESIZE \in Nat \ {0} /\ UINT \in Nat \ {0} /\ UINT > PIPESIZE
        /\ nread \in 0..(UINT - 1) /\ nwrite \in 0..(UINT - 1) /\ Used \in 0..PIPESIZE
        /\ data \in [0..(PIPESIZE - 1) -> Bytes]
    BY UsedIs DEF RTypes
  <1>5. k \in Nat /\ Used + k <= PIPESIZE /\ (k # Len(s) => Used + k = PIPESIZE)
    BY <1>2, <1>3, <1>4, StoredIs
  <1>6. nread' = nread /\ nwrite' = (nwrite + k) % UINT
    BY <1>1, <1>2, Zenon DEF pipewrite
  <1>7. nwrite' \in 0..(UINT - 1)
    <2>1. nwrite + k \in Int
      BY <1>4, <1>5
    <2> QED
      BY <1>4, <1>6, <2>1, ModCases, Zenon
  <1>8. Used' = Used + k
    <2>1. nwrite' = (nread + (Used + k)) % UINT
      BY <1>5, <1>6, WritePos, Zenon
    <2>2. PICK x \in Int : x = nread + (Used + k)
      BY <1>4, <1>5
    <2>3. nwrite' = x \/ nwrite' = x - UINT
      <3>1. x \in 0..(UINT - 1) => x % UINT = x
        BY <1>4, ModCases, Zenon
      <3>2. UINT <= x /\ x < 2 * UINT => x % UINT = x - UINT
        BY <1>4, ModCases, Zenon
      <3> QED
        BY <1>4, <1>5, <2>1, <2>2, <3>1, <3>2
    <2>8. PICK nw \in 0..(UINT - 1) : nw = nwrite'
      BY <1>7, Zenon
    <2>4. PICK y \in Int : y = nw - nread
      BY <1>4
    <2>5. y = Used + k \/ y = (Used + k) - UINT
      <3>1. nread \in Int /\ Used \in Int /\ k \in Int /\ UINT \in Int
        BY <1>4, <1>5
      <3>2. nw = x \/ nw = x - UINT
        BY <2>3, <2>8, Zenon
      <3> QED
        BY <2>2, <2>4, <3>1, <3>2
    <2>6. Used + k \in 0..(UINT - 1)
      BY <1>4, <1>5
    <2>7. y % UINT = Used + k
      BY <1>4, <2>5, <2>6, ModShift, Zenon
    <2> QED
      BY <1>6, <2>8, <2>4, <2>7, Zenon DEF Used
  <1> DEFINE new(i) == {j \in 1..k : ((nwrite + j - 1) % UINT) % PIPESIZE = i}
  <1>9. \A i \in 0..(PIPESIZE - 1) : data'[i] = IF new(i) = {} THEN data[i] ELSE s[Max(new(i))]
    BY <1>1, <1>2, <1>4, Zenon DEF pipewrite
  <1>10. \A j \in 1..k : /\ ((nwrite + j - 1) % UINT) % PIPESIZE = Pos(Used + (j - 1))
                         /\ Used + (j - 1) \in 0..(PIPESIZE - 1)
    <2> SUFFICES ASSUME NEW j \in 1..k
                 PROVE  /\ ((nwrite + j - 1) % UINT) % PIPESIZE = Pos(Used + (j - 1))
                        /\ Used + (j - 1) \in 0..(PIPESIZE - 1)
      BY Zenon
    <2>1. /\ nwrite + j - 1 = nwrite + (j - 1) /\ j - 1 \in Nat /\ Used + (j - 1) <= PIPESIZE
          /\ Used + (j - 1) \in 0..(PIPESIZE - 1)
      BY <1>4, <1>5
    <2>2. ((nwrite + (j - 1)) % UINT) % PIPESIZE = Pos(Used + (j - 1))
      BY <2>1, WritePos, Zenon
    <2> QED
      BY <2>1, <2>2, Zenon
  <1>11. \A j \in 1..k : new(Pos(Used + (j - 1))) = {j}
    <2> SUFFICES ASSUME NEW j \in 1..k, NEW i \in 1..k,
                        Pos(Used + (i - 1)) = Pos(Used + (j - 1))
                 PROVE  i = j
      BY <1>10, Zenon
    <2>1. Used + (i - 1) = Used + (j - 1)
      BY <1>10, PosDistinct, Zenon
    <2> QED
      BY <1>4, <1>5, <2>1
  <1>12. \A t \in 0..(k - 1) : data'[Pos(Used + t)] = s[t + 1]
    <2> SUFFICES ASSUME NEW t \in 0..(k - 1) PROVE data'[Pos(Used + t)] = s[t + 1]
      BY Zenon
    <2>1. t + 1 \in 1..k /\ (t + 1) - 1 = t /\ Used + t \in 0..PIPESIZE
      BY <1>4, <1>5
    <2>2. new(Pos(Used + t)) = {t + 1}
      BY <1>11, <2>1, Zenon
    <2>3. Pos(Used + t) \in 0..(PIPESIZE - 1)
      BY <2>1, PosIs, Zenon
    <2>4. Max({t + 1}) = t + 1
      BY <2>1 DEF Max
    <2> HIDE DEF new
    <2> QED
      BY <1>9, <2>2, <2>3, <2>4, Zenon
  <1>13. \A t \in 0..(Used - 1) : data'[Pos(t)] = data[Pos(t)]
    <2> SUFFICES ASSUME NEW t \in 0..(Used - 1) PROVE data'[Pos(t)] = data[Pos(t)]
      BY Zenon
    <2>1. t \in 0..(PIPESIZE - 1) /\ t \in 0..PIPESIZE
      BY <1>4
    <2>2. ASSUME NEW j \in 1..k PROVE Pos(Used + (j - 1)) # Pos(t)
      <3>1. Used + (j - 1) # t /\ Used + (j - 1) \in 0..(PIPESIZE - 1)
        BY <1>4, <1>5, <1>10
      <3> QED
        BY <2>1, <3>1, PosDistinct, Zenon
    <2>3. new(Pos(t)) = {}
      BY <1>10, <2>2, Zenon
    <2>4. Pos(t) \in 0..(PIPESIZE - 1)
      BY <2>1, PosIs, Zenon
    <2> HIDE DEF new
    <2> QED
      BY <1>9, <2>3, <2>4, Zenon
  <1>14. data' \in [0..(PIPESIZE - 1) -> Bytes]
    <2>1. ASSUME NEW i \in 0..(PIPESIZE - 1) PROVE data'[i] \in Bytes
      <3>1. CASE new(i) = {}
        BY <1>4, <1>9, <3>1
      <3>2. CASE new(i) # {}
        <4>1. PICK j \in 1..k : j \in new(i)
          BY <3>2, Zenon
        <4>2. i = Pos(Used + (j - 1))
          BY <1>10, <4>1, Zenon
        <4>3. new(i) = {j}
          BY <1>11, <4>2, Zenon
        <4>4. Max({j}) = j
          BY DEF Max
        <4>5. s[j] \in Bytes
          BY <1>3, <1>5
        <4> HIDE DEF new
        <4> QED
          BY <1>9, <4>3, <4>4, <4>5, Zenon
      <3> QED
        BY <3>1, <3>2, Zenon
    <2>2. data' = [i \in DOMAIN data |-> data'[i]]
      BY DEF pipewrite
    <2> QED
      BY <1>4, <2>1, <2>2, Zenon
  <1> HIDE DEF new
  <1> QED
    BY <1>1, <1>2, <1>5, <1>6, <1>7, <1>8, <1>12, <1>13, <1>14, Zenon DEF Wrote

\* What the step of piperead that takes k bytes does to the ring.
Took(k) ==
    /\ k \in 0..Used /\ nwrite' = nwrite /\ data' = data /\ nread' \in 0..(UINT - 1)
    /\ Used' = Used - k
    /\ \A t \in 0..(Used - k - 1) : Pos(t)' = Pos(k + t)
    /\ got' = [j \in 1..k |-> data[Pos(j - 1)]]

\* ... which is what piperead does when it does not sleep.
LEMMA ReadRing ==
    ASSUME RTypes, NEW p \in Procs, piperead(p), ~(nread = nwrite /\ writeopen),
           want[p] \in Nat
    PROVE  \E k \in 0..PIPESIZE : /\ Took(k) /\ pc' = [q \in Procs |-> IF q = p THEN "user" ELSE
                                              IF pc[q] = "sleepw" THEN "write" ELSE pc[q]]
                                  /\ k = 0 => Used = 0 \/ want[p] = 0
                                  /\ want' = [want EXCEPT ![p] = 0]
  <1>1. /\ PIPESIZE \in Nat \ {0} /\ UINT \in Nat \ {0} /\ UINT > PIPESIZE
        /\ nread \in 0..(UINT - 1) /\ nwrite \in 0..(UINT - 1) /\ Used \in 0..PIPESIZE
        /\ nwrite = nread + Used \/ nwrite = nread + Used - UINT
    BY UsedIs DEF RTypes
  <1>2. PICK k : /\ k = Min({want[p], Used})
                 /\ got' = [j \in 1..k |-> data[((nread + j - 1) % UINT) % PIPESIZE]]
                 /\ nread' = (nread + k) % UINT
                 /\ want' = [want EXCEPT ![p] = 0]
                 /\ GoWaking(p, "user", "sleepw", "write")
    BY Zenon DEF piperead
  <1>3. k \in Nat /\ k <= Used /\ (k = 0 => Used = 0 \/ want[p] = 0)
    <2>1. \E x \in {want[p], Used} : \A y \in {want[p], Used} : x <= y
      BY <1>1
    <2>2. k \in {want[p], Used} /\ \A y \in {want[p], Used} : k <= y
      BY <1>2, <2>1, Zenon DEF Min
    <2> QED
      BY <1>1, <2>2
  <1>4. nwrite' = nwrite /\ data' = data
    BY Zenon DEF piperead
  <1>5. PICK x \in Int : x = nread + k /\ 0 <= x /\ x < 2 * UINT
    BY <1>1, <1>3
  <1>6. PICK nr \in 0..(UINT - 1) : nr = nread' /\ (nr = x \/ nr = x - UINT)
    <2>1. x % UINT \in 0..(UINT - 1)
      BY <1>1, ModCases, Zenon
    <2>2. x \in 0..(UINT - 1) => x % UINT = x
      BY <1>1, ModCases, Zenon
    <2>3. UINT <= x /\ x < 2 * UINT => x % UINT = x - UINT
      BY <1>1, ModCases, Zenon
    <2> QED
      BY <1>1, <1>2, <1>5, <2>1, <2>2, <2>3
  <1>7. Used' = Used - k
    <2>1. PICK y \in Int : y = nwrite - nr
      BY <1>1
    <2>2. y = Used - k \/ y = (Used - k) - UINT \/ y = (Used - k) + UINT
      <3>1. nread \in Int /\ Used \in Int /\ k \in Int /\ UINT \in Int
        BY <1>1, <1>3
      <3>2. nwrite = nread + Used \/ nwrite = nread + Used - UINT
        BY <1>1, Zenon
      <3>3. nr = x \/ nr = x - UINT
        BY <1>6, Zenon
      <3> QED
        BY <1>5, <2>1, <3>1, <3>2, <3>3
    <2>3. Used - k \in 0..(UINT - 1)
      BY <1>1, <1>3
    <2>4. y % UINT = Used - k
      BY <1>1, <2>2, <2>3, ModShift, Zenon
    <2> QED
      BY <1>4, <1>6, <2>1, <2>4, Zenon DEF Used
  <1>8. \A t \in 0..(Used - k - 1) : Pos(t)' = Pos(k + t)
    <2> SUFFICES ASSUME NEW t \in 0..(Used - k - 1) PROVE Pos(t)' = Pos(k + t)
      BY Zenon
    <2>1. PICK z \in Int : z = nread + (k + t) /\ 0 <= z /\ z < 2 * UINT
      BY <1>1, <1>3
    <2>2. nr + t = z \/ nr + t = z - UINT
      <3>1. nread \in Int /\ t \in Int /\ k \in Int /\ UINT \in Int
        BY <1>1, <1>3
      <3>2. nr = x \/ nr = x - UINT
        BY <1>6, Zenon
      <3> QED
        BY <1>5, <2>1, <3>1, <3>2
    <2>3. nr + t \in Int /\ nr + t >= 0
      BY <1>1, <1>3
    <2>4. nr + t = z - UINT => (nr + t) % UINT = z % UINT
      <3> SUFFICES ASSUME nr + t = z - UINT PROVE (z - UINT) % UINT = z % UINT
        BY <1>1, Zenon
      <3>1. z - UINT \in 0..(UINT - 1) /\ z - UINT \in Int /\ z = (z - UINT) + UINT
        BY <1>1, <2>1, <2>3
      <3>2. (z - UINT) % UINT = z - UINT
        BY <1>1, <3>1, ModShift, Zenon
      <3>3. z % UINT = z - UINT
        BY <1>1, <3>1, ModShift, Zenon
      <3> QED
        BY <3>2, <3>3, Zenon
    <2>5. (nr + t) % UINT = z % UINT
      BY <2>2, <2>4, Zenon
    <2> QED
      BY <1>6, <2>1, <2>5, Zenon DEF Pos
  <1>9. got' = [j \in 1..k |-> data[Pos(j - 1)]]
    <2>1. \A j \in 1..k : data[((nread + j - 1) % UINT) % PIPESIZE] = data[Pos(j - 1)]
      <3> SUFFICES ASSUME NEW j \in 1..k PROVE (nread + j - 1) = nread + (j - 1)
        BY DEF Pos
      <3> QED
        BY <1>1, <1>3, Zenon
    <2> QED
      BY <1>2, <2>1, Zenon
  <1>10. k \in 0..Used /\ k \in 0..PIPESIZE
    BY <1>1, <1>3
  <1>11. Took(k)
    BY <1>4, <1>6, <1>7, <1>8, <1>9, <1>10 DEF Took
  <1> QED
    BY <1>2, <1>3, <1>10, <1>11, Zenon DEF GoWaking

\* A writer sleeps while the pipe is full.
SleepW == \A p \in Procs : pc[p] = "sleepw" => Used = PIPESIZE

\* A process that is not in a write has nothing left to write.
Writing(p) == pc[p] \in {"write", "sleepw"}
NoneLeft == \A p \in Procs : ~Writing(p) => left[p] = <<>>

\* The inductive invariant of the ring.
RInv == FInv /\ RTypes /\ SleepW /\ NoneLeft

\* The steps that leave the ring, its counters and the calls' bytes alone.
LEMMA RingKept ==
    ASSUME RTypes, UNCHANGED <<data, nread, nwrite, left, got>>
    PROVE  RTypes' /\ Used' = Used
  <1>1. Used' = Used
    BY Zenon DEF Used
  <1> QED
    BY <1>1, Zenon DEF RTypes

\* What kalloc leaves in a fresh page are bytes.
LEMMA JunkType == NoData \in [0..(PIPESIZE - 1) -> Bytes]
  <1>1. Junk \in Bytes
    BY InputAssumption DEF Junk
  <1> QED
    BY <1>1, Zenon DEF NoData

\* What pipealloc does to the ring.
LEMMA AllocRing ==
    ASSUME RTypes, NEW p \in Procs, pipealloc(p)
    PROVE  /\ RTypes' /\ UNCHANGED <<data, left, got>>
           /\ \/ exists' /\ ~exists /\ readopen' /\ writeopen' /\ Used' = 0 /\ nread' = nwrite'
              \/ UNCHANGED <<exists, readopen, writeopen, nread, nwrite>>
  <1>1. UNCHANGED <<data, left, got>>
    BY Zenon DEF pipealloc
  <1>2. CASE FreeFiles # {} /\ ~exists /\ Cardinality(FreeFds(p)) >= 2
    <2>1. nread' = 0 /\ nwrite' = 0 /\ exists' /\ readopen' /\ writeopen'
      BY <1>2, Zenon DEF pipealloc
    <2>2. UINT \in Nat \ {0} /\ PIPESIZE \in Nat
      BY PipeAssumption
    <2>3. 0 % UINT = 0 /\ 0 \in 0..(UINT - 1)
      BY <2>2, ModCases
    <2>4. Used' = 0
      BY <2>1, <2>3 DEF Used
    <2>5. Used' <= PIPESIZE /\ nread' \in 0..(UINT - 1) /\ nwrite' \in 0..(UINT - 1)
      BY <2>1, <2>2, <2>3, <2>4
    <2>6. RTypes'
      BY <1>1, <2>5, Zenon DEF RTypes
    <2> QED
      BY <1>1, <1>2, <2>1, <2>4, <2>6, Zenon
  <1>3. CASE ~(FreeFiles # {} /\ ~exists /\ Cardinality(FreeFds(p)) >= 2)
    <2>1. UNCHANGED <<exists, readopen, writeopen, nread, nwrite>>
      BY <1>3 DEF pipealloc
    <2> QED
      BY <1>1, <2>1, RingKept, Zenon
  <1> QED
    BY <1>2, <1>3, Zenon

\* What pipeclose does to the ring.
LEMMA CloseRing ==
    ASSUME RTypes, NEW p \in Procs, pipeclose(p)
    PROVE  /\ RTypes' /\ UNCHANGED <<nread, nwrite, left, got>> /\ Used' = Used
           /\ exists' => data' = data
  <1>1. UNCHANGED <<nread, nwrite, left, got>> /\ data' = IF exists' THEN data ELSE NoData
    BY Zenon DEF pipeclose
  <1>2. Used' = Used
    BY <1>1, Zenon DEF Used
  <1>3. data' \in [0..(PIPESIZE - 1) -> Bytes]
    BY <1>1, JunkType DEF RTypes
  <1> QED
    BY <1>1, <1>2, <1>3, Zenon DEF RTypes

\* pipewrite keeps what is left to write a sequence of bytes.
LEMMA WriteTypes ==
    ASSUME RTypes, NEW p \in Procs, pipewrite(p)
    PROVE  RTypes'
  <1>1. left[p] \in Seq(Bytes) /\ left \in [Procs -> Seq(Bytes)]
    BY Zenon DEF RTypes
  <1>2. PICK k : Wrote(left[p], k) /\ k = Stored(left[p])
    BY WriteRing, Zenon
  <1>3. SubSeq(left[p], k + 1, Len(left[p])) \in Seq(Bytes)
    <2>1. k \in 0..Len(left[p]) /\ Len(left[p]) \in Nat
      BY <1>1, <1>2 DEF Wrote
    <2>2. \A i \in (k + 1)..Len(left[p]) : left[p][i] \in Bytes
      BY <1>1, <2>1, ElementOfSeq
    <2>3. k + 1 \in Int /\ Len(left[p]) \in Int
      BY <2>1
    <2> QED
      BY <2>2, <2>3, SubSeqProperties, Zenon
  <1>4. left' \in [Procs -> Seq(Bytes)]
    <2>1. << >> \in Seq(Bytes)
      BY EmptySeq, Zenon
    <2>2. PICK b \in BOOLEAN : left' = [left EXCEPT ![p] = IF b THEN <<>> ELSE
                                                       SubSeq(left[p], k + 1, Len(left[p]))]
      BY <1>2, Zenon DEF pipewrite
    <2> QED
      BY <1>1, <1>3, <2>1, <2>2, Zenon
  <1>5. Used' <= PIPESIZE /\ nread' = nread /\ got' = got
    BY <1>2 DEF Wrote, pipewrite
  <1> QED
    BY <1>2, <1>4, <1>5, Zenon DEF Wrote, RTypes

\* A read returns bytes.
LEMMA ReadTypes ==
    ASSUME RTypes, NEW p \in Procs, piperead(p), want[p] \in Nat
    PROVE  RTypes'
  <1>1. CASE nread = nwrite /\ writeopen
    BY <1>1, RingKept, Zenon DEF piperead
  <1>2. CASE ~(nread = nwrite /\ writeopen)
    <2>1. PICK k \in 0..PIPESIZE : Took(k)
      BY <1>2, ReadRing, Zenon
    <2>2. k \in Nat /\ Used \in 0..PIPESIZE /\ PIPESIZE \in Nat
      BY <2>1, UsedIs
    <2>3. \A j \in 1..k : data[Pos(j - 1)] \in Bytes
      <3> SUFFICES ASSUME NEW j \in 1..k PROVE data[Pos(j - 1)] \in Bytes
        BY Zenon
      <3>1. j - 1 \in 0..PIPESIZE
        BY <2>1, <2>2
      <3>2. Pos(j - 1) \in 0..(PIPESIZE - 1)
        BY <3>1, PosIs, Zenon
      <3> QED
        BY <3>2, Zenon DEF RTypes
    <2>4. got' \in [1..k -> Bytes]
      BY <2>1, <2>3, Zenon DEF Took
    <2>5. got' \in Seq(Bytes)
      BY <2>2, <2>4, SeqDef, Zenon
    <2>6. left' = left
      BY Zenon DEF piperead
    <2>7. Used' <= PIPESIZE
      BY <2>1, <2>2 DEF Took
    <2> QED
      BY <2>1, <2>5, <2>6, <2>7, Zenon DEF Took, RTypes
  <1> QED
    BY <1>1, <1>2, Zenon

\* There is no pipe at the start.
LEMMA InitRInv == Init => RInv
  <1> SUFFICES ASSUME Init PROVE RInv
    BY Zenon
  <1>1. UINT \in Nat \ {0} /\ PIPESIZE \in Nat
    BY PipeAssumption
  <1>2. nread = 0 /\ nwrite = 0 /\ data = NoData /\ got = <<>>
        /\ left = [p \in Procs |-> <<>>] /\ \A p \in Procs : pc[p] # "sleepw"
    BY Zenon DEF Init
  <1>3. 0 % UINT = 0 /\ 0 \in 0..(UINT - 1)
    BY <1>1, ModCases
  <1>4. Used = 0
    BY <1>2, <1>3 DEF Used
  <1>5. << >> \in Seq(Bytes)
    BY EmptySeq, Zenon
  <1>6. RTypes
    BY <1>1, <1>2, <1>3, <1>4, <1>5, JunkType DEF RTypes
  <1> QED
    BY <1>2, <1>6, InitFInv, Zenon DEF RInv, SleepW, NoneLeft

\* The steps of Next, by what they have to do with the ring.
LEMMA NextRing ==
    ASSUME RInv, [Next]_vars
    PROVE  \/ /\ UNCHANGED <<exists, data, nread, nwrite, readopen, writeopen, got>>
              /\ left' \in [Procs -> Seq(Bytes)]
              /\ \A p \in Procs : pc'[p] \in {"sleepr", "sleepw"} => pc'[p] = pc[p]
           \/ \E p \in Procs : pipealloc(p) \/ pipeclose(p) \/ pipewrite(p) \/ piperead(p)
  <1>0. /\ left \in [Procs -> Seq(Bytes)] /\ pc \in [Procs -> PCs]
        /\ back \in [Procs -> {"user", "exit"}]
    BY Zenon DEF RInv, RTypes, FInv, FTypes
  <1>1. CASE UNCHANGED vars
    BY <1>0, <1>1, Zenon DEF vars, pipe, calls
  <1>2. ASSUME NEW p \in Procs, exit(p) \/ exited(p) \/ sys_close(p) \/ sys_exit(p) \/ kill(p)
        PROVE  /\ UNCHANGED <<exists, data, nread, nwrite, readopen, writeopen, got, left>>
               /\ \A q \in Procs : pc'[q] \in {"sleepr", "sleepw"} => pc'[q] = pc[q]
    <2>1. UNCHANGED <<exists, data, nread, nwrite, readopen, writeopen, got, left>>
      BY <1>2, Zenon DEF exit, exited, sys_close, sys_exit, kill, pipe, calls
    <2>2. CASE exited(p) \/ sys_exit(p) \/ kill(p)
      BY <1>0, <2>1, <2>2, Zenon DEF exited, sys_exit, kill, Go
    <2>3. CASE exit(p) \/ sys_close(p)
      <3>1. PICK f, then : fileclose(p, f, then) /\ then \in {"user", "exit"}
        BY <2>3, Zenon DEF exit, sys_close
      <3> QED
        BY <1>0, <2>1, <3>1, Zenon DEF fileclose, Go
    <2> QED
      BY <1>2, <2>2, <2>3, Zenon
  <1>3. ASSUME NEW p \in Procs, sys_dup(p) \/ sys_pipe(p) \/ sys_read(p) \/ sys_write(p)
        PROVE  /\ UNCHANGED <<exists, data, nread, nwrite, readopen, writeopen, got>>
               /\ left' \in [Procs -> Seq(Bytes)]
               /\ \A q \in Procs : pc'[q] \in {"sleepr", "sleepw"} => pc'[q] = pc[q]
    <2>1. UNCHANGED <<exists, data, nread, nwrite, readopen, writeopen, got>>
      BY <1>3, Zenon DEF sys_dup, sys_pipe, sys_read, sys_write, pipe
    <2>2. left' \in [Procs -> Seq(Bytes)]
      <3>1. CASE sys_dup(p) \/ sys_pipe(p) \/ sys_read(p)
        BY <1>0, <3>1, Zenon DEF sys_dup, sys_pipe, sys_read, calls
      <3>2. CASE sys_write(p)
        BY <1>0, <3>2, InputAssumption, Zenon DEF sys_write
      <3> QED
        BY <1>3, <3>1, <3>2, Zenon
    <2>3. \A q \in Procs : pc'[q] \in {"sleepr", "sleepw"} => pc'[q] = pc[q]
      BY <1>0, <1>3, Zenon DEF sys_dup, sys_pipe, sys_read, sys_write, Go
    <2> QED
      BY <2>1, <2>2, <2>3, Zenon
  <1>4. ASSUME NEW p \in Procs, NEW q \in Procs, fork(p, q)
        PROVE  /\ UNCHANGED <<exists, data, nread, nwrite, readopen, writeopen, got, left>>
               /\ \A r \in Procs : pc'[r] \in {"sleepr", "sleepw"} => pc'[r] = pc[r]
    BY <1>0, <1>4 DEF fork, Go, pipe, calls
  <1> QED
    BY <1>0, <1>1, <1>2, <1>3, <1>4, Zenon DEF Next, Kernel

\* A step that starts no write and in which nobody leaves one keeps NoneLeft.
LEMMA LeftKept ==
    ASSUME NoneLeft, left' = left, \A p \in Procs : Writing(p) => Writing(p)'
    PROVE  NoneLeft'
  BY Zenon DEF NoneLeft

\* sys_write sets what is left to write, pipewrite shortens it until the write
\* returns, and no other step touches it.
LEMMA NextLeft ==
    ASSUME RInv, [Next]_vars
    PROVE  NoneLeft' /\ (left' = left \/ \E p \in Procs : sys_write(p) \/ pipewrite(p))
  <1>0. /\ left \in [Procs -> Seq(Bytes)] /\ pc \in [Procs -> PCs] /\ NoneLeft /\ FInv
    BY Zenon DEF RInv, RTypes, FInv, FTypes
  <1>1. CASE UNCHANGED vars
    BY <1>0, <1>1, LeftKept, Zenon DEF vars, calls, Writing
  <1>2. ASSUME NEW p \in Procs, exited(p) \/ sys_exit(p) \/ kill(p) \/ sys_dup(p) \/ sys_pipe(p)
                                 \/ sys_read(p) \/ pipealloc(p)
        PROVE  NoneLeft' /\ left' = left
    <2>1. left' = left
      BY <1>2, Zenon DEF exited, sys_exit, kill, sys_dup, sys_pipe, sys_read, pipealloc, calls
    <2>2. \A q \in Procs : Writing(q) => Writing(q)'
      <3>1. CASE kill(p)
        BY <1>0, <3>1 DEF kill, Writing
      <3>2. CASE sys_dup(p)
        BY <3>2, Zenon DEF sys_dup, Writing
      <3>3. CASE ~kill(p) /\ ~sys_dup(p)
        <4>1. PICK t : pc' = [pc EXCEPT ![p] = t] /\ pc[p] \in {"user", "exit", "pipe"}
          BY <1>2, <3>3, Zenon DEF exited, sys_exit, sys_pipe, sys_read, pipealloc, Go, At, InUser
        <4> QED
          BY <1>0, <4>1 DEF Writing
      <3> QED
        BY <3>1, <3>2, <3>3, Zenon
    <2> QED
      BY <1>0, <2>1, <2>2, LeftKept, Zenon
  <1>3. ASSUME NEW p \in Procs, exit(p) \/ sys_close(p) PROVE NoneLeft' /\ left' = left
    <2>1. left' = left /\ pc[p] \in {"user", "exit"}
      BY <1>3, Zenon DEF exit, sys_close, At, InUser
    <2>2. PICK f, then : fileclose(p, f, then)
      BY <1>3, Zenon DEF exit, sys_close
    <2>3. PICK t : pc' = [pc EXCEPT ![p] = t]
      BY <2>2, Zenon DEF fileclose, Go
    <2>4. \A q \in Procs : Writing(q) => Writing(q)'
      BY <1>0, <2>1, <2>3 DEF Writing
    <2> QED
      BY <1>0, <2>1, <2>4, LeftKept, Zenon
  <1>4. ASSUME NEW p \in Procs, NEW q \in Procs, fork(p, q) PROVE NoneLeft' /\ left' = left
    <2>1. left' = left /\ pc' = [pc EXCEPT ![q] = "user"] /\ pc[q] = "none"
      BY <1>4, Zenon DEF fork, Go, At, calls
    <2>2. \A t \in Procs : Writing(t) => Writing(t)'
      BY <1>0, <2>1 DEF Writing
    <2> QED
      BY <1>0, <2>1, <2>2, LeftKept, Zenon
  <1>5. ASSUME NEW p \in Procs, piperead(p) \/ pipeclose(p) PROVE NoneLeft' /\ left' = left
    <2>1. left' = left /\ pc[p] \in {"read", "closer", "closew"}
      BY <1>5, Zenon DEF piperead, pipeclose, At
    <2>2. \A q \in Procs : q # p => \/ pc'[q] = pc[q]
                                    \/ pc[q] = "sleepr" /\ pc'[q] = "read"
                                    \/ pc[q] = "sleepw" /\ pc'[q] = "write"
      BY <1>0, <1>5, TransferPc, Zenon
    <2>3. \A q \in Procs : Writing(q) => Writing(q)'
      BY <2>1, <2>2 DEF Writing
    <2> QED
      BY <1>0, <2>1, <2>3, LeftKept, Zenon
  <1>6. ASSUME NEW p \in Procs, sys_write(p) PROVE NoneLeft'
    <2>1. pc' = [pc EXCEPT ![p] = "write"] /\ \A q \in Procs : q # p => left'[q] = left[q]
      BY <1>0, <1>6, Zenon DEF sys_write, Go
    <2> QED
      BY <1>0, <2>1 DEF NoneLeft, Writing
  <1>7. ASSUME NEW p \in Procs, pipewrite(p) PROVE NoneLeft'
    <2>1. \A q \in Procs : q # p => left'[q] = left[q]
      BY <1>0, <1>7, Zenon DEF pipewrite
    <2>2. pc'[p] # "sleepw" => left'[p] = <<>>
      BY <1>0, <1>7, Zenon DEF pipewrite, Go, GoWaking
    <2>3. \A q \in Procs : q # p => \/ pc'[q] = pc[q]
                                    \/ pc[q] = "sleepr" /\ pc'[q] = "read"
                                    \/ pc[q] = "sleepw" /\ pc'[q] = "write"
      BY <1>0, <1>7, TransferPc, Zenon
    <2>4. \A q \in Procs : q # p /\ Writing(q) => Writing(q)'
      BY <2>3 DEF Writing
    <2> QED
      BY <1>0, <2>1, <2>2, <2>4 DEF NoneLeft, Writing
  <1> QED
    BY <1>1, <1>2, <1>3, <1>4, <1>5, <1>6, <1>7, Zenon DEF Next, Kernel

\* Every step keeps the invariant of the ring.
LEMMA NextRInv == RInv /\ [Next]_vars => RInv'
  <1> SUFFICES ASSUME RInv, [Next]_vars PROVE RInv'
    BY Zenon
  <1>1. FInv' /\ NoneLeft'
    BY NextFInv, NextLeft, Zenon DEF RInv
  <1>2. FInv /\ RTypes /\ SleepW
    BY Zenon DEF RInv
  <1>3. PIPESIZE \in Nat \ {0} /\ Used \in 0..PIPESIZE
    BY <1>2, UsedIs, Zenon
  <1>4. CASE /\ UNCHANGED <<exists, data, nread, nwrite, readopen, writeopen, got>>
             /\ left' \in [Procs -> Seq(Bytes)]
             /\ \A p \in Procs : pc'[p] \in {"sleepr", "sleepw"} => pc'[p] = pc[p]
    <2>1. Used' = Used
      BY <1>4, Zenon DEF Used
    <2>2. RTypes'
      BY <1>2, <1>4, <2>1, Zenon DEF RTypes
    <2>3. SleepW'
      BY <1>2, <1>4, <2>1, Zenon DEF SleepW
    <2> QED
      BY <1>1, <2>2, <2>3, Zenon DEF RInv
  <1>5. ASSUME NEW p \in Procs, pipealloc(p) PROVE RInv'
    <2>1. RTypes'
      BY <1>2, <1>5, AllocRing, Zenon
    <2>2. \A q \in Procs : pc'[q] = "sleepw" => pc[q] = "sleepw"
      BY <1>2, <1>5, Zenon DEF pipealloc, Go, FInv, FTypes
    <2>3. \A q \in Procs : pc[q] = "sleepw" => exists
      <3> SUFFICES ASSUME NEW q \in Procs, pc[q] = "sleepw" PROVE exists
        BY Zenon
      <3>1. PICK d \in Fds : ofile[q][d] # None /\ file[ofile[q][d]].writable = TRUE
        BY <1>2, Zenon DEF FInv, Control, InCalls, Ends, FreeFds
      <3>2. ofile[q][d] \in Pipes(TRUE)
        BY <1>2, <3>1 DEF FInv, FTypes, Control, NamedPipes, Pipes
      <3> QED
        BY <1>2, <3>2, Zenon DEF FInv, EndsInv, OpenEnd
    <2>4. UNCHANGED <<exists, readopen, writeopen, nread, nwrite>> => Used' = Used
      BY Zenon DEF Used
    <2>5. SleepW'
      BY <1>2, <1>5, <2>2, <2>3, <2>4, AllocRing, Zenon DEF SleepW
    <2> QED
      BY <1>1, <2>1, <2>5, Zenon DEF RInv
  <1>6. ASSUME NEW p \in Procs, pipeclose(p) PROVE RInv'
    <2>1. RTypes' /\ Used' = Used
      BY <1>2, <1>6, CloseRing, Zenon
    <2>2. \A q \in Procs : pc'[q] = "sleepw" => pc[q] = "sleepw"
      BY <1>2, <1>6, TransferPc, Zenon DEF pipeclose, At
    <2> QED
      BY <1>1, <1>2, <2>1, <2>2, Zenon DEF RInv, SleepW
  <1>7. ASSUME NEW p \in Procs, pipewrite(p) PROVE RInv'
    <2>1. RTypes'
      BY <1>2, <1>7, WriteTypes, Zenon
    <2>2. PICK k : Wrote(left[p], k) /\ k = Stored(left[p])
      BY <1>2, <1>7, WriteRing, Zenon
    <2>3. k \in Nat /\ Used + k <= PIPESIZE /\ Used' = Used + k
      <3>1. Len(left[p]) \in Nat
        BY <1>2 DEF RTypes
      <3> QED
        BY <2>2, <3>1 DEF Wrote
    <2>4. \A q \in Procs : q # p /\ pc'[q] = "sleepw" => pc[q] = "sleepw"
      BY <1>2, <1>7, TransferPc, Zenon
    <2>5. pc'[p] = "sleepw" => k # Len(left[p])
      BY <1>2, <1>7, <2>2, Zenon DEF pipewrite, Go, GoWaking, FInv, FTypes
    <2>6. pc'[p] = "sleepw" => Used' = PIPESIZE
      BY <2>2, <2>5, Zenon DEF Wrote
    <2>7. Used = PIPESIZE => Used' = PIPESIZE
      BY <1>3, <2>3
    <2>8. SleepW'
      BY <1>2, <2>4, <2>6, <2>7, Zenon DEF SleepW
    <2> QED
      BY <1>1, <2>1, <2>8, Zenon DEF RInv
  <1>8. ASSUME NEW p \in Procs, piperead(p) PROVE RInv'
    <2>1. want[p] \in Nat
      BY <1>2, Zenon DEF FInv, FTypes
    <2>2. RTypes'
      BY <1>2, <1>8, <2>1, ReadTypes, Zenon
    <2>3. CASE nread = nwrite /\ writeopen
      <3>1. UNCHANGED <<nread, nwrite>>
        BY <1>8, <2>3, Zenon DEF piperead
      <3>2. Used' = Used
        BY <3>1, Zenon DEF Used
      <3>3. \A q \in Procs : pc'[q] = "sleepw" => pc[q] = "sleepw"
        BY <1>2, <1>8, <2>3, Zenon DEF piperead, Go, FInv, FTypes
      <3> QED
        BY <1>1, <1>2, <2>2, <3>2, <3>3, Zenon DEF RInv, SleepW
    <2>4. CASE ~(nread = nwrite /\ writeopen)
      <3>1. pc' = [q \in Procs |-> IF q = p THEN "user" ELSE
                                     IF pc[q] = "sleepw" THEN "write" ELSE pc[q]]
        BY <1>2, <1>8, <2>1, <2>4, ReadRing, Zenon
      <3>2. \A q \in Procs : pc'[q] # "sleepw"
        BY <3>1
      <3> QED
        BY <1>1, <2>2, <3>2, Zenon DEF RInv, SleepW
    <2> QED
      BY <2>3, <2>4, Zenon
  <1> QED
    BY <1>4, <1>5, <1>6, <1>7, <1>8, NextRing, Zenon

\* The counters of the ring stay in their range and never more than PIPESIZE
\* apart, whatever wraps around, and everything else has its type (pipe.c).
THEOREM TypesKept == Spec => []TypeOK
  <1>1. RInv => TypeOK
    BY Zenon DEF RInv, FInv, FTypes, RTypes, TypeOK, FileRec
  <1> QED
    BY <1>1, InitRInv, NextRInv, PTL DEF Spec

\* What a process asleep in a read may be left with.
LEMMA ReaderLeft ==
    ASSUME RInv, RInv', [Next]_vars, NEW p \in Procs, pc'[p] = "sleepr", nread' # nwrite'
    PROVE  /\ pc[p] = "sleepr"
           /\ \/ nread # nwrite
              \/ \E q \in Procs : pc[q] = "write" /\ killed[q] /\ pc'[q] = "user"
  <1>1. FInv /\ RTypes /\ RTypes'
    BY Zenon DEF RInv
  <1>2. CASE /\ UNCHANGED <<exists, data, nread, nwrite, readopen, writeopen, got>>
             /\ \A q \in Procs : pc'[q] \in {"sleepr", "sleepw"} => pc'[q] = pc[q]
    BY <1>2, Zenon
  <1>3. ASSUME NEW q \in Procs, pipealloc(q)
        PROVE  pc[p] = "sleepr" /\ nread # nwrite
    <2>1. pc[p] = "sleepr"
      BY <1>1, <1>3, Zenon DEF pipealloc, Go, FInv, FTypes
    <2>2. UNCHANGED <<nread, nwrite>>
      BY <1>1, <1>3, AllocRing, Zenon
    <2> QED
      BY <2>1, <2>2, Zenon
  <1>4. ASSUME NEW q \in Procs, pipeclose(q)
        PROVE  pc[p] = "sleepr" /\ nread # nwrite
    <2>1. pc[p] = "sleepr"
      BY <1>1, <1>4, TransferPc, Zenon DEF pipeclose, At
    <2> QED
      BY <1>1, <1>4, <2>1, CloseRing, Zenon
  <1>5. ASSUME NEW q \in Procs, piperead(q)
        PROVE  pc[p] = "sleepr" /\ nread # nwrite
    <2>1. nwrite' = nwrite
      BY <1>5, Zenon DEF piperead
    <2>2. CASE nread = nwrite /\ writeopen
      BY <1>5, <2>1, <2>2, Zenon DEF piperead
    <2>3. CASE ~(nread = nwrite /\ writeopen)
      <3>1. want[q] \in Nat
        BY <1>1, Zenon DEF FInv, FTypes
      <3>2. PICK k \in 0..PIPESIZE :
              Took(k) /\ pc' = [r \in Procs |-> IF r = q THEN "user" ELSE
                                                IF pc[r] = "sleepw" THEN "write" ELSE pc[r]]
        BY <1>1, <1>5, <2>3, <3>1, ReadRing, Zenon
      <3>3. pc[p] = "sleepr"
        BY <3>2, Zenon
      <3>4. k \in 0..Used /\ Used' = Used - k /\ Used \in 0..PIPESIZE /\ PIPESIZE \in Nat
        BY <1>1, <3>2, UsedIs, Zenon DEF Took
      <3>5. nread = nwrite => Used = 0
        BY <1>1, UsedIs, Zenon
      <3>6. Used' = 0 => nread' = nwrite'
        <4>1. (RTypes => (nread = nwrite <=> Used = 0))'
          BY UsedNext, PTL
        <4> QED
          BY <1>1, <4>1, Zenon
      <3> QED
        BY <3>3, <3>4, <3>5, <3>6
    <2> QED
      BY <2>2, <2>3, Zenon
  <1>6. ASSUME NEW q \in Procs, pipewrite(q)
        PROVE  /\ pc[p] = "sleepr"
               /\ nread # nwrite \/ (pc[q] = "write" /\ killed[q] /\ pc'[q] = "user")
    <2>1. pc[q] = "write" /\ pc \in [Procs -> PCs] /\ killed \in [Procs -> BOOLEAN]
      BY <1>1, <1>6, Zenon DEF pipewrite, At, FInv, FTypes
    <2> DEFINE fail == Stored(left[q]) # Len(left[q]) /\ (~readopen \/ killed[q])
               s == IF Stored(left[q]) = Len(left[q]) THEN "user" ELSE "sleepw"
    <2>2. IF fail THEN Go(q, "user") ELSE GoWaking(q, s, "sleepr", "read")
      BY <1>6, Zenon DEF pipewrite
    <2>3. s # "sleepr"
      BY Zenon
    <2> HIDE DEF s
    <2>4. CASE ~fail
      BY <2>2, <2>3, <2>4, Zenon DEF GoWaking
    <2>5. CASE fail
      <3>1. pc' = [pc EXCEPT ![q] = "user"]
        BY <2>2, <2>5, Zenon DEF Go
      <3>2. pc[p] = "sleepr" /\ pc'[q] = "user"
        BY <2>1, <3>1, Zenon
      <3>3. PICK d \in Fds : ofile[p][d] # None /\ file[ofile[p][d]].writable = FALSE
        BY <1>1, <3>2, Zenon DEF FInv, Control, InCalls, Ends, FreeFds
      <3>4. ofile[p][d] \in Pipes(FALSE)
        BY <1>1, <3>3 DEF FInv, FTypes, Control, NamedPipes, Pipes
      <3>5. readopen
        BY <1>1, <3>4, Zenon DEF FInv, EndsInv, OpenEnd
      <3> QED
        BY <2>1, <2>5, <3>2, <3>5, Zenon
    <2> QED
      BY <2>4, <2>5, Zenon
  <1> QED
    BY <1>2, <1>3, <1>4, <1>5, <1>6, NextRing, Zenon

\* Nobody sleeps in the pipe without a reason, however many readers, writers
\* and killed processes share it (pipe.c: piperead, pipewrite, pipeclose).
THEOREM NobodyForgotten == Spec => SleepersHaveReason
  <1>1. ASSUME RInv, RInv', [Next]_vars, NEW p \in Procs
        PROVE  /\ pc'[p] = "sleepw" => Full(nwrite)'
               /\ pc'[p] = "sleepr" /\ nread' # nwrite' =>
                    /\ pc[p] = "sleepr"
                    /\ \/ nread # nwrite
                       \/ \E q \in Procs : pc[q] = "write" /\ killed[q] /\ pc'[q] = "user"
    <2>1. ASSUME pc'[p] = "sleepw" PROVE Full(nwrite)'
      <3>1. (Used = PIPESIZE)'
        BY <1>1, <2>1, Zenon DEF RInv, SleepW
      <3>2. (RTypes => (Used = PIPESIZE => Full(nwrite)))'
        BY FullNext, PTL
      <3> QED
        BY <1>1, <3>1, <3>2, Zenon DEF RInv
    <2> QED
      BY <1>1, <2>1, ReaderLeft, Zenon
  <1>2. RInv /\ RInv' /\ [Next]_vars =>
          [\A p \in Procs :
             /\ pc'[p] = "sleepw" => Full(nwrite)'
             /\ pc'[p] = "sleepr" /\ nread' # nwrite' =>
                  /\ pc[p] = "sleepr"
                  /\ \/ nread # nwrite
                     \/ \E q \in Procs : pc[q] = "write" /\ killed[q] /\ pc'[q] = "user"]_vars
    BY <1>1
  <1> QED
    BY <1>2, InitRInv, NextRInv, PTL DEF Spec, SleepersHaveReason

-----------------------------------------------------------------------------
\* Refinement of the queue

\* The contents of the pipe, byte by byte.
Holds(s) == s \in Seq(Bytes) /\ Len(s) = Used /\ \A j \in 1..Used : s[j] = data[Pos(j - 1)]

\* The bytes between the counters, in order.
LEMMA ContentsIs == RTypes => Holds(Contents)
  <1> SUFFICES ASSUME RTypes PROVE Holds(Contents)
    BY Zenon
  <1>1. Used \in 0..PIPESIZE /\ PIPESIZE \in Nat /\ nread \in Int /\ Used \in Nat
    BY UsedIs
  <1>2. \A j \in 1..Used : /\ data[Pos(j - 1)] \in Bytes
                           /\ data[((nread + j - 1) % UINT) % PIPESIZE] = data[Pos(j - 1)]
    <2> SUFFICES ASSUME NEW j \in 1..Used
                 PROVE  /\ data[Pos(j - 1)] \in Bytes
                        /\ data[((nread + j - 1) % UINT) % PIPESIZE] = data[Pos(j - 1)]
      BY Zenon
    <2>1. j - 1 \in 0..PIPESIZE /\ nread + j - 1 = nread + (j - 1)
      BY <1>1
    <2>2. Pos(j - 1) \in 0..(PIPESIZE - 1)
      BY <2>1, PosIs, Zenon
    <2>3. ((nread + j - 1) % UINT) % PIPESIZE = Pos(j - 1)
      BY <2>1, Zenon DEF Pos
    <2> QED
      BY <2>2, <2>3, Zenon DEF RTypes
  <1>3. Contents \in [1..Used -> Bytes] /\ \A j \in 1..Used : Contents[j] = data[Pos(j - 1)]
    BY <1>2, Zenon DEF Contents
  <1>4. Contents \in Seq(Bytes)
    BY <1>1, <1>3, SeqDef, Zenon
  <1>5. Len(Contents) = Used
    <2>1. DOMAIN Contents = 1..Used /\ DOMAIN Contents = 1..Len(Contents) /\ Len(Contents) \in Nat
      BY <1>3, <1>4, LenProperties
    <2> QED
      BY <1>1, <2>1
  <1> QED
    BY <1>3, <1>4, <1>5, Zenon DEF Holds

\* A write appends the next bytes of its caller; it stops short of the last one
\* only when the pipe is full.
LEMMA WriteAppends ==
    ASSUME RTypes, RTypes', NEW p \in Procs, pipewrite(p)
    PROVE  \E k \in 0..Len(left[p]) :
             /\ k = Stored(left[p]) /\ Len(Contents) + k <= PIPESIZE
             /\ Contents' = Contents \o SubSeq(left[p], 1, k)
             /\ k # Len(left[p]) => Len(Contents') = PIPESIZE
  <1>1. PICK k : Wrote(left[p], k) /\ k = Stored(left[p])
    BY WriteRing, Zenon
  <1>2. left[p] \in Seq(Bytes) /\ Len(left[p]) \in Nat
    BY DEF RTypes
  <1>3. Used \in 0..PIPESIZE /\ PIPESIZE \in Nat
    BY UsedIs, Zenon
  <1>4. k \in 0..Len(left[p]) /\ k \in Nat /\ k \in 0..PIPESIZE /\ Used + k <= PIPESIZE
    BY <1>1, <1>2, <1>3 DEF Wrote
  <1>5. Holds(Contents)
    BY ContentsIs, Zenon
  <1>6. (RTypes => Holds(Contents))'
    BY ContentsIs, PTL
  <1>7. /\ Contents' \in Seq(Bytes) /\ Len(Contents') = Used'
        /\ \A j \in 1..Used' : Contents'[j] = data'[Pos(j - 1)']
    BY <1>6, Zenon DEF Holds
  <1>8. Used' = Used + k /\ nread' = nread
    BY <1>1, Zenon DEF Wrote
  <1>9. \A t : Pos(t)' = Pos(t)
    BY <1>8, Zenon DEF Pos
  <1>10. PICK s : s = SubSeq(left[p], 1, k)
    BY Zenon
  <1>11. /\ s \in Seq(Bytes) /\ Len(s) = k
         /\ \A j \in 1..k : s[j] = left[p][j]
    <2>1. \A j \in 1..k : left[p][j] \in Bytes
      BY <1>2, <1>4, ElementOfSeq
    <2>2. 1 \in Int /\ k \in Int
      BY <1>4
    <2>3. /\ s \in Seq(Bytes)
          /\ Len(s) = IF 1 <= k THEN k - 1 + 1 ELSE 0
          /\ \A j \in 1..(k - 1 + 1) : s[j] = left[p][1 + j - 1]
      BY <1>10, <2>1, <2>2, SubSeqProperties
    <2>4. k - 1 + 1 = k /\ \A j \in 1..k : 1 + j - 1 = j
      BY <1>4
    <2> QED
      BY <1>4, <2>3, <2>4
  <1>12. /\ Contents \o s \in Seq(Bytes) /\ Len(Contents \o s) = Used + k
         /\ \A j \in 1..(Used + k) : (Contents \o s)[j] = IF j <= Used THEN Contents[j] ELSE s[j - Used]
    <2>1. Contents \in Seq(Bytes) /\ Len(Contents) = Used
      BY <1>5, Zenon DEF Holds
    <2> QED
      BY <1>11, <2>1, ConcatProperties, Zenon
  <1>13. ASSUME NEW j \in 1..(Used + k) PROVE Contents'[j] = (Contents \o s)[j]
    <2>1. Contents'[j] = data'[Pos(j - 1)]
      BY <1>7, <1>8, <1>9, Zenon
    <2>2. CASE j <= Used
      <3>1. j \in 1..Used /\ j - 1 \in 0..(Used - 1)
        BY <1>3, <1>4, <2>2
      <3>2. data'[Pos(j - 1)] = data[Pos(j - 1)]
        BY <1>1, <3>1, Zenon DEF Wrote
      <3>3. Contents[j] = data[Pos(j - 1)]
        BY <1>5, <3>1, Zenon DEF Holds
      <3> QED
        BY <1>12, <2>1, <2>2, <3>2, <3>3, Zenon
    <2>3. CASE ~(j <= Used)
      <3>1. PICK t \in 0..(k - 1) : j - 1 = Used + t /\ j - Used = t + 1
        <4>1. j - 1 - Used \in 0..(k - 1) /\ j - 1 = Used + (j - 1 - Used)
              /\ j - Used = (j - 1 - Used) + 1
          BY <1>3, <1>4, <2>3
        <4> QED
          BY <4>1, Zenon
      <3>2. data'[Pos(Used + t)] = left[p][t + 1]
        BY <1>1, Zenon DEF Wrote
      <3>3. t + 1 \in 1..k
        BY <1>4
      <3>4. s[t + 1] = left[p][t + 1]
        BY <1>11, <3>3, Zenon
      <3> QED
        BY <1>12, <2>1, <2>3, <3>1, <3>2, <3>4, Zenon
    <2> QED
      BY <2>2, <2>3, Zenon
  <1>14. Contents' = Contents \o s
    BY <1>7, <1>8, <1>12, <1>13, SeqEqual
  <1>15. k # Len(left[p]) => Len(Contents') = PIPESIZE
    BY <1>1, <1>7, Zenon DEF Wrote
  <1>16. Len(Contents) + k <= PIPESIZE
    BY <1>4, <1>5 DEF Holds
  <1> QED
    BY <1>1, <1>4, <1>10, <1>14, <1>15, <1>16, Zenon

\* A read takes the k oldest bytes.
LEMMA ReadTakes ==
    ASSUME RTypes, RTypes', NEW k, Took(k)
    PROVE  /\ k \in 0..Len(Contents)
           /\ got' = SubSeq(Contents, 1, k)
           /\ Contents' = SubSeq(Contents, k + 1, Len(Contents))
  <1>1. Used \in 0..PIPESIZE /\ PIPESIZE \in Nat /\ k \in 0..Used /\ k \in Nat /\ Used' = Used - k
    BY UsedIs DEF Took
  <1>2. Holds(Contents)
    BY ContentsIs, Zenon
  <1>3. (RTypes => Holds(Contents))'
    BY ContentsIs, PTL
  <1>4. /\ Contents' \in Seq(Bytes) /\ Len(Contents') = Used'
        /\ \A j \in 1..Used' : Contents'[j] = data'[Pos(j - 1)']
    BY <1>3, Zenon DEF Holds
  <1>5. /\ Contents \in Seq(Bytes) /\ Len(Contents) = Used
        /\ \A j \in 1..Used : Contents[j] = data[Pos(j - 1)] /\ Contents[j] \in Bytes
    BY <1>2, ElementOfSeq, Zenon DEF Holds
  <1>6. /\ SubSeq(Contents, 1, k) \in Seq(Bytes) /\ Len(SubSeq(Contents, 1, k)) = k
        /\ \A i \in 1..k : SubSeq(Contents, 1, k)[i] = Contents[i]
    <2>1. \A i \in 1..k : Contents[i] \in Bytes
      BY <1>1, <1>5
    <2>2. 1 \in Int /\ k \in Int
      BY <1>1
    <2>3. /\ SubSeq(Contents, 1, k) \in Seq(Bytes)
          /\ Len(SubSeq(Contents, 1, k)) = IF 1 <= k THEN k - 1 + 1 ELSE 0
          /\ \A i \in 1..(k - 1 + 1) : SubSeq(Contents, 1, k)[i] = Contents[1 + i - 1]
      BY <2>1, <2>2, SubSeqProperties
    <2>4. k - 1 + 1 = k /\ \A i \in 1..k : 1 + i - 1 = i
      BY <1>1
    <2> QED
      BY <1>1, <2>3, <2>4
  <1>7. got' = SubSeq(Contents, 1, k)
    <2>1. got' \in Seq(Bytes) /\ got' \in [1..k -> Bytes] /\ \A i \in 1..k : got'[i] = data[Pos(i - 1)]
      <3>1. got' = [j \in 1..k |-> data[Pos(j - 1)]]
        BY Zenon DEF Took
      <3>2. \A j \in 1..k : data[Pos(j - 1)] \in Bytes
        <4>1. \A j \in 1..k : j \in 1..Used
          BY <1>1
        <4>2. \A j \in 1..Used : data[Pos(j - 1)] \in Bytes
          BY <1>5, Zenon
        <4> QED
          BY <4>1, <4>2, Zenon
      <3> QED
        BY <3>1, <3>2, Zenon DEF RTypes
    <2>2. Len(got') = k
      <3>1. DOMAIN got' = 1..k /\ DOMAIN got' = 1..Len(got') /\ Len(got') \in Nat
        BY <2>1, LenProperties, Zenon
      <3> QED
        BY <1>1, <3>1
    <2>3. \A i \in 1..k : got'[i] = SubSeq(Contents, 1, k)[i]
      BY <1>1, <1>5, <1>6, <2>1
    <2> QED
      BY <1>6, <2>1, <2>2, <2>3, SeqEqual, Zenon
  <1>8. Contents' = SubSeq(Contents, k + 1, Len(Contents))
    <2> DEFINE T == SubSeq(Contents, k + 1, Used)
    <2>1. \A i \in (k + 1)..Used : Contents[i] \in Bytes
      BY <1>1, <1>5
    <2>2. k + 1 \in Int /\ Used \in Int
      BY <1>1
    <2>3. /\ T \in Seq(Bytes)
          /\ Len(T) = IF k + 1 <= Used THEN Used - (k + 1) + 1 ELSE 0
          /\ \A i \in 1..(Used - (k + 1) + 1) : T[i] = Contents[k + 1 + i - 1]
      BY <2>1, <2>2, SubSeqProperties
    <2>4. Used - (k + 1) + 1 = Used - k /\ \A i \in 1..(Used - k) : k + 1 + i - 1 = k + i
      BY <1>1
    <2> HIDE DEF T
    <2>5. Len(T) = Used - k /\ \A i \in 1..(Used - k) : T[i] = Contents[k + i]
      BY <1>1, <2>3, <2>4
    <2>6. ASSUME NEW j \in 1..(Used - k) PROVE Contents'[j] = T[j]
      <3>1. j - 1 \in 0..(Used - k - 1) /\ k + j \in 1..Used /\ k + (j - 1) = (k + j) - 1
        BY <1>1
      <3>2. Contents'[j] = data[Pos(j - 1)'] /\ Pos(j - 1)' = Pos(k + (j - 1))
        BY <1>1, <1>4, <3>1, Zenon DEF Took
      <3>3. Contents[k + j] = data[Pos((k + j) - 1)]
        BY <1>5, <3>1, Zenon
      <3> QED
        BY <2>5, <3>1, <3>2, <3>3, Zenon
    <2>7. Contents' = T
      BY <1>1, <1>4, <2>3, <2>5, <2>6, SeqEqual
    <2> QED
      BY <1>5, <2>7, Zenon DEF T
  <1> QED
    BY <1>1, <1>5, <1>7, <1>8, Zenon

\* The write end is open while a process is in a write.
LEMMA WriterOpen ==
    FInv => \A p \in Procs : Writing(p) => exists /\ writeopen
  <1> SUFFICES ASSUME FInv, NEW p \in Procs, Writing(p) PROVE exists /\ writeopen
    BY Zenon
  <1>1. PICK d \in Fds : ofile[p][d] # None /\ file[ofile[p][d]].writable = TRUE
    BY Zenon DEF FInv, Control, InCalls, Ends, FreeFds, Writing
  <1>2. ofile[p][d] \in Pipes(TRUE)
    BY <1>1 DEF FInv, FTypes, Control, NamedPipes, Pipes
  <1> QED
    BY <1>2, Zenon DEF FInv, EndsInv, OpenEnd

\* The same of the state after a step.
LEMMA WriterOpenNext ==
    (FInv => \A p \in Procs : Writing(p) => exists /\ writeopen)'
  BY WriterOpen, PTL

\* So is it for a process with a descriptor of it.
LEMMA EndOpen ==
    FInv => \A p \in Procs : Ends(p, TRUE) => writeopen
  <1> SUFFICES ASSUME FInv, NEW p \in Procs, Ends(p, TRUE) PROVE writeopen
    BY Zenon
  <1>1. PICK d \in Fds : ofile[p][d] # None /\ file[ofile[p][d]].writable = TRUE
    BY Zenon DEF Ends, FreeFds
  <1>2. ofile[p][d] \in Pipes(TRUE)
    BY <1>1 DEF FInv, FTypes, Control, NamedPipes, Pipes
  <1> QED
    BY <1>2, Zenon DEF FInv, EndsInv, OpenEnd

\* Every step is a step of the queue or leaves it as it is.
LEMMA StepRefines == RInv /\ RInv' /\ [Next]_vars => [Fifo!Next]_(Fifo!vars)
  <1> SUFFICES ASSUME RInv, RInv', [Next]_vars PROVE [Fifo!Next]_(Fifo!vars)
    BY Zenon
  <1> DEFINE Queue == IF exists THEN Contents ELSE <<>>
  <1>1. FInv /\ RTypes /\ RTypes' /\ NoneLeft /\ NoneLeft' /\ FInv'
    BY Zenon DEF RInv
  <1>2. UNCHANGED <<Queue, left, got, readopen, writeopen>> => UNCHANGED (Fifo!vars)
    BY Zenon DEF Fifo!vars
  <1>3. UNCHANGED <<data, nread, nwrite>> => Contents' = Contents
    BY Zenon DEF Contents, Used
  <1>4. exists <=> readopen \/ writeopen
    BY <1>1, Zenon DEF FInv, EndsInv
  <1>5. ASSUME UNCHANGED <<exists, data, nread, nwrite, readopen, writeopen, got>>,
               ~ \E p \in Procs : pipewrite(p)
        PROVE  [Fifo!Next]_(Fifo!vars)
    <2>1. Queue' = Queue /\ got' = got /\ readopen' = readopen /\ writeopen' = writeopen
      BY <1>3, <1>5, Zenon
    <2>2. CASE left' = left
      BY <1>2, <2>1, <2>2, Zenon
    <2>3. ASSUME NEW p \in Procs, sys_write(p) PROVE Fifo!StartWrite(p)
      <3>1. pc[p] = "user" /\ Ends(p, TRUE) /\ \E t \in Writes : left' = [left EXCEPT ![p] = t]
        BY <2>3, Zenon DEF sys_write, InUser, At
      <3>2. ~Writing(p)
        BY <3>1 DEF Writing
      <3>3. left[p] = <<>>
        BY <1>1, <3>2, Zenon DEF NoneLeft
      <3>4. writeopen
        BY <1>1, <3>1, EndOpen, Zenon
      <3> QED
        BY <2>1, <3>1, <3>3, <3>4, Zenon DEF Fifo!StartWrite
    <2> QED
      BY <1>5, <2>2, <2>3, NextLeft, Zenon DEF Fifo!Next
  <1>6. ASSUME NEW p \in Procs, pipealloc(p) PROVE [Fifo!Next]_(Fifo!vars)
    <2>1. UNCHANGED <<data, left, got>>
      BY <1>1, <1>6, AllocRing, Zenon
    <2>2. CASE UNCHANGED <<exists, readopen, writeopen, nread, nwrite>>
      BY <1>2, <1>3, <2>1, <2>2, Zenon
    <2>3. CASE exists' /\ ~exists /\ readopen' /\ writeopen' /\ Used' = 0
      <3>1. (RTypes => Holds(Contents))'
        BY ContentsIs, PTL
      <3>2. Contents' \in Seq(Bytes) /\ Len(Contents') = 0
        BY <1>1, <2>3, <3>1, Zenon DEF Holds
      <3>3. Contents' = <<>>
        BY <3>2, EmptySeq, Zenon
      <3>4. Queue' = Queue
        BY <2>3, <3>3, Zenon
      <3>5. Fifo!Open
        BY <1>4, <2>1, <2>3, <3>4, Zenon DEF Fifo!Open
      <3> QED
        BY <3>5, Zenon DEF Fifo!Next
    <2> QED
      BY <1>1, <1>6, <2>2, <2>3, AllocRing, Zenon
  <1>7. ASSUME NEW p \in Procs, pipeclose(p) PROVE [Fifo!Next]_(Fifo!vars)
    <2>1. UNCHANGED <<nread, nwrite, left, got>> /\ (exists' => data' = data)
      BY <1>1, <1>7, CloseRing, Zenon DEF pipeclose
    <2>2. exists' = (readopen' \/ writeopen')
      BY <1>7, Zenon DEF pipeclose
    <2>3. exists' => Contents' = Contents
      BY <1>3, <2>1, Zenon
    <2>4. Closing(TRUE) # {} => writeopen
      BY <1>1, Zenon DEF FInv, EndsInv, OpenEnd
    <2>5. Closing(FALSE) # {} => readopen
      BY <1>1, Zenon DEF FInv, EndsInv, OpenEnd
    <2>6. CASE At(p, "closew") /\ writeopen' = FALSE /\ UNCHANGED readopen
      <3>1. writeopen
        BY <2>4, <2>6, Zenon DEF Closing, At
      <3>2. Queue' = IF readopen THEN Queue ELSE <<>>
        BY <1>4, <2>2, <2>3, <2>6, <3>1, Zenon
      <3>5. \A q \in Procs : left[q] = <<>>
        BY <1>1, <2>1, <2>6, WriterOpenNext, Zenon DEF NoneLeft
      <3>3. Fifo!CloseWrite
        BY <2>1, <2>6, <3>1, <3>2, <3>5, Zenon DEF Fifo!CloseWrite
      <3> QED
        BY <3>3, Zenon DEF Fifo!Next
    <2>7. CASE At(p, "closer") /\ readopen' = FALSE /\ UNCHANGED writeopen
      <3>1. readopen
        BY <2>5, <2>7, Zenon DEF Closing, At
      <3>2. Queue' = IF writeopen THEN Queue ELSE <<>>
        BY <1>4, <2>2, <2>3, <2>7, <3>1, Zenon
      <3>3. Fifo!CloseRead
        BY <2>1, <2>7, <3>1, <3>2, Zenon DEF Fifo!CloseRead
      <3> QED
        BY <3>3, Zenon DEF Fifo!Next
    <2> QED
      BY <1>7, <2>6, <2>7, Zenon DEF pipeclose
  <1>8. ASSUME NEW p \in Procs, pipewrite(p) PROVE [Fifo!Next]_(Fifo!vars)
    <2>1. UNCHANGED <<exists, readopen, writeopen, got>> /\ pc[p] = "write"
      BY <1>8, Zenon DEF pipewrite, At
    <2>2. exists /\ writeopen
      BY <1>1, <2>1, WriterOpen DEF Writing
    <2>3. Queue = Contents /\ Queue' = Contents'
      BY <2>1, <2>2, Zenon
    <2>4. PICK k \in 0..Len(left[p]) :
            /\ k = Stored(left[p]) /\ Len(Contents) + k <= PIPESIZE
            /\ Contents' = Contents \o SubSeq(left[p], 1, k)
            /\ k # Len(left[p]) => Len(Contents') = PIPESIZE
      BY <1>1, <1>8, WriteAppends, Zenon
    <2>5. \/ left' = [left EXCEPT ![p] = SubSeq(left[p], k + 1, Len(left[p]))]
          \/ left' = [left EXCEPT ![p] = <<>>] /\ Len(Contents') = PIPESIZE
      <3>1. CASE k = Len(left[p])
        <4>1. left' = [left EXCEPT ![p] = <<>>]
          BY <1>8, <2>4, <3>1, Zenon DEF pipewrite
        <4>2. left[p] \in Seq(Bytes) /\ Len(left[p]) \in Nat
          BY <1>1 DEF RTypes
        <4>3. SubSeq(left[p], k + 1, Len(left[p])) = <<>>
          BY <3>1, <4>2
        <4> QED
          BY <4>1, <4>3, Zenon
      <3>2. CASE k # Len(left[p])
        BY <1>8, <2>4, <3>2, Zenon DEF pipewrite
      <3> QED
        BY <3>1, <3>2, Zenon
    <2>6. Fifo!Put(p)
      BY <2>1, <2>2, <2>3, <2>4, <2>5, Zenon DEF Fifo!Put
    <2> QED
      BY <2>6, Zenon DEF Fifo!Next
  <1>9. ASSUME NEW p \in Procs, piperead(p) PROVE [Fifo!Next]_(Fifo!vars)
    <2>1. UNCHANGED <<exists, data, nwrite, readopen, writeopen, left>> /\ pc[p] = "read"
      BY <1>9, Zenon DEF piperead, At
    <2>2. want[p] \in Nat /\ want[p] # 0
      <3>1. want[p] \in Nat /\ want[p] > 0
        BY <1>1, <2>1, Zenon DEF FInv, FTypes, Control, InCalls
      <3> QED
        BY <3>1
    <2>3. exists /\ readopen
      <3>1. PICK d \in Fds : ofile[p][d] # None /\ file[ofile[p][d]].writable = FALSE
        BY <1>1, <2>1, Zenon DEF FInv, Control, InCalls, Ends, FreeFds
      <3>2. ofile[p][d] \in Pipes(FALSE)
        BY <1>1, <3>1 DEF FInv, FTypes, Control, NamedPipes, Pipes
      <3> QED
        BY <1>1, <3>2, Zenon DEF FInv, EndsInv, OpenEnd
    <2>4. Queue = Contents /\ Queue' = Contents'
      BY <2>1, <2>3, Zenon
    <2>5. CASE nread = nwrite /\ writeopen
      <3>1. UNCHANGED <<nread, got>>
        BY <1>9, <2>5, Zenon DEF piperead
      <3> QED
        BY <1>2, <1>3, <2>1, <2>4, <3>1, Zenon
    <2>6. CASE ~(nread = nwrite /\ writeopen)
      <3>1. PICK k \in 0..PIPESIZE : Took(k) /\ (k = 0 => Used = 0 \/ want[p] = 0)
        BY <1>1, <1>9, <2>2, <2>6, ReadRing, Zenon
      <3>2. /\ k \in 0..Len(Contents) /\ got' = SubSeq(Contents, 1, k)
            /\ Contents' = SubSeq(Contents, k + 1, Len(Contents))
        BY <1>1, <3>1, ReadTakes, Zenon
      <3>3. k = 0 => Contents = <<>> /\ ~writeopen
        <4> SUFFICES ASSUME k = 0 PROVE Contents = <<>> /\ ~writeopen
          BY Zenon
        <4>1. Used = 0
          BY <2>2, <3>1, Zenon
        <4>2. nread = nwrite
          BY <1>1, <4>1, UsedIs, Zenon
        <4>3. Contents \in Seq(Bytes) /\ Len(Contents) = 0
          BY <1>1, <4>1, ContentsIs, Zenon DEF Holds
        <4> QED
          BY <2>6, <4>2, <4>3, EmptySeq
      <3>4. Fifo!Get
        BY <2>1, <2>3, <2>4, <3>2, <3>3 DEF Fifo!Get
      <3> QED
        BY <3>4, Zenon DEF Fifo!Next
    <2> QED
      BY <2>5, <2>6, Zenon
  <1> QED
    BY <1>5, <1>6, <1>7, <1>8, <1>9, NextRing, Zenon

\* The ring buffer with its wrapping counters, shared by any number of processes
\* that read, write, close, exit and are killed, is a bounded queue of bytes
\* (pipe.c).
THEOREM RingIsQueue == Spec => FifoSpec
  <1>1. Init => Fifo!Init
    BY DEF Init, Fifo!Init
  <1> QED
    BY <1>1, StepRefines, InitRInv, NextRInv, PTL DEF Spec, FifoSpec, Fifo!Spec
=============================================================================
