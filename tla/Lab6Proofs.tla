----------------------------- MODULE Lab6Proofs -----------------------------
(***************************************************************************)
(* Proofs about Lab6Sort, for any number of threads, blocks and records:   *)
(* the threads of a pool stay out of each other's records; qsort() and     *)
(* merge_blocks() put the records in order and keep them all; and the      *)
(* program implements FileSort.                                            *)
(***************************************************************************)
EXTENDS Lab6Sort, FiniteSetTheorems, WellFoundedInduction, TLAPS

(***************************************************************************)
(* The inductive invariant.  What keeps the threads apart is that they     *)
(* hold different blocks (Claims), and that the blocks are parts of the    *)
(* portion (Whole).  Halving the number of blocks and doubling their size  *)
(* keeps the second only if the number is even, which it is as a divisor   *)
(* of a power of two (Divided).                                            *)
(***************************************************************************)
Kinds ==
  /\ main \in {"portion", "create", "join", "sync", "external", "done", "failed", "destroy"}
  /\ phase \in {"sort", "merge"}
  /\ current_offset \in Nat /\ portion_recs \in Nat
  /\ g_block_count \in Nat \ {0} /\ g_block_size \in Nat /\ g_next_block \in Nat
  /\ pc \in [Threads -> Labels]
  /\ block \in [Threads -> Int]

Divided ==
  /\ \E q \in 1 .. BLOCKS : g_block_count * q = BLOCKS
  /\ main \in {"create", "join"} /\ phase = "merge" => g_block_count > 1

Whole == \/ g_block_count * g_block_size = portion_recs
         \/ main = "failed" /\ \A t \in Threads : ~Busy(t)

\* Threads exist only while the main thread makes or awaits them, or has failed.
Quiet == main \notin {"create", "join", "destroy", "failed"} => \A t \in Threads : pc[t] = "none"

Claims ==
  /\ \A t \in Threads : Busy(t) =>
       /\ block[t] \in Nat
       /\ block[t] + Step <= g_next_block /\ block[t] + Step <= g_block_count
  /\ \A t, u \in Threads : Busy(t) /\ Busy(u) /\ t # u =>
       block[t] + Step <= block[u] \/ block[u] + Step <= block[t]

PoolInv == Kinds /\ Divided /\ Whole /\ Quiet /\ Claims

-----------------------------------------------------------------------------
\* Products grow with their factors.
LEMMA TimesMonotone ==
  ASSUME NEW a \in Nat, NEW b \in Nat, NEW s \in Nat, a <= b
  PROVE  a * s <= b * s
<1>1. PICK d \in Nat : b = a + d
  <2> WITNESS b - a \in Nat
  <2> QED OBVIOUS
<1>2. b * s = a * s + d * s /\ d * s >= 0
  BY <1>1
<1>3. QED
  BY <1>2

\* A divisor of a power of two is 1 or even.
LEMMA DivisorEven ==
  ASSUME NEW n \in Nat, NEW q \in 1 .. BLOCKS, n * q = BLOCKS, n > 1
  PROVE  n % 2 = 0
<1>1. n <= n * q
  BY TimesMonotone, 1 * n = n, n * q = q * n
<1>2. n \in 1 .. BLOCKS
  BY <1>1, PoolAssumption
<1>3. QED
  BY <1>2, PoolAssumption DEF PowerOfTwo

\* Half as many blocks of twice the size are the same records.
LEMMA Halved ==
  ASSUME NEW n \in Nat, NEW s \in Nat, n % 2 = 0
  PROVE  (n \div 2) * (2 * s) = n * s
<1>1. n = 2 * (n \div 2) /\ n \div 2 \in Nat
  OBVIOUS
<1>2. ASSUME NEW h \in Nat PROVE h * (2 * s) = (2 * h) * s
  OBVIOUS
<1>3. QED
  BY <1>1, <1>2

-----------------------------------------------------------------------------
(***************************************************************************)
(* The invariant is inductive.                                             *)
(***************************************************************************)

\* It holds when the program starts.
LEMMA InitInv == Init => PoolInv
<1> SUFFICES ASSUME Init PROVE PoolInv
  OBVIOUS
<1>1. Kinds /\ Quiet
  BY PoolAssumption DEF Init, Kinds, Quiet, Busy, Labels
<1>2. BLOCKS * 1 = BLOCKS /\ BLOCKS * 0 = 0 /\ 1 \in 1 .. BLOCKS
  BY PoolAssumption
<1>3. Divided /\ Whole
  BY <1>2 DEF Init, Divided, Whole
<1>4. Claims
  BY PoolAssumption DEF Init, Claims, Busy
<1>5. QED
  BY <1>1, <1>3, <1>4 DEF PoolInv

\* A thread takes the next block or two, which nobody else has.
LEMMA TakeInv ==
  ASSUME PoolInv, NEW t \in Threads, TakeBlock(t)
  PROVE  PoolInv'
<1> USE DEF PoolInv, TakeBlock, At, Goto, portionVars, poolVars, runVars
<1>1. Kinds'
  BY DEF Kinds, Labels, Step
<1>2. main \in {"create", "join", "destroy"}
  BY DEF Kinds, Quiet, Busy
<1>3. Divided' /\ Whole' /\ Quiet'
  BY <1>2 DEF Kinds, Divided, Whole, Quiet, Busy
<1>4. Claims'
  BY DEF Kinds, Claims, Busy, Step
<1>5. QED
  BY <1>1, <1>3, <1>4

\* No other step of a thread takes a block.
LEMMA ThreadInv ==
  ASSUME PoolInv, NEW t \in Threads,
         Enter(t) \/ NoBlockLeft(t) \/ Work(t) \/ Copy(t) \/ Leave(t)
  PROVE  PoolInv'
<1> USE DEF PoolInv
<1>1. /\ UNCHANGED <<main, portionVars, poolVars, g_next_block>> /\ pc[t] # "none"
      /\ pc' \in [Threads -> Labels] /\ block' \in [Threads -> Int]
      /\ \A u \in Threads : Busy(u)' => Busy(u) /\ block'[u] = block[u]
  <2>1. CASE Enter(t)
    BY <2>1 DEF Enter, Wait, At, Kinds, Labels, Busy
  <2>2. CASE NoBlockLeft(t)
    BY <2>2 DEF NoBlockLeft, Goto, At, Kinds, Labels, Busy
  <2>3. CASE Work(t)
    BY <2>3 DEF Work, Goto, At, Kinds, Labels, Busy
  <2>4. CASE Copy(t)
    BY <2>4 DEF Copy, Goto, At, Kinds, Labels, Busy
  <2>5. CASE Leave(t)
    BY <2>5 DEF Leave, Wait, At, Kinds, Labels, Busy
  <2>6. QED
    BY <2>1, <2>2, <2>3, <2>4, <2>5
<1>2. Kinds' /\ Divided' /\ Quiet'
  BY <1>1 DEF Kinds, Divided, Quiet, portionVars, poolVars
<1>3. Whole'
  BY <1>1 DEF Whole, portionVars, poolVars
<1>4. Claims'
  BY <1>1 DEF Claims, Step, poolVars
<1>5. QED
  BY <1>2, <1>3, <1>4

\* A portion is divided into blocks, or the program fails.
LEMMA StartPortionInv ==
  ASSUME PoolInv, StartPortion
  PROVE  PoolInv'
<1> DEFINE n == IF RECORDS - current_offset >= PORTION THEN PORTION ELSE RECORDS - current_offset
<1>1. n \in Nat
  BY FileAssumption DEF PoolInv, StartPortion, Kinds
<1>2. /\ main = "portion" /\ main' \in {"create", "failed"} /\ phase' = "sort"
      /\ portion_recs' = n /\ g_block_size' = n \div g_block_count
      /\ main' = "create" => n % g_block_count = 0
      /\ g_next_block' = 0 /\ UNCHANGED <<current_offset, g_block_count, pc, block>>
  BY DEF StartPortion
<1> HIDE DEF n
<1>3. /\ g_block_count \in Nat \ {0} /\ \A t \in Threads : ~Busy(t) /\ ~Busy(t)'
  BY <1>2 DEF PoolInv, Kinds, Quiet, Busy
<1>4. n \div g_block_count \in Nat /\ n = g_block_count * (n \div g_block_count) + (n % g_block_count)
  BY <1>1, <1>3
<1>5. Kinds'
  BY <1>1, <1>2, <1>4 DEF PoolInv, Kinds
<1>6. Divided' /\ Quiet'
  BY <1>2, <1>3 DEF PoolInv, Divided, Quiet
<1>7. Whole'
  BY <1>2, <1>3, <1>4 DEF Whole
<1>8. Claims'
  BY <1>2, <1>3 DEF Claims
<1>9. QED
  BY <1>5, <1>6, <1>7, <1>8 DEF PoolInv

\* A thread that is created has no block.
LEMMA CreateInv ==
  ASSUME PoolInv, CreateThread
  PROVE  PoolInv'
<1> USE DEF PoolInv, CreateThread, portionVars, runVars
<1>1. Kinds'
  BY DEF Kinds, Labels
<1>2. \A t \in Threads : Busy(t)' => Busy(t)
  BY DEF Kinds, Busy
<1>3. Divided' /\ Whole' /\ Quiet'
  BY <1>1, <1>2 DEF Kinds, Divided, Whole, Quiet
<1>4. Claims'
  BY <1>2 DEF Claims, Step
<1>5. QED
  BY <1>1, <1>3, <1>4

\* The next pass has half as many blocks, twice as large.
LEMMA JoinInv ==
  ASSUME PoolInv, JoinThreads
  PROVE  PoolInv'
<1>1. PICK q \in 1 .. BLOCKS : g_block_count * q = BLOCKS
  BY DEF PoolInv, Divided
<1>2. /\ main = "join" /\ \A t \in Threads : ~Busy(t) /\ ~Busy(t)'
      /\ g_block_count * g_block_size = portion_recs
      /\ g_block_count \in Nat \ {0} /\ g_block_size \in Nat
  BY DEF PoolInv, Kinds, JoinThreads, Busy, Whole
<1>3. /\ g_block_count' \in Nat \ {0} /\ g_block_size' \in Nat
      /\ g_block_count' * g_block_size' = portion_recs
      /\ \E r \in 1 .. BLOCKS : g_block_count' * r = BLOCKS
  <2>1. CASE phase = "sort"
    BY <1>1, <1>2, <2>1 DEF JoinThreads, BlocksNow
  <2>2. CASE phase = "merge"
    <3>1. g_block_count > 1 /\ g_block_count % 2 = 0
      BY <1>1, <1>2, <2>2, DivisorEven DEF PoolInv, Divided
    <3>2. g_block_count' = g_block_count \div 2 /\ g_block_size' = 2 * g_block_size
      BY <2>2 DEF JoinThreads, BlocksNow
    <3>3. g_block_count' \in Nat \ {0} /\ g_block_size' \in Nat
      BY <1>2, <3>1, <3>2
    <3>4. g_block_count' * g_block_size' = portion_recs
      BY <1>2, <3>1, <3>2, Halved
    <3>5. g_block_count' * (2 * q) = BLOCKS
      BY <1>1, <1>2, <3>1, <3>2, Halved
    <3>6. 2 * q <= g_block_count' * (2 * q)
      <4>1. 2 * q \in Nat /\ 1 * (2 * q) = 2 * q /\ 1 <= g_block_count'
        BY <3>3
      <4>2. QED
        BY <3>3, <4>1, TimesMonotone
    <3>7. QED
      BY <3>3, <3>4, <3>5, <3>6
  <2>3. QED
    BY <2>1, <2>2 DEF PoolInv, Kinds
<1>4. Kinds'
  BY <1>3 DEF PoolInv, Kinds, JoinThreads, Labels, portionVars
<1>5. Divided' /\ Whole'
  BY <1>3, <1>4 DEF Kinds, Divided, Whole, JoinThreads, portionVars
<1>6. Quiet' /\ Claims'
  BY <1>2, <1>3 DEF PoolInv, Kinds, Quiet, Claims, JoinThreads, Labels
<1>7. QED
  BY <1>4, <1>5, <1>6 DEF PoolInv

\* The other steps of the main thread have no pool.
LEMMA MainInv ==
  ASSUME PoolInv, EndPortion \/ AllPortions \/ MergeRuns \/ CarryRun \/ NextPass
  PROVE  PoolInv'
<1>1. /\ main \in {"portion", "sync", "external"}
      /\ main' \in {"portion", "external", "done"}
      /\ current_offset' \in Nat
      /\ UNCHANGED <<portion_recs, poolVars, g_next_block, pc, block>>
  BY DEF PoolInv, Kinds, EndPortion, AllPortions, MergeRuns, CarryRun, NextPass,
     portionVars, poolVars, threadVars
<1>2. Kinds' /\ Divided' /\ Whole' /\ Quiet'
  BY <1>1 DEF PoolInv, Kinds, Divided, Whole, Quiet, poolVars
<1>3. Claims'
  BY <1>1 DEF PoolInv, Claims, Busy, Step, poolVars
<1>4. QED
  BY <1>2, <1>3 DEF PoolInv

\* When the main thread fails, the threads keep what they have.
LEMMA FailInv ==
  ASSUME PoolInv, Fail \/ FailCreate
  PROVE  PoolInv'
<1>1. /\ \/ main' = "failed"
         \/ main = "create" /\ main' = "destroy"
      /\ main # "failed" /\ UNCHANGED <<portionVars, poolVars, threadVars>>
  BY DEF Fail, FailCreate
<1>2. Kinds' /\ Divided' /\ Whole' /\ Quiet'
  BY <1>1 DEF PoolInv, Kinds, Divided, Whole, Quiet, portionVars, poolVars, threadVars
<1>3. Claims'
  BY <1>1 DEF PoolInv, Claims, Busy, Step, poolVars, threadVars
<1>4. QED
  BY <1>2, <1>3 DEF PoolInv

\* Every step keeps the invariant.
LEMMA NextInv == PoolInv /\ [Next]_vars => PoolInv'
<1> SUFFICES ASSUME PoolInv, [Next]_vars PROVE PoolInv'
  OBVIOUS
<1>1. CASE Main
  BY <1>1, StartPortionInv, CreateInv, JoinInv, MainInv DEF Main
<1>2. CASE Fail \/ FailCreate
  BY <1>2, FailInv
<1>3. CASE \E t \in Threads : ThreadStep(t)
  BY <1>3, TakeInv, ThreadInv DEF ThreadStep
<1>4. CASE UNCHANGED vars
  <2>1. UNCHANGED <<main, portionVars, poolVars, threadVars>>
    BY <1>4 DEF vars
  <2>2. Kinds' /\ Divided' /\ Whole' /\ Quiet'
    BY <2>1 DEF PoolInv, Kinds, Divided, Whole, Quiet, Busy, portionVars, poolVars, threadVars
  <2>3. Claims'
    BY <2>1 DEF PoolInv, Claims, Busy, Step, poolVars, threadVars
  <2>4. QED
    BY <2>2, <2>3 DEF PoolInv
<1>5. QED
  BY <1>1, <1>2, <1>3, <1>4 DEF Next

LEMMA InvariantHolds == Spec => []PoolInv
BY InitInv, NextInv, PTL DEF Spec

-----------------------------------------------------------------------------
(***************************************************************************)
(* What follows from it.                                                   *)
(***************************************************************************)

\* Blocks that are apart are made of records that are apart.
LEMMA BlocksApart ==
  ASSUME NEW a \in Nat, NEW b \in Nat, NEW w \in Nat, NEW s \in Nat, a + w <= b
  PROVE  a * s + w * s <= b * s
<1>1. (a + w) * s <= b * s
  BY TimesMonotone
<1>2. (a + w) * s = a * s + w * s
  OBVIOUS
<1>3. QED
  BY <1>1, <1>2

\* The invariant implies that threads do not share records.
LEMMA ApartFromInv == PoolInv => RecordsApart
<1> SUFFICES ASSUME PoolInv, NEW t \in Threads, NEW u \in Threads, Busy(t)
             PROVE  /\ Records(t) \subseteq current_offset .. current_offset + portion_recs - 1
                    /\ Busy(u) /\ t # u => Records(t) \cap Records(u) = {}
  BY DEF RecordsApart
<1> DEFINE s == g_block_size
<1>1. /\ s \in Nat /\ g_block_count \in Nat /\ Step \in Nat
      /\ current_offset \in Nat /\ portion_recs \in Nat
      /\ \A v \in Threads : Busy(v) => block[v] \in Nat
      /\ g_block_count * s = portion_recs
  BY DEF PoolInv, Kinds, Claims, Whole, Step
<1>2. /\ block[t] * s \in Nat /\ Step * s \in Nat
      /\ block[t] * s + Step * s <= portion_recs
  BY <1>1, BlocksApart DEF PoolInv, Claims
<1>3. Start(t) = current_offset + block[t] * s /\ Length = Step * s
  BY DEF Start, Length
<1>4. Records(t) \subseteq current_offset .. current_offset + portion_recs - 1
  BY <1>1, <1>2, <1>3 DEF Records
<1>5. ASSUME Busy(u), t # u PROVE Records(t) \cap Records(u) = {}
  <2>1. Start(u) = current_offset + block[u] * s /\ block[u] * s \in Nat
    BY <1>1, <1>5 DEF Start
  <2>2. \/ block[t] * s + Step * s <= block[u] * s
        \/ block[u] * s + Step * s <= block[t] * s
    BY <1>1, <1>5, BlocksApart DEF PoolInv, Claims
  <2>3. QED
    BY <1>1, <1>2, <1>3, <2>1, <2>2 DEF Records
<1>6. QED
  BY <1>4, <1>5

\* For any number of threads, blocks and records, no two threads of a pool work on
\* one record, nor does any on a record outside the portion that is mapped.
THEOREM ThreadsApart == Spec => []RecordsApart
BY InvariantHolds, ApartFromInv, PTL

-----------------------------------------------------------------------------
(***************************************************************************)
(* Counting records.  Every set of numbers has a least element; that takes *)
(* the place of induction here.                                            *)
(***************************************************************************)

\* A set of natural numbers has a least element.
LEMMA LeastOf ==
  ASSUME NEW T, T \subseteq Nat, T # {}
  PROVE  \E m \in T : \A k \in T : m <= k
<1> DEFINE R == OpToRel(<, Nat)
<1>1. PICK x \in T : \A y \in T : ~(<<y, x>> \in R)
  <2>1. IsWellFoundedOn(R, Nat)
    BY NatLessThanWellFounded
  <2> HIDE DEF R
  <2>2. QED
    BY <2>1, WFMin
<1>2. \A a, b \in Nat : a < b => <<a, b>> \in R
  BY DEF OpToRel
<1> HIDE DEF R
<1>3. \A y \in T : ~(y < x)
  BY <1>1, <1>2
<1>4. QED
  BY <1>3

\* The places of n records from `from' on.
Span(from, n) == from .. from + n - 1

\* A set of such places is finite ...
LEMMA FinitePart ==
  ASSUME NEW from \in Int, NEW n \in Nat, NEW T \in SUBSET Span(from, n)
  PROVE  IsFiniteSet(T)
<1>1. IsFiniteSet(Span(from, n))
  BY FS_Interval, from + n - 1 \in Int DEF Span
<1>2. QED
  BY <1>1, FS_Subset

\* ... and a part of it is no larger.
LEMMA Parts ==
  ASSUME NEW from \in Int, NEW n \in Nat, NEW T \in SUBSET Span(from, n), NEW S \in SUBSET T
  PROVE  /\ IsFiniteSet(S) /\ Cardinality(S) \in Nat
         /\ Cardinality(S) <= Cardinality(T)
         /\ Cardinality(S) = Cardinality(T) => S = T
BY FinitePart, FS_Subset, FS_CardinalityType

\* Two sets are equally large if a function pairs off their elements.
LEMMA PairedOff ==
  ASSUME NEW S, IsFiniteSet(S), NEW T, NEW f \in [S -> T],
         \A x, y \in S : f[x] = f[y] => x = y,
         \A z \in T : \E x \in S : f[x] = z
  PROVE  Cardinality(T) = Cardinality(S)
<1>1. f \in Bijection(S, T)
  BY DEF Bijection, Injection, Surjection, IsInjective
<1>2. QED
  BY <1>1, FS_Bijection DEF ExistsBijection

\* Those with a mark below m, with one up to m, and with m itself.
Below(f, from, n, m) == {i \in Span(from, n) : f[i] < m}
UpTo(f, from, n, m) == {i \in Span(from, n) : f[i] <= m}
With(f, from, n, m) == {i \in Span(from, n) : f[i] = m}
MarksOf(f, from, n) == {f[i] : i \in Span(from, n)}

\* How many they are.
LEMMA Counts ==
  ASSUME NEW f, NEW from \in Int, NEW n \in Nat, \A i \in Span(from, n) : f[i] \in Int,
         NEW m \in Int
  PROVE  /\ Cardinality(Below(f, from, n, m)) \in 0 .. n
         /\ Cardinality(UpTo(f, from, n, m)) \in 0 .. n
         /\ Cardinality(With(f, from, n, m)) \in 0 .. n
         /\ Cardinality(UpTo(f, from, n, m)) =
              Cardinality(Below(f, from, n, m)) + Cardinality(With(f, from, n, m))
<1> DEFINE P == Span(from, n)  B == Below(f, from, n, m)
           U == UpTo(f, from, n, m)  W == With(f, from, n, m)
<1>1. IsFiniteSet(P) /\ Cardinality(P) = n /\ P \in SUBSET (from .. from + n - 1)
  BY FS_Interval DEF Span
<1>2. B \in SUBSET P /\ U \in SUBSET P /\ W \in SUBSET P
  BY DEF Below, UpTo, With
<1>3. U = B \cup W /\ B \cap W = {}
  BY DEF Below, UpTo, With
<1> HIDE DEF P, B, U, W
<1>4. \A S \in SUBSET P : IsFiniteSet(S) /\ Cardinality(S) \in Nat /\ Cardinality(S) <= n
  BY <1>1, FS_Subset, FS_CardinalityType
<1>5. Cardinality(U) = Cardinality(B) + Cardinality(W)
  <2>1. Cardinality(B \cap W) = 0
    BY <1>3, FS_EmptySet
  <2>2. Cardinality(B \cup W) = Cardinality(B) + Cardinality(W) - Cardinality(B \cap W)
    BY <1>2, <1>4, FS_Union
  <2>3. Cardinality(B) \in Nat /\ Cardinality(W) \in Nat
    BY <1>2, <1>4
  <2>4. QED
    BY <1>3, <2>1, <2>2, <2>3
<1>6. /\ Cardinality(B) \in 0 .. n /\ Cardinality(U) \in 0 .. n /\ Cardinality(W) \in 0 .. n
  BY <1>2, <1>4
<1>7. QED
  BY <1>5, <1>6 DEF B, U, W

\* Of two marks the smaller one has fewer records up to it, if the larger one occurs;
\* those are at most the records below the larger one.
LEMMA CountsGrow ==
  ASSUME NEW f, NEW from \in Int, NEW n \in Nat, \A i \in Span(from, n) : f[i] \in Int,
         NEW m \in Int, NEW x \in MarksOf(f, from, n), m < x
  PROVE  /\ Cardinality(UpTo(f, from, n, m)) <= Cardinality(Below(f, from, n, x))
         /\ Cardinality(UpTo(f, from, n, m)) < Cardinality(UpTo(f, from, n, x))
<1>1. PICK i \in Span(from, n) : x = f[i]
  BY DEF MarksOf
<1> DEFINE A == UpTo(f, from, n, m)  B == Below(f, from, n, x)  C == UpTo(f, from, n, x)
<1>2. /\ x \in Int /\ A \in SUBSET B /\ B \in SUBSET C /\ A \in SUBSET C
      /\ C \in SUBSET Span(from, n) /\ B \in SUBSET Span(from, n)
      /\ i \in C /\ i \notin A
  BY <1>1 DEF Span, Below, UpTo
<1> HIDE DEF A, B, C
<1>3. Cardinality(A) <= Cardinality(B)
  BY <1>2, Parts
<1>4. /\ Cardinality(A) \in Nat /\ Cardinality(C) \in Nat
      /\ Cardinality(A) <= Cardinality(C) /\ Cardinality(A) # Cardinality(C)
  BY <1>2, Parts
<1>5. QED
  BY <1>3, <1>4 DEF A, B, C

\* Among marks that occur there is a highest one.
LEMMA HighestOf ==
  ASSUME NEW f, NEW from \in Int, NEW n \in Nat, \A i \in Span(from, n) : f[i] \in Int,
         NEW S \in SUBSET MarksOf(f, from, n), S # {}
  PROVE  \E x \in S : \A y \in S : y <= x
<1> DEFINE Above(m) == n - Cardinality(UpTo(f, from, n, m))
           T == {Above(m) : m \in S}
<1>1. \A m \in S : m \in Int
  BY DEF MarksOf
<1>2. \A m \in S : Above(m) \in Nat
  <2>1. ASSUME NEW m \in S PROVE Above(m) \in Nat
    <3>1. Cardinality(UpTo(f, from, n, m)) \in 0 .. n
      BY <1>1, Counts
    <3>2. QED
      BY <3>1
  <2>2. QED
    BY <2>1
<1>3. PICK t \in T : \A k \in T : t <= k
  <2>1. T \subseteq Nat /\ T # {}
    BY <1>2
  <2> HIDE DEF T
  <2>2. QED
    BY <2>1, LeastOf
<1>4. PICK x \in S : t = Above(x)
  OBVIOUS
<1>5. ASSUME NEW y \in S PROVE y <= x
  <2>1. SUFFICES ASSUME x < y PROVE FALSE
    BY <1>1
  <2>2. Cardinality(UpTo(f, from, n, x)) < Cardinality(UpTo(f, from, n, y))
    BY <1>1, <2>1, CountsGrow
  <2>3. \A m \in Int : Cardinality(UpTo(f, from, n, m)) \in 0 .. n
    BY Counts
  <2>4. Above(x) <= Above(y)
    BY <1>3, <1>4
  <2>5. QED
    BY <1>1, <2>2, <2>3, <2>4
<1>6. QED
  BY <1>5

-----------------------------------------------------------------------------
(***************************************************************************)
(* qsort().                                                                *)
(***************************************************************************)

\* A mark for place k: at most k records below it, more than k up to it.
LEMMA QSortedExists ==
  ASSUME NEW f, NEW from \in Int, NEW n \in Nat, \A i \in Span(from, n) : f[i] \in Int,
         NEW k \in 0 .. n - 1
  PROVE  \E m \in MarksOf(f, from, n) :
           /\ Cardinality(Below(f, from, n, m)) <= k
           /\ k < Cardinality(UpTo(f, from, n, m))
<1> DEFINE M == MarksOf(f, from, n)
           b(m) == Cardinality(Below(f, from, n, m))
           u(m) == Cardinality(UpTo(f, from, n, m))
           C == {m \in M : k < u(m)}
           T == {b(m) : m \in C}
<1>1. \A m \in M : m \in Int /\ b(m) \in Nat /\ u(m) \in Nat
  <2> SUFFICES ASSUME NEW m \in M PROVE m \in Int /\ b(m) \in Nat /\ u(m) \in Nat
    OBVIOUS
  <2>1. m \in Int
    BY DEF MarksOf
  <2>2. b(m) \in 0 .. n /\ u(m) \in 0 .. n
    BY <2>1, Counts
  <2>3. QED
    BY <2>1, <2>2
<1>2. C # {}
  <2>1. M # {} /\ M \in SUBSET M
    <3>1. from \in Span(from, n)
      BY DEF Span
    <3>2. QED
      BY <3>1 DEF MarksOf
  <2>2. PICK x \in M : \A y \in M : y <= x
    BY <2>1, HighestOf
  <2>3. UpTo(f, from, n, x) = from .. from + n - 1
    BY <2>2 DEF UpTo, MarksOf, Span
  <2>4. u(x) = n
    BY <2>3, FS_Interval
  <2>5. QED
    BY <2>2, <2>4
<1>3. PICK t \in T : \A h \in T : t <= h
  <2>1. T \subseteq Nat /\ T # {}
    BY <1>1, <1>2
  <2> HIDE DEF T
  <2>2. QED
    BY <2>1, LeastOf
<1>4. PICK m \in C : t = b(m)
  OBVIOUS
<1>5. \A h \in C : b(m) <= b(h)
  BY <1>3, <1>4
<1>6. b(m) <= k
  <2>1. SUFFICES ASSUME k < b(m) PROVE FALSE
    BY <1>1
  <2> DEFINE S == {y \in M : y < m}
  <2>2. S \in SUBSET M /\ S # {}
    <3>1. Below(f, from, n, m) # {}
      BY <1>1, <2>1, FS_EmptySet
    <3>2. QED
      BY <3>1 DEF Below, MarksOf
  <2>3. PICK x \in S : \A y \in S : y <= x
    <3> HIDE DEF S, M
    <3>1. QED
      BY <2>2, HighestOf DEF M
  <2>4. UpTo(f, from, n, x) = Below(f, from, n, m)
    BY <1>1, <2>3 DEF UpTo, Below, MarksOf
  <2>5. x \in C
    BY <1>1, <2>1, <2>3, <2>4
  <2>6. b(x) < u(x)
    <3>1. PICK i \in Span(from, n) : x = f[i]
      BY <2>5 DEF MarksOf
    <3>2. With(f, from, n, x) # {}
      BY <3>1 DEF With
    <3>3. IsFiniteSet(With(f, from, n, x))
      <4>1. With(f, from, n, x) \in SUBSET Span(from, n)
        BY DEF With
      <4>2. QED
        BY <4>1, FinitePart
    <3>4. Cardinality(With(f, from, n, x)) # 0
      BY <3>2, <3>3, FS_EmptySet
    <3>5. Cardinality(With(f, from, n, x)) \in Nat /\ u(x) = b(x) + Cardinality(With(f, from, n, x))
      BY <1>1, <2>5, Counts
    <3>6. QED
      BY <1>1, <2>5, <3>4, <3>5
  <2>7. QED
    BY <1>1, <1>5, <2>4, <2>5, <2>6
<1>7. QED
  BY <1>4, <1>6

\* What qsort() makes is an array.
LEMMA QSortedArray ==
  ASSUME NEW f, NEW from, NEW n
  PROVE  /\ DOMAIN QSorted(f, from, n) = 0 .. n - 1
         /\ QSorted(f, from, n) = [k \in 0 .. n - 1 |-> QSorted(f, from, n)[k]]
<1> DEFINE chosen(k) == CHOOSE m \in MarksOf(f, from, n) :
                           /\ Cardinality(Below(f, from, n, m)) <= k
                           /\ k < Cardinality(UpTo(f, from, n, m))
<1>1. QSorted(f, from, n) = [k \in 0 .. n - 1 |-> chosen(k)]
  BY DEF QSorted, Below, UpTo, MarksOf, Span
<1> HIDE DEF chosen
<1>2. QED
  BY <1>1

\* What qsort() puts in place k, and that there is no choice.
LEMMA QSortedIs ==
  ASSUME NEW f, NEW from \in Int, NEW n \in Nat, \A i \in Span(from, n) : f[i] \in Int,
         NEW k \in 0 .. n - 1
  PROVE  /\ QSorted(f, from, n)[k] \in MarksOf(f, from, n)
         /\ \A m \in MarksOf(f, from, n) :
              /\ Cardinality(Below(f, from, n, m)) <= k
              /\ k < Cardinality(UpTo(f, from, n, m))
              <=> QSorted(f, from, n)[k] = m
<1> DEFINE b(m) == Cardinality(Below(f, from, n, m))
           u(m) == Cardinality(UpTo(f, from, n, m))
           q == QSorted(f, from, n)[k]
<1>1. q = CHOOSE m \in MarksOf(f, from, n) : b(m) <= k /\ k < u(m)
  BY DEF QSorted, Below, UpTo, MarksOf, Span
<1>2. q \in MarksOf(f, from, n) /\ b(q) <= k /\ k < u(q)
  BY <1>1, QSortedExists
<1> HIDE DEF q
<1>3. \A m \in MarksOf(f, from, n) : m \in Int /\ b(m) \in Int /\ u(m) \in Int
  BY Counts DEF MarksOf
<1>4. ASSUME NEW m \in MarksOf(f, from, n), b(m) <= k, k < u(m) PROVE q = m
  <2>1. ~(m < q)
    BY <1>2, <1>3, <1>4, CountsGrow
  <2>2. ~(q < m)
    BY <1>2, <1>3, <1>4, CountsGrow
  <2>3. QED
    BY <1>2, <1>3, <2>1, <2>2
<1>5. QED
  BY <1>2, <1>4 DEF q

\* The array a holds the n records from `from' on, in some order.
SameMarks(f, from, n, a) ==
  /\ a \in [0 .. n - 1 -> Marks]
  /\ \A m \in Marks : Cardinality(With(a, 0, n, m)) = Cardinality(With(f, from, n, m))

\* It is in order.
InOrder(f, from, n) == \A i, j \in Span(from, n) : i < j => f[i] <= f[j]

\* qsort() puts the records in order, and keeps them all.
LEMMA QSortedSorts ==
  ASSUME NEW f, NEW from \in Int, NEW n \in Nat, \A i \in Span(from, n) : f[i] \in Marks
  PROVE  /\ SameMarks(f, from, n, QSorted(f, from, n))
         /\ InOrder(QSorted(f, from, n), 0, n)
<1> DEFINE q == QSorted(f, from, n)
           M == MarksOf(f, from, n)
           b(m) == Cardinality(Below(f, from, n, m))
           u(m) == Cardinality(UpTo(f, from, n, m))
<1>1. \A i \in Span(from, n) : f[i] \in Int
  BY FileAssumption
<1>2. DOMAIN q = 0 .. n - 1 /\ q = [k \in 0 .. n - 1 |-> q[k]]
  BY QSortedArray
<1>3. \A k \in 0 .. n - 1 : q[k] \in M /\ \A m \in M : b(m) <= k /\ k < u(m) <=> q[k] = m
  BY <1>1, QSortedIs
<1> HIDE DEF q
<1>4. \A m \in M : m \in Marks /\ m \in Int
  BY <1>1 DEF MarksOf
<1>5. \A m \in Int : b(m) \in 0 .. n /\ u(m) \in 0 .. n /\ u(m) = b(m) + Cardinality(With(f, from, n, m))
  BY <1>1, Counts
<1>6. q \in [0 .. n - 1 -> Marks]
  BY <1>2, <1>3, <1>4
<1>7. ASSUME NEW m \in Marks
      PROVE  Cardinality(With(q, 0, n, m)) = Cardinality(With(f, from, n, m))
  <2>1. m \in Int /\ b(m) \in 0 .. n /\ u(m) \in 0 .. n
        /\ u(m) = b(m) + Cardinality(With(f, from, n, m))
    BY <1>5, FileAssumption
  <2>2. CASE m \in M
    <3>1. With(q, 0, n, m) = b(m) .. u(m) - 1
      <4>1. With(q, 0, n, m) = {k \in 0 .. n - 1 : b(m) <= k /\ k < u(m)}
        BY <1>3, <2>2 DEF With, Span
      <4>2. PICK x \in 0 .. n, y \in 0 .. n : x = b(m) /\ y = u(m)
        BY <2>1
      <4>3. {k \in 0 .. n - 1 : x <= k /\ k < y} = x .. y - 1
        OBVIOUS
      <4>4. QED
        BY <4>1, <4>2, <4>3
    <3>2. PICK w \in 0 .. n : w = Cardinality(With(f, from, n, m))
      BY <1>1, <2>1, Counts
    <3>3. Cardinality(b(m) .. u(m) - 1) = w
      <4>1. PICK x \in 0 .. n, y \in 0 .. n : x = b(m) /\ y = u(m) /\ y = x + w
        BY <2>1, <3>2
      <4>2. Cardinality(x .. y - 1) = w
        <5>1. x \in Int /\ y - 1 \in Int /\ (x > y - 1 <=> w = 0) /\ (y - 1) - x + 1 = w
          BY <3>2, <4>1
        <5>2. QED
          BY <5>1, FS_Interval
      <4>3. QED
        BY <4>1, <4>2
    <3>4. QED
      BY <3>1, <3>2, <3>3
  <2>3. CASE m \notin M
    <3>1. With(f, from, n, m) = {} /\ With(q, 0, n, m) = {}
      BY <1>3, <2>3 DEF With, Span, MarksOf
    <3>2. QED
      BY <3>1
  <2>4. QED
    BY <2>2, <2>3
<1>8. ASSUME NEW i \in 0 .. n - 1, NEW j \in 0 .. n - 1, i < j PROVE q[i] <= q[j]
  <2>1. SUFFICES ASSUME q[j] < q[i] PROVE FALSE
    BY <1>3, <1>4
  <2>2. /\ q[i] \in M /\ q[j] \in M /\ q[i] \in Int /\ q[j] \in Int
        /\ b(q[i]) <= i /\ j < u(q[j])
    BY <1>3, <1>4
  <2>3. u(q[j]) <= b(q[i])
    BY <1>1, <2>1, <2>2, CountsGrow
  <2>4. u(q[j]) \in Int /\ b(q[i]) \in Int
    BY <1>5, <2>2
  <2>5. QED
    BY <1>8, <2>2, <2>3, <2>4
<1>9. QED
  BY <1>6, <1>7, <1>8 DEF SameMarks, InOrder, Span, q

-----------------------------------------------------------------------------
(***************************************************************************)
(* merge_blocks().                                                         *)
(***************************************************************************)

\* Latest(a, k) is one of a[0] .. a[k], and none of them is later.
LEMMA LatestIs ==
  ASSUME NEW a, NEW n \in Nat, \A h \in 0 .. n - 1 : a[h] \in Int, NEW k \in 0 .. n - 1
  PROVE  /\ Latest(a, k) \in Int
         /\ \A h \in 0 .. k : a[h] <= Latest(a, k)
         /\ \E h \in 0 .. k : Latest(a, k) = a[h]
<1>1. /\ MarksOf(a, 0, k + 1) = {a[h] : h \in 0 .. k}
      /\ \A h \in Span(0, k + 1) : h \in 0 .. k /\ a[h] \in Int
      /\ k + 1 \in Nat
  BY DEF MarksOf, Span
<1>2. a[0] \in MarksOf(a, 0, k + 1)
  BY <1>1
<1>3. PICK x \in {a[h] : h \in 0 .. k} : \A y \in {a[h] : h \in 0 .. k} : y <= x
  <2> DEFINE A == MarksOf(a, 0, k + 1)
  <2>1. A \in SUBSET A /\ A # {}
    BY <1>2
  <2>2. \A h \in Span(0, k + 1) : a[h] \in Int
    BY <1>1
  <2>3. \E x \in A : \A y \in A : y <= x
    BY <1>1, <2>1, <2>2, HighestOf
  <2>4. QED
    BY <1>1, <2>3
<1>4. /\ Latest(a, k) \in {a[h] : h \in 0 .. k}
      /\ \A h \in 0 .. k : a[h] <= Latest(a, k)
  <2>1. \E m \in {a[h] : h \in 0 .. k} : \A h \in 0 .. k : a[h] <= m
    BY <1>3
  <2>2. QED
    BY <2>1 DEF Latest
<1>5. QED
  BY <1>1, <1>4

\* The later of the places, the later the record met so far; in a block in order it is
\* the one at that place.
LEMMA LatestGrows ==
  ASSUME NEW a, NEW n \in Nat, \A h \in 0 .. n - 1 : a[h] \in Int,
         NEW k \in 0 .. n - 1, NEW j \in 0 .. k
  PROVE  /\ Latest(a, j) <= Latest(a, k)
         /\ InOrder(a, 0, n) => Latest(a, k) = a[k]
<1>1. j \in 0 .. n - 1
  OBVIOUS
<1>2. PICK h \in 0 .. j : Latest(a, j) = a[h]
  BY <1>1, LatestIs
<1>3. h \in 0 .. k /\ k \in 0 .. k
  OBVIOUS
<1>4. a[h] <= Latest(a, k) /\ a[k] <= Latest(a, k) /\ Latest(a, k) \in Int /\ a[k] \in Int
  BY <1>3, LatestIs
<1>5. ASSUME InOrder(a, 0, n) PROVE Latest(a, k) = a[k]
  <2>1. PICK g \in 0 .. k : Latest(a, k) = a[g]
    BY LatestIs
  <2>2. a[g] <= a[k]
    BY <1>4, <1>5, <2>1 DEF InOrder, Span
  <2>3. QED
    BY <1>4, <2>1, <2>2
<1>6. QED
  BY <1>2, <1>4, <1>5

\* The places merge_blocks() gives to left[i] and to right[j].
PlaceLeft(l, r, nright, i) ==
  i + Cardinality({j \in 0 .. nright - 1 : ~LeftFirst(l, r, i, j)})
PlaceRight(l, r, nleft, j) ==
  j + Cardinality({i \in 0 .. nleft - 1 : LeftFirst(l, r, i, j)})

\* A set of places below c has at most c elements, one of all places below c at least c.
LEMMA Initial ==
  ASSUME NEW n \in Nat, NEW S \in SUBSET (0 .. n - 1), NEW c \in 0 .. n
  PROVE  /\ Cardinality(S) \in 0 .. n
         /\ S \subseteq 0 .. c - 1 => Cardinality(S) <= c
         /\ 0 .. c - 1 \subseteq S => c <= Cardinality(S)
<1>1. \A k \in Nat : IsFiniteSet(0 .. k - 1) /\ Cardinality(0 .. k - 1) = k
  <2> SUFFICES ASSUME NEW k \in Nat
               PROVE  IsFiniteSet(0 .. k - 1) /\ Cardinality(0 .. k - 1) = k
    OBVIOUS
  <2>1. 0 \in Int /\ k - 1 \in Int /\ (0 > k - 1 <=> k = 0) /\ (k - 1) - 0 + 1 = k
    OBVIOUS
  <2>2. QED
    BY <2>1, FS_Interval
<1>2. IsFiniteSet(S) /\ Cardinality(S) <= n /\ Cardinality(S) \in Nat
  <2>1. IsFiniteSet(0 .. n - 1) /\ Cardinality(0 .. n - 1) = n
    BY <1>1
  <2>2. QED
    BY <2>1, FS_Subset, FS_CardinalityType
<1>3. ASSUME S \subseteq 0 .. c - 1 PROVE Cardinality(S) <= c
  <2>1. IsFiniteSet(0 .. c - 1) /\ Cardinality(0 .. c - 1) = c
    BY <1>1
  <2>2. QED
    BY <1>3, <2>1, FS_Subset
<1>4. ASSUME 0 .. c - 1 \subseteq S PROVE c <= Cardinality(S)
  <2>1. Cardinality(0 .. c - 1) = c
    BY <1>1
  <2>2. QED
    BY <1>2, <1>4, <2>1, FS_Subset
<1>5. QED
  BY <1>2, <1>3, <1>4

\* Two places of different blocks differ, in the order in which they are taken; two
\* places of one block are in the order of the block.
LEMMA PlacesApart ==
  ASSUME NEW nleft \in Nat, NEW nright \in Nat,
         NEW l \in [0 .. nleft - 1 -> Int], NEW r \in [0 .. nright - 1 -> Int]
  PROVE  /\ \A i \in 0 .. nleft - 1 : PlaceLeft(l, r, nright, i) \in 0 .. nleft + nright - 1
         /\ \A j \in 0 .. nright - 1 : PlaceRight(l, r, nleft, j) \in 0 .. nleft + nright - 1
         /\ \A h, i \in 0 .. nleft - 1 :
              h < i => PlaceLeft(l, r, nright, h) < PlaceLeft(l, r, nright, i)
         /\ \A h, j \in 0 .. nright - 1 :
              h < j => PlaceRight(l, r, nleft, h) < PlaceRight(l, r, nleft, j)
         /\ \A i \in 0 .. nleft - 1, j \in 0 .. nright - 1 :
              IF LeftFirst(l, r, i, j)
                THEN PlaceLeft(l, r, nright, i) < PlaceRight(l, r, nleft, j)
                ELSE PlaceRight(l, r, nleft, j) < PlaceLeft(l, r, nright, i)
<1> DEFINE Before(i) == {j \in 0 .. nright - 1 : ~LeftFirst(l, r, i, j)}
           Ahead(j) == {i \in 0 .. nleft - 1 : LeftFirst(l, r, i, j)}
<1>1. ASSUME NEW i \in 0 .. nleft - 1, NEW j \in 0 .. nright - 1,
             NEW h \in 0 .. i, NEW g \in 0 .. j
      PROVE  /\ LeftFirst(l, r, i, g) => LeftFirst(l, r, h, j)
             /\ LeftFirst(l, r, i, g) => LeftFirst(l, r, i, j)
             /\ LeftFirst(l, r, i, g) => LeftFirst(l, r, h, g)
  <2>1. Latest(l, h) <= Latest(l, i) /\ Latest(r, g) <= Latest(r, j)
    BY LatestGrows
  <2>2. /\ Latest(l, h) \in Int /\ Latest(l, i) \in Int
        /\ Latest(r, g) \in Int /\ Latest(r, j) \in Int
    <3>1. h \in 0 .. nleft - 1 /\ g \in 0 .. nright - 1
      OBVIOUS
    <3>2. QED
      BY <3>1, LatestIs
  <2>3. QED
    BY <2>1, <2>2 DEF LeftFirst
<1>2. ASSUME NEW i \in 0 .. nleft - 1
      PROVE  /\ Before(i) \in SUBSET (0 .. nright - 1) /\ Cardinality(Before(i)) \in 0 .. nright
             /\ PlaceLeft(l, r, nright, i) = i + Cardinality(Before(i))
  <2>1. Before(i) \in SUBSET (0 .. nright - 1) /\ 0 \in 0 .. nright
    OBVIOUS
  <2>2. PlaceLeft(l, r, nright, i) = i + Cardinality(Before(i))
    BY DEF PlaceLeft
  <2> HIDE DEF Before
  <2>3. QED
    BY <2>1, <2>2, Initial
<1>3. ASSUME NEW j \in 0 .. nright - 1
      PROVE  /\ Ahead(j) \in SUBSET (0 .. nleft - 1) /\ Cardinality(Ahead(j)) \in 0 .. nleft
             /\ PlaceRight(l, r, nleft, j) = j + Cardinality(Ahead(j))
  <2>1. Ahead(j) \in SUBSET (0 .. nleft - 1) /\ 0 \in 0 .. nleft
    OBVIOUS
  <2>2. PlaceRight(l, r, nleft, j) = j + Cardinality(Ahead(j))
    BY DEF PlaceRight
  <2> HIDE DEF Ahead
  <2>3. QED
    BY <2>1, <2>2, Initial
<1>4. ASSUME NEW h \in 0 .. nleft - 1, NEW i \in 0 .. nleft - 1, h < i
      PROVE  PlaceLeft(l, r, nright, h) < PlaceLeft(l, r, nright, i)
  <2>1. Before(h) \subseteq Before(i)
    BY <1>1, <1>4
  <2>2. Cardinality(Before(h)) <= Cardinality(Before(i))
    <3>1. IsFiniteSet(0 .. nright - 1)
      BY FS_Interval
    <3>2. IsFiniteSet(Before(i))
      BY <1>2, <3>1, FS_Subset
    <3>3. QED
      BY <2>1, <3>2, FS_Subset
  <2> HIDE DEF Before
  <2>3. QED
    BY <1>2, <1>4, <2>2
<1>5. ASSUME NEW h \in 0 .. nright - 1, NEW j \in 0 .. nright - 1, h < j
      PROVE  PlaceRight(l, r, nleft, h) < PlaceRight(l, r, nleft, j)
  <2>1. Ahead(h) \subseteq Ahead(j)
    BY <1>1, <1>5
  <2>2. Cardinality(Ahead(h)) <= Cardinality(Ahead(j))
    <3>1. IsFiniteSet(0 .. nleft - 1)
      BY FS_Interval
    <3>2. IsFiniteSet(Ahead(j))
      BY <1>3, <3>1, FS_Subset
    <3>3. QED
      BY <2>1, <3>2, FS_Subset
  <2> HIDE DEF Ahead
  <2>3. QED
    BY <1>3, <1>5, <2>2
<1>6. ASSUME NEW i \in 0 .. nleft - 1, NEW j \in 0 .. nright - 1
      PROVE  IF LeftFirst(l, r, i, j)
               THEN PlaceLeft(l, r, nright, i) < PlaceRight(l, r, nleft, j)
               ELSE PlaceRight(l, r, nleft, j) < PlaceLeft(l, r, nright, i)
  <2>1. /\ \A h \in 0 .. nleft - 1 : h <= i /\ LeftFirst(l, r, i, j) => LeftFirst(l, r, h, j)
        /\ \A h \in 0 .. nleft - 1 : i <= h /\ LeftFirst(l, r, h, j) => LeftFirst(l, r, i, j)
        /\ \A g \in 0 .. nright - 1 : j <= g /\ LeftFirst(l, r, i, j) => LeftFirst(l, r, i, g)
        /\ \A g \in 0 .. nright - 1 : g <= j /\ LeftFirst(l, r, i, g) => LeftFirst(l, r, i, j)
    BY <1>1
  <2>2. CASE LeftFirst(l, r, i, j)
    <3>1. 0 .. (i + 1) - 1 \subseteq Ahead(j) /\ Before(i) \subseteq 0 .. j - 1
      BY <2>1, <2>2
    <3>2. i + 1 \in 0 .. nleft /\ j \in 0 .. nright
      OBVIOUS
    <3>3. i + 1 <= Cardinality(Ahead(j))
      BY <1>3, <3>1, <3>2, Initial
    <3>4. Cardinality(Before(i)) <= j
      BY <1>2, <3>1, <3>2, Initial
    <3> HIDE DEF Ahead, Before
    <3>5. QED
      BY <1>2, <1>3, <2>2, <3>3, <3>4
  <2>3. CASE ~LeftFirst(l, r, i, j)
    <3>1. 0 .. (j + 1) - 1 \subseteq Before(i) /\ Ahead(j) \subseteq 0 .. i - 1
      BY <2>1, <2>3
    <3>2. j + 1 \in 0 .. nright /\ i \in 0 .. nleft
      OBVIOUS
    <3>3. j + 1 <= Cardinality(Before(i))
      BY <1>2, <3>1, <3>2, Initial
    <3>4. Cardinality(Ahead(j)) <= i
      BY <1>3, <3>1, <3>2, Initial
    <3> HIDE DEF Ahead, Before
    <3>5. QED
      BY <1>2, <1>3, <2>3, <3>3, <3>4
  <2>4. QED
    BY <2>2, <2>3
<1>7. /\ \A i \in 0 .. nleft - 1 : PlaceLeft(l, r, nright, i) \in 0 .. nleft + nright - 1
      /\ \A j \in 0 .. nright - 1 : PlaceRight(l, r, nleft, j) \in 0 .. nleft + nright - 1
  <2> HIDE DEF Ahead, Before
  <2>1. ASSUME NEW i \in 0 .. nleft - 1
        PROVE  PlaceLeft(l, r, nright, i) \in 0 .. nleft + nright - 1
    <3>1. PICK x \in 0 .. nright : x = Cardinality(Before(i))
      BY <1>2
    <3>2. QED
      BY <1>2, <3>1
  <2>2. ASSUME NEW j \in 0 .. nright - 1
        PROVE  PlaceRight(l, r, nleft, j) \in 0 .. nleft + nright - 1
    <3>1. PICK x \in 0 .. nleft : x = Cardinality(Ahead(j))
      BY <1>3
    <3>2. QED
      BY <1>3, <3>1
  <2>3. QED
    BY <2>1, <2>2
<1>8. QED
  BY <1>4, <1>5, <1>6, <1>7

\* The function g moves the records 0 .. n - 1 about.
Permutation(g, n) ==
  /\ g \in [0 .. n - 1 -> 0 .. n - 1]
  /\ \A h, k \in 0 .. n - 1 : g[h] = g[k] => h = k
  /\ \A k \in 0 .. n - 1 : \E h \in 0 .. n - 1 : g[h] = k

OneToOne(g, n) ==
  /\ g \in [0 .. n - 1 -> 0 .. n - 1]
  /\ \A h, k \in 0 .. n - 1 : g[h] = g[k] => h = k

\* A function from an interval to itself that is one-to-one reaches every place of it.
LEMMA Permutes ==
  ASSUME NEW n \in Nat, NEW g, OneToOne(g, n)
  PROVE  Permutation(g, n)
<1>1. IsFiniteSet(0 .. n - 1)
  BY FS_Interval
<1> DEFINE D == 0 .. n - 1
<1>2. g \in Injection(D, D)
  BY DEF Injection, IsInjective, OneToOne
<1> HIDE DEF D
<1>3. g \in Surjection(D, D)
  BY <1>1, <1>2, FS_Injection DEF D
<1>4. \A k \in 0 .. n - 1 : \E h \in 0 .. n - 1 : g[h] = k
  BY <1>3 DEF Surjection, D
<1>5. QED
  BY <1>4 DEF OneToOne, Permutation

\* The place of record h of the two blocks, counted from the first of the left one.
PlaceOf(l, r, nleft, nright) ==
  [h \in 0 .. nleft + nright - 1 |->
     IF h < nleft THEN PlaceLeft(l, r, nright, h) ELSE PlaceRight(l, r, nleft, h - nleft)]

\* Every place is given to one record.
LEMMA PlaceOfIs ==
  ASSUME NEW nleft \in Nat, NEW nright \in Nat,
         NEW l \in [0 .. nleft - 1 -> Int], NEW r \in [0 .. nright - 1 -> Int],
         NEW n \in Nat, n = nleft + nright
  PROVE  Permutation(PlaceOf(l, r, nleft, nright), n)
<1>0. PICK g : g = PlaceOf(l, r, nleft, nright)
  OBVIOUS
<1> DEFINE L(i) == PlaceLeft(l, r, nright, i)
           R(j) == PlaceRight(l, r, nleft, j)
<1>1. /\ \A i \in 0 .. nleft - 1 : L(i) \in 0 .. n - 1
      /\ \A j \in 0 .. nright - 1 : R(j) \in 0 .. n - 1
      /\ \A h, i \in 0 .. nleft - 1 : h < i => L(h) < L(i)
      /\ \A h, j \in 0 .. nright - 1 : h < j => R(h) < R(j)
      /\ \A i \in 0 .. nleft - 1, j \in 0 .. nright - 1 : L(i) < R(j) \/ R(j) < L(i)
  <2>0. \A i \in 0 .. nleft - 1 : L(i) \in 0 .. nleft + nright - 1
    BY PlacesApart
  <2>1. \A j \in 0 .. nright - 1 : R(j) \in 0 .. nleft + nright - 1
    BY PlacesApart
  <2>2. \A h, i \in 0 .. nleft - 1 : h < i => L(h) < L(i)
    BY PlacesApart
  <2>3. \A h, j \in 0 .. nright - 1 : h < j => R(h) < R(j)
    BY PlacesApart
  <2>4. ASSUME NEW i \in 0 .. nleft - 1, NEW j \in 0 .. nright - 1
        PROVE  L(i) < R(j) \/ R(j) < L(i)
    <3>1. IF LeftFirst(l, r, i, j) THEN L(i) < R(j) ELSE R(j) < L(i)
      BY PlacesApart
    <3> HIDE DEF L, R
    <3>2. QED
      BY <3>1
  <2> HIDE DEF L, R
  <2>5. QED
    BY <2>0, <2>1, <2>2, <2>3, <2>4
<1>2. \A h \in 0 .. n - 1 :
        \/ h \in 0 .. nleft - 1 /\ g[h] = L(h)
        \/ nleft <= h /\ h - nleft \in 0 .. nright - 1 /\ g[h] = R(h - nleft)
  BY <1>0 DEF PlaceOf
<1>3. g = [h \in 0 .. n - 1 |-> g[h]]
  BY <1>0 DEF PlaceOf
<1> HIDE DEF L, R
<1>4. \A h \in 0 .. n - 1 : g[h] \in 0 .. n - 1
  BY <1>1, <1>2
<1>5. ASSUME NEW h \in 0 .. n - 1, NEW k \in 0 .. n - 1, g[h] = g[k] PROVE h = k
  <2>1. CASE h \in 0 .. nleft - 1 /\ k \in 0 .. nleft - 1
    <3>1. L(h) = L(k)
      BY <1>2, <1>5, <2>1
    <3>2. ~(h < k) /\ ~(k < h)
      BY <1>1, <2>1, <3>1
    <3>3. QED
      BY <3>2
  <2>2. CASE h \notin 0 .. nleft - 1 /\ k \notin 0 .. nleft - 1
    <3>1. /\ R(h - nleft) = R(k - nleft)
          /\ h - nleft \in 0 .. nright - 1 /\ k - nleft \in 0 .. nright - 1
      BY <1>2, <1>5, <2>2
    <3>2. ~(h - nleft < k - nleft) /\ ~(k - nleft < h - nleft)
      BY <1>1, <3>1
    <3>3. QED
      BY <3>2
  <2>3. ASSUME NEW i \in 0 .. nleft - 1, NEW j \in 0 .. n - 1, j \notin 0 .. nleft - 1
        PROVE  g[i] # g[j]
    <3>1. i \in 0 .. n - 1
      OBVIOUS
    <3>2. g[i] = L(i) /\ g[j] = R(j - nleft) /\ j - nleft \in 0 .. nright - 1
      BY <1>2, <2>3, <3>1
    <3>3. L(i) < R(j - nleft) \/ R(j - nleft) < L(i)
      BY <1>1, <3>2
    <3>4. QED
      BY <1>1, <3>2, <3>3
  <2>4. QED
    BY <1>5, <2>1, <2>2, <2>3
<1>6. g \in [0 .. n - 1 -> 0 .. n - 1]
  BY <1>3, <1>4
<1>7. OneToOne(g, n)
  BY <1>5, <1>6 DEF OneToOne
<1>8. QED
  BY <1>0, <1>7, Permutes

\* What merge_blocks() puts in the place of record h.
LEMMA MergedBlocksIs ==
  ASSUME NEW nleft \in Nat, NEW nright \in Nat,
         NEW l \in [0 .. nleft - 1 -> Int], NEW r \in [0 .. nright - 1 -> Int],
         NEW h \in 0 .. nleft + nright - 1
  PROVE  MergedBlocks(l, r, nleft, nright)[PlaceOf(l, r, nleft, nright)[h]]
           = IF h < nleft THEN l[h] ELSE r[h - nleft]
<1> DEFINE n == nleft + nright
           L(i) == PlaceLeft(l, r, nright, i)
           R(j) == PlaceRight(l, r, nleft, j)
           k == PlaceOf(l, r, nleft, nright)[h]
<1>1. k \in 0 .. n - 1
  <2>1. PICK m \in Nat : m = n
    OBVIOUS
  <2>2. Permutation(PlaceOf(l, r, nleft, nright), m)
    BY <2>1, PlaceOfIs
  <2>3. QED
    BY <2>1, <2>2 DEF Permutation
<1>2. IF h < nleft THEN k = L(h) ELSE k = R(h - nleft)
  BY DEF PlaceOf
<1>3. MergedBlocks(l, r, nleft, nright)[k] =
        IF \E i \in 0 .. nleft - 1 : L(i) = k
          THEN l[CHOOSE i \in 0 .. nleft - 1 : L(i) = k]
          ELSE r[CHOOSE j \in 0 .. nright - 1 : R(j) = k]
  <2> DEFINE v(x) == IF \E i \in 0 .. nleft - 1 : L(i) = x
                       THEN l[CHOOSE i \in 0 .. nleft - 1 : L(i) = x]
                       ELSE r[CHOOSE j \in 0 .. nright - 1 : R(j) = x]
  <2>1. MergedBlocks(l, r, nleft, nright) = [x \in 0 .. n - 1 |-> v(x)]
    BY DEF MergedBlocks, PlaceLeft, PlaceRight
  <2> HIDE DEF v, k
  <2>2. MergedBlocks(l, r, nleft, nright)[k] = v(k)
    BY <1>1, <2>1
  <2>3. QED
    BY <2>2 DEF v
<1>4. /\ \A i \in 0 .. nleft - 1 : L(i) \in Int
      /\ \A j \in 0 .. nright - 1 : R(j) \in Int
  <2>1. \A i \in 0 .. nleft - 1 : L(i) \in 0 .. nleft + nright - 1
    BY PlacesApart
  <2>2. \A j \in 0 .. nright - 1 : R(j) \in 0 .. nleft + nright - 1
    BY PlacesApart
  <2> HIDE DEF L, R
  <2>3. QED
    BY <2>1, <2>2
<1>5. \A i, j \in 0 .. nleft - 1 : i < j => L(i) < L(j)
  BY PlacesApart
<1>6. \A i, j \in 0 .. nright - 1 : i < j => R(i) < R(j)
  BY PlacesApart
<1>7. ASSUME NEW i \in 0 .. nleft - 1, NEW j \in 0 .. nright - 1 PROVE L(i) # R(j)
  <2>1. IF LeftFirst(l, r, i, j) THEN L(i) < R(j) ELSE R(j) < L(i)
    BY PlacesApart
  <2> HIDE DEF L, R
  <2>2. QED
    BY <1>4, <2>1
<1> HIDE DEF k, L, R
<1>8. CASE h < nleft
  <2>1. h \in 0 .. nleft - 1 /\ L(h) = k
    BY <1>2, <1>8
  <2>2. \A i \in 0 .. nleft - 1 : L(i) = k => i = h
    BY <1>4, <1>5, <2>1
  <2>3. (CHOOSE i \in 0 .. nleft - 1 : L(i) = k) = h
    BY <2>1, <2>2
  <2>4. QED
    BY <1>3, <1>8, <2>1, <2>3 DEF k
<1>9. CASE ~(h < nleft)
  <2>1. h - nleft \in 0 .. nright - 1 /\ R(h - nleft) = k
    BY <1>2, <1>9
  <2>2. \A j \in 0 .. nright - 1 : R(j) = k => j = h - nleft
    BY <1>4, <1>6, <2>1
  <2>3. (CHOOSE j \in 0 .. nright - 1 : R(j) = k) = h - nleft
    BY <2>1, <2>2
  <2>4. ~\E i \in 0 .. nleft - 1 : L(i) = k
    BY <1>7, <2>1
  <2>5. QED
    BY <1>3, <1>9, <2>3, <2>4 DEF k
<1>10. QED
  BY <1>8, <1>9

\* merge_blocks() keeps all records, and if both blocks are in order, so is what it makes.
LEMMA MergedSorts ==
  ASSUME NEW f, NEW from \in Int, NEW nleft \in Nat, NEW nright \in Nat,
         \A i \in Span(from, nleft + nright) : f[i] \in Marks
  PROVE  LET a == Merged(f, from, nleft, nright)
         IN /\ SameMarks(f, from, nleft + nright, a)
            /\ InOrder(f, from, nleft) /\ InOrder(f, from + nleft, nright)
                 => InOrder(a, 0, nleft + nright)
<1>1. PICK n \in Nat : n = nleft + nright
  OBVIOUS
<1>2. PICK l, r : /\ l = [k \in 0 .. nleft - 1 |-> f[from + k]]
                  /\ r = [k \in 0 .. nright - 1 |-> f[from + nleft + k]]
  OBVIOUS
<1>3. PICK a, g : a = MergedBlocks(l, r, nleft, nright) /\ g = PlaceOf(l, r, nleft, nright)
  OBVIOUS
<1>4. \A i \in Span(from, n) : f[i] \in Int /\ f[i] \in Marks
  BY <1>1, FileAssumption
<1>5. \A i \in 0 .. nleft - 1 : l[i] \in Int /\ l[i] = f[from + i]
  <2> SUFFICES ASSUME NEW i \in 0 .. nleft - 1
               PROVE  l[i] \in Int /\ l[i] = f[from + i]
    OBVIOUS
  <2>1. from + i \in Span(from, n)
    BY <1>1 DEF Span
  <2>2. QED
    BY <1>4, <1>2, <2>1
<1>6. \A j \in 0 .. nright - 1 : r[j] \in Int /\ r[j] = f[from + nleft + j]
  <2> SUFFICES ASSUME NEW j \in 0 .. nright - 1
               PROVE  r[j] \in Int /\ r[j] = f[from + nleft + j]
    OBVIOUS
  <2>1. from + nleft + j \in Span(from, n)
    BY <1>1 DEF Span
  <2>2. QED
    BY <1>4, <1>2, <2>1
<1>7. l \in [0 .. nleft - 1 -> Int] /\ r \in [0 .. nright - 1 -> Int]
  BY <1>5, <1>6, <1>2
<1>8. /\ \A i \in 0 .. nleft - 1 : l[i] \in Int
      /\ \A j \in 0 .. nright - 1 : r[j] \in Int
  BY <1>5, <1>6
<1>9. a = [k \in 0 .. n - 1 |-> a[k]]
  BY <1>1, <1>3 DEF MergedBlocks
<1>10. Merged(f, from, nleft, nright) = a
  BY <1>3, <1>2 DEF Merged
<1>11. \A h \in 0 .. n - 1 : h < nleft \/ h - nleft \in 0 .. nright - 1
  BY <1>1
<1>12. /\ g \in [0 .. n - 1 -> 0 .. n - 1]
       /\ \A h, k \in 0 .. n - 1 : g[h] = g[k] => h = k
       /\ \A k \in 0 .. n - 1 : \E h \in 0 .. n - 1 : g[h] = k
  <2>1. Permutation(PlaceOf(l, r, nleft, nright), n)
    BY <1>1, <1>7, PlaceOfIs
  <2>2. QED
    BY <1>3, <2>1 DEF Permutation
<1>13. ASSUME NEW h \in 0 .. n - 1 PROVE a[g[h]] = f[from + h] /\ f[from + h] \in Marks
  <2>1. a[g[h]] = IF h < nleft THEN l[h] ELSE r[h - nleft]
    <3>1. h \in 0 .. nleft + nright - 1
      BY <1>1
    <3>2. MergedBlocks(l, r, nleft, nright)[PlaceOf(l, r, nleft, nright)[h]]
            = IF h < nleft THEN l[h] ELSE r[h - nleft]
      BY <1>7, <3>1, MergedBlocksIs
    <3>3. QED
      BY <1>3, <3>2
  <2>2. from + h \in Span(from, n) /\ from + nleft + (h - nleft) = from + h
    BY DEF Span
  <2>3. QED
    BY <1>4, <1>5, <1>6, <1>11, <2>1, <2>2
<1>14. ASSUME InOrder(f, from, nleft), InOrder(f, from + nleft, nright),
             NEW h \in 0 .. n - 1, NEW k \in 0 .. n - 1, g[h] < g[k]
      PROVE  f[from + h] <= f[from + k]
  <2>1. CASE h < nleft /\ k < nleft
    <3>1. /\ h \in 0 .. nleft - 1 /\ g[h] = PlaceLeft(l, r, nright, h)
          /\ k \in 0 .. nleft - 1 /\ g[k] = PlaceLeft(l, r, nright, k)
      BY <1>1, <1>3, <2>1 DEF PlaceOf
    <3>2. ~(k < h)
      <4>1. k < h => PlaceLeft(l, r, nright, k) < PlaceLeft(l, r, nright, h)
        BY <1>7, <3>1, PlacesApart
      <4>2. PICK x \in 0 .. n - 1, y \in 0 .. n - 1 : x = g[h] /\ y = g[k]
        BY <1>12
      <4>3. x < y /\ (k < h => y < x)
        BY <1>14, <3>1, <4>1, <4>2
      <4>4. QED
        BY <4>3
    <3>3. h < k
      BY <1>12, <1>14, <3>2
    <3>4. from + h \in Span(from, nleft) /\ from + k \in Span(from, nleft) /\ from + h < from + k
      BY <3>1, <3>3 DEF Span
    <3>5. QED
      BY <1>14, <3>4 DEF InOrder
  <2>2. CASE ~(h < nleft) /\ ~(k < nleft)
    <3> DEFINE i == h - nleft  j == k - nleft
    <3>1. /\ i \in 0 .. nright - 1 /\ g[h] = PlaceRight(l, r, nleft, i)
          /\ j \in 0 .. nright - 1 /\ g[k] = PlaceRight(l, r, nleft, j)
      BY <1>1, <1>3, <2>2 DEF PlaceOf
    <3>2. i + nleft = h /\ j + nleft = k
      OBVIOUS
    <3> HIDE DEF i, j
    <3>3. ~(j < i)
      <4>1. j < i => PlaceRight(l, r, nleft, j) < PlaceRight(l, r, nleft, i)
        BY <1>7, <3>1, PlacesApart
      <4>2. PICK x \in 0 .. n - 1, y \in 0 .. n - 1 : x = g[h] /\ y = g[k]
        BY <1>12
      <4>3. x < y /\ (j < i => y < x)
        BY <1>14, <3>1, <4>1, <4>2
      <4>4. QED
        BY <4>3
    <3>4. i < j
      BY <1>12, <1>14, <3>1, <3>3
    <3>5. /\ from + nleft + i \in Span(from + nleft, nright)
          /\ from + nleft + j \in Span(from + nleft, nright)
          /\ from + nleft + i < from + nleft + j
          /\ from + h = from + nleft + i /\ from + k = from + nleft + j
      BY <3>1, <3>4, <3>2 DEF Span
    <3>6. QED
      BY <1>14, <3>5 DEF InOrder
  <2>3. ASSUME NEW i \in 0 .. nleft - 1, NEW j \in 0 .. nright - 1
        PROVE  /\ PlaceLeft(l, r, nright, i) < PlaceRight(l, r, nleft, j) => l[i] <= r[j]
               /\ PlaceRight(l, r, nleft, j) < PlaceLeft(l, r, nright, i) => r[j] <= l[i]
    <3>1. Latest(l, i) = l[i]
      <4>1. i \in 0 .. i
        OBVIOUS
      <4>2. InOrder(l, 0, nleft)
        BY <1>5, <1>14 DEF InOrder, Span
      <4>3. QED
        BY <1>8, <4>1, <4>2, LatestGrows
    <3>2. Latest(r, j) = r[j]
      <4>1. j \in 0 .. j
        OBVIOUS
      <4>2. InOrder(r, 0, nright)
        BY <1>6, <1>14 DEF InOrder, Span
      <4>3. QED
        BY <1>8, <4>1, <4>2, LatestGrows
    <3>3. IF LeftFirst(l, r, i, j)
            THEN PlaceLeft(l, r, nright, i) < PlaceRight(l, r, nleft, j)
            ELSE PlaceRight(l, r, nleft, j) < PlaceLeft(l, r, nright, i)
      BY <1>7, PlacesApart
    <3>4. PlaceLeft(l, r, nright, i) \in 0 .. nleft + nright - 1
      BY <1>7, PlacesApart
    <3>5. PlaceRight(l, r, nleft, j) \in 0 .. nleft + nright - 1
      BY <1>7, PlacesApart
    <3>6. LeftFirst(l, r, i, j) <=> l[i] <= r[j]
      BY <3>1, <3>2 DEF LeftFirst
    <3>7. l[i] \in Int /\ r[j] \in Int
      BY <1>5, <1>6
    <3>8. QED
      BY <3>3, <3>4, <3>5, <3>6, <3>7
  <2>4. CASE h < nleft /\ ~(k < nleft)
    <3> DEFINE j == k - nleft
    <3>1. h \in 0 .. nleft - 1 /\ j \in 0 .. nright - 1 /\ from + nleft + j = from + k
          /\ g[h] = PlaceLeft(l, r, nright, h) /\ g[k] = PlaceRight(l, r, nleft, j)
      BY <1>1, <1>3, <2>4 DEF PlaceOf
    <3> HIDE DEF j
    <3>2. l[h] <= r[j]
      BY <1>14, <2>3, <3>1
    <3>3. QED
      BY <1>5, <1>6, <3>1, <3>2
  <2>5. CASE ~(h < nleft) /\ k < nleft
    <3> DEFINE j == h - nleft
    <3>1. k \in 0 .. nleft - 1 /\ j \in 0 .. nright - 1 /\ from + nleft + j = from + h
          /\ g[k] = PlaceLeft(l, r, nright, k) /\ g[h] = PlaceRight(l, r, nleft, j)
      BY <1>1, <1>3, <2>5 DEF PlaceOf
    <3> HIDE DEF j
    <3>2. r[j] <= l[k]
      BY <1>14, <2>3, <3>1
    <3>3. QED
      BY <1>5, <1>6, <3>1, <3>2
  <2>6. QED
    BY <2>1, <2>2, <2>4, <2>5
<1>15. a \in [0 .. n - 1 -> Marks]
  <2>1. \A k \in 0 .. n - 1 : a[k] \in Marks
    BY <1>12, <1>13
  <2>2. QED
    BY <1>9, <2>1
<1>16. ASSUME NEW m \in Marks
      PROVE  Cardinality(With(a, 0, n, m)) = Cardinality(With(f, from, n, m))
  <2> DEFINE S == With(f, from, n, m)
             T == With(a, 0, n, m)
             p == [i \in S |-> g[i - from]]
  <2>1. \A i \in S : i - from \in 0 .. n - 1 /\ from + (i - from) = i /\ f[i] = m
    BY DEF With, Span
  <2>2. p \in [S -> T]
    <3>1. ASSUME NEW i \in S PROVE g[i - from] \in T
      <4>1. g[i - from] \in 0 .. n - 1 /\ a[g[i - from]] = m
        <5>1. i - from \in 0 .. n - 1 /\ f[from + (i - from)] = m
          BY <2>1
        <5>2. QED
          BY <1>12, <1>13, <5>1
      <4>2. QED
        BY <4>1 DEF With, Span
    <3> HIDE DEF S, T
    <3>2. QED
      BY <3>1
  <2>3. \A x, y \in S : p[x] = p[y] => x = y
    <3> HIDE DEF S, T
    <3>1. \A x \in S : x - from \in 0 .. n - 1 /\ from + (x - from) = x
      BY <2>1
    <3>2. QED
      BY <1>12, <3>1
  <2>4. ASSUME NEW z \in T PROVE \E x \in S : p[x] = z
    <3>1. z \in 0 .. n - 1 /\ a[z] = m
      BY DEF With, Span
    <3>2. PICK h \in 0 .. n - 1 : g[h] = z
      BY <1>12, <3>1
    <3>3. from + h \in S /\ (from + h) - from = h
      BY <1>13, <3>1, <3>2 DEF With, Span
    <3>4. QED
      BY <3>2, <3>3
  <2>5. IsFiniteSet(S)
    <3>1. S \in SUBSET Span(from, n)
      BY DEF With
    <3>2. QED
      BY <3>1, FinitePart
  <2> HIDE DEF S, T, p
  <2>6. QED
    BY <2>2, <2>3, <2>4, <2>5, PairedOff DEF S, T
<1>17. ASSUME InOrder(f, from, nleft), InOrder(f, from + nleft, nright)
       PROVE  InOrder(a, 0, n)
  <2> SUFFICES ASSUME NEW i \in 0 .. n - 1, NEW j \in 0 .. n - 1, i < j PROVE a[i] <= a[j]
    BY <1>1 DEF InOrder, Span
  <2>1. PICK h \in 0 .. n - 1, k \in 0 .. n - 1 : g[h] = i /\ g[k] = j
    BY <1>12
  <2>2. QED
    BY <1>13, <1>14, <1>17, <2>1
<1>18. QED
  BY <1>1, <1>10, <1>15, <1>16, <1>17 DEF SameMarks

-----------------------------------------------------------------------------
(***************************************************************************)
(* Writing records back.                                                   *)
(***************************************************************************)
FilePlaces == 0 .. RECORDS - 1

\* FileSort counts as this module does.
LEMMA SameCounting == \A S : Sorter!Cardinality(S) = Cardinality(S)
BY DEF Sorter!Cardinality, Cardinality

\* If the records that are written are those that were there, the file is rearranged.
LEMMA Replaced ==
  ASSUME NEW f \in [FilePlaces -> Marks], NEW from \in Nat, NEW n \in Nat,
         from + n <= RECORDS, NEW a, SameMarks(f, from, n, a),
         NEW g, g = Replace(f, from, n, a)
  PROVE  /\ g \in [FilePlaces -> Marks]
         /\ Sorter!Rearranged(f, g)
         /\ \A i \in FilePlaces : i \notin Span(from, n) => g[i] = f[i]
         /\ \A i \in Span(from, n) : i - from \in 0 .. n - 1 /\ g[i] = a[i - from]
<1>1. /\ DOMAIN f = FilePlaces /\ Span(from, n) \subseteq FilePlaces
      /\ a \in [0 .. n - 1 -> Marks]
  BY FileAssumption DEF FilePlaces, Span, SameMarks
<1>2. g = [i \in FilePlaces |-> IF i \in Span(from, n) THEN a[i - from] ELSE f[i]]
  BY <1>1 DEF Replace, Span
<1>3. \A i \in Span(from, n) : i - from \in 0 .. n - 1 /\ from + (i - from) = i
  BY DEF Span
<1>4. /\ \A i \in FilePlaces : i \notin Span(from, n) => g[i] = f[i]
      /\ \A i \in Span(from, n) : g[i] = a[i - from]
  BY <1>1, <1>2
<1>5. g \in [FilePlaces -> Marks]
  <2>1. \A i \in FilePlaces : g[i] \in Marks
    BY <1>1, <1>3, <1>4
  <2>2. QED
    BY <1>2, <2>1
<1>6. ASSUME NEW m \in Marks
      PROVE  Cardinality(Sorter!Holding(f, m)) = Cardinality(Sorter!Holding(g, m))
  <2> DEFINE A == With(a, 0, n, m)
             F == With(f, from, n, m)
             G == With(g, from, n, m)
             Out == {i \in FilePlaces \ Span(from, n) : f[i] = m}
             p == [k \in A |-> from + k]
  <2>1. Cardinality(A) = Cardinality(F)
    BY DEF SameMarks
  <2>2. Cardinality(G) = Cardinality(A)
    <3>1. \A k \in A : k \in 0 .. n - 1 /\ a[k] = m
      BY DEF With, Span
    <3>2. \A k \in A : from + k \in G
      <4> SUFFICES ASSUME NEW k \in A PROVE from + k \in G
        OBVIOUS
      <4>1. from + k \in Span(from, n) /\ (from + k) - from = k
        BY <3>1 DEF Span
      <4>2. QED
        BY <1>4, <3>1, <4>1 DEF With
    <3>3. \A z \in G : z - from \in A /\ from + (z - from) = z
      BY <1>3, <1>4 DEF With, Span
    <3>4. IsFiniteSet(A)
      <4>1. A \in SUBSET Span(0, n)
        BY DEF With
      <4>2. QED
        BY <4>1, FinitePart
    <3> HIDE DEF A, G
    <3>5. p \in [A -> G]
      BY <3>2
    <3>6. /\ \A x, y \in A : p[x] = p[y] => x = y
          /\ \A z \in G : \E x \in A : p[x] = z
      BY <3>1, <3>3
    <3> HIDE DEF p
    <3>7. QED
      BY <3>4, <3>5, <3>6, PairedOff
  <2>3. /\ Sorter!Holding(f, m) = F \cup Out /\ F \cap Out = {}
        /\ Sorter!Holding(g, m) = G \cup Out /\ G \cap Out = {}
    BY <1>1, <1>4 DEF Sorter!Holding, With, FilePlaces
  <2>4. IsFiniteSet(F) /\ IsFiniteSet(G) /\ IsFiniteSet(Out)
    <3>1. F \in SUBSET Span(from, n) /\ G \in SUBSET Span(from, n)
      BY DEF With
    <3>2. Out \in SUBSET Span(0, RECORDS)
      BY FileAssumption DEF FilePlaces, Span
    <3> HIDE DEF F, G, Out
    <3>3. IsFiniteSet(F)
      BY <3>1, FinitePart
    <3>4. IsFiniteSet(G)
      BY <3>1, FinitePart
    <3>5. IsFiniteSet(Out)
      BY <3>2, FileAssumption, FinitePart
    <3>6. QED
      BY <3>3, <3>4, <3>5
  <2> HIDE DEF A, F, G, Out
  <2>5. /\ Cardinality(F \cup Out) = Cardinality(F) + Cardinality(Out) - Cardinality(F \cap Out)
        /\ Cardinality(G \cup Out) = Cardinality(G) + Cardinality(Out) - Cardinality(G \cap Out)
    BY <2>4, FS_Union
  <2>6. QED
    BY <2>1, <2>2, <2>3, <2>5
<1>7. Sorter!Rearranged(f, g)
  BY <1>6, SameCounting DEF Sorter!Rearranged
<1>8. QED
  BY <1>3, <1>4, <1>5, <1>7

\* Records that are written in order are in order in the file.
LEMMA WrittenInOrder ==
  ASSUME NEW from \in Int, NEW n \in Nat, NEW a, NEW g, InOrder(a, 0, n),
         \A i \in Span(from, n) : i - from \in 0 .. n - 1 /\ g[i] = a[i - from]
  PROVE  InOrder(g, from, n)
<1> SUFFICES ASSUME NEW i \in Span(from, n), NEW j \in Span(from, n), i < j
             PROVE  g[i] <= g[j]
  BY DEF InOrder
<1>1. i - from \in Span(0, n) /\ j - from \in Span(0, n) /\ i - from < j - from
  BY DEF Span
<1>2. QED
  BY <1>1 DEF InOrder

\* Order looks at the records only, and part of what is in order is in order.
LEMMA OrderOfPart ==
  ASSUME NEW f, NEW g, NEW from \in Int, NEW n \in Nat, NEW at \in Int, NEW w \in Nat,
         Span(at, w) \subseteq Span(from, n), \A i \in Span(at, w) : g[i] = f[i],
         InOrder(f, from, n)
  PROVE  InOrder(g, at, w)
BY DEF InOrder

\* So do qsort() and merge_blocks().
LEMMA SameWork ==
  ASSUME NEW f, NEW g, NEW from \in Int, NEW n \in Nat
  PROVE  /\ (\A i \in Span(from, n) : g[i] = f[i] /\ f[i] \in Int) =>
              QSorted(g, from, n) = QSorted(f, from, n)
         /\ (\A i \in Span(from, 2 * n) : g[i] = f[i]) =>
              Merged(g, from, n, n) = Merged(f, from, n, n)
<1>1. ASSUME \A i \in Span(from, n) : g[i] = f[i] /\ f[i] \in Int
      PROVE  QSorted(g, from, n) = QSorted(f, from, n)
  <2>1. /\ MarksOf(g, from, n) = MarksOf(f, from, n)
        /\ \A m : /\ Below(g, from, n, m) = Below(f, from, n, m)
                  /\ UpTo(g, from, n, m) = UpTo(f, from, n, m)
    BY <1>1 DEF MarksOf, Below, UpTo
  <2>2. ASSUME NEW k \in 0 .. n - 1 PROVE QSorted(g, from, n)[k] = QSorted(f, from, n)[k]
    <3>1. PICK m \in MarksOf(g, from, n) : m = QSorted(g, from, n)[k]
      BY <1>1, QSortedIs
    <3>2. Cardinality(Below(g, from, n, m)) <= k /\ k < Cardinality(UpTo(g, from, n, m))
      BY <1>1, <3>1, QSortedIs
    <3>3. m \in MarksOf(f, from, n)
      BY <2>1, <3>1
    <3>4. Cardinality(Below(f, from, n, m)) <= k /\ k < Cardinality(UpTo(f, from, n, m))
      BY <2>1, <3>2
    <3>5. QED
      BY <1>1, <3>1, <3>3, <3>4, QSortedIs
  <2>3. QED
    BY <2>2, QSortedArray
<1>2. ASSUME \A i \in Span(from, 2 * n) : g[i] = f[i] PROVE Merged(g, from, n, n) = Merged(f, from, n, n)
  <2>1. [k \in 0 .. n - 1 |-> g[from + k]] = [k \in 0 .. n - 1 |-> f[from + k]]
    BY <1>2 DEF Span
  <2>2. [k \in 0 .. n - 1 |-> g[from + n + k]] = [k \in 0 .. n - 1 |-> f[from + n + k]]
    BY <1>2 DEF Span
  <2>3. QED
    BY <2>1, <2>2 DEF Merged
<1>3. QED
  BY <1>1, <1>2

-----------------------------------------------------------------------------
(***************************************************************************)
(* The invariant of the sorting.  A block that has been handed out and is  *)
(* in nobody's hands is in order (Pieces), and what a thread has in hand   *)
(* still is what the file gives (InHand), because nobody else writes       *)
(* there.  Runs that are in order lie end to end, from the start of the    *)
(* file to the portion (Chained).                                          *)
(***************************************************************************)

\* What TypeOK and PoolInv leave open of the portion and of the threads.
Bounds ==
  /\ main \in {"create", "join", "destroy", "sync"} => current_offset + portion_recs <= RECORDS
  /\ main = "create" => /\ created < THREADS
                        /\ \A t \in Threads : t > created => pc[t] = "none"

\* Blocks are handed out as they are taken, until none is left.
Aligned ==
  /\ main \in {"create", "join", "destroy"} => g_next_block % Step = 0 /\ g_next_block <= g_block_count
  /\ \A t \in Threads : Busy(t) => block[t] % Step = 0
  /\ \A t \in Threads : pc[t] \in {"leave", "wait_leave", "ended"} =>
       g_next_block + Step > g_block_count

InHand ==
  /\ DOMAIN tmp = Threads
  /\ \A t \in Threads : pc[t] = "copy" =>
       tmp[t] = IF phase = "sort" THEN QSorted(file, Start(t), g_block_size)
                                  ELSE Merged(file, Start(t), g_block_size, g_block_size)

\* The records from block b on.
From(b) == current_offset + b * g_block_size

Pieces ==
  main \in {"create", "join", "destroy"} =>
    /\ \A b \in 0 .. g_block_count :
         /\ b % Step = 0 /\ b + Step <= g_next_block
         /\ \A t \in Threads : Busy(t) => block[t] # b
         => InOrder(file, From(b), Length)
    /\ phase = "merge" =>
         \A b \in 0 .. g_block_count - 1 : InOrder(file, From(b), g_block_size)

\* The runs of s lie end to end, in the file from `from' to `to'.
End(run) == run.offset + run.nrecords
Chained(s, from, to) ==
  /\ s \in Seq(Run) /\ from \in Nat /\ to \in Nat
  /\ \A i \in 1 .. Len(s) : from <= s[i].offset /\ End(s[i]) <= to
  /\ \A i, j \in 1 .. Len(s) : i < j => End(s[i]) <= s[j].offset
  /\ \A i \in 1 .. Len(s) - 1 : End(s[i]) = s[i + 1].offset
  /\ IF s = <<>> THEN from = to ELSE s[1].offset = from /\ End(s[Len(s)]) = to

RunsInOrder(f, s) == \A i \in 1 .. Len(s) : InOrder(f, s[i].offset, s[i].nrecords)

RunsKept ==
  /\ \E middle \in Nat : Chained(new_runs, 0, middle) /\ Chained(runs, middle, current_offset)
  /\ RunsInOrder(file, new_runs) /\ RunsInOrder(file, runs)
  /\ main \notin {"external", "failed"} => new_runs = <<>>
  /\ main = "external" => current_offset = RECORDS

\* What the main thread relies on: the portion is in order when it becomes a run, and
\* the file when it says so.
Relied ==
  /\ main = "sync" => InOrder(file, current_offset, portion_recs)
  /\ main = "done" => InOrder(file, 0, RECORDS)

Order == TypeOK /\ Bounds /\ Aligned /\ InHand /\ Pieces /\ RunsKept /\ Relied

SortInv == PoolInv /\ Order

\* It holds when the program starts.
LEMMA InitOrder == Init => Order
<1> SUFFICES ASSUME Init PROVE Order
  OBVIOUS
<1> USE DEF Init
<1>1. TypeOK
  <2>1. /\ file \in [0 .. RECORDS - 1 -> Marks] /\ current_offset \in 0 .. RECORDS
        /\ portion_recs \in 0 .. PORTION /\ g_block_size \in 0 .. PORTION
    BY FileAssumption
  <2>2. /\ created \in 0 .. THREADS /\ g_block_count \in 1 .. BLOCKS /\ g_next_block \in 0 .. BLOCKS
        /\ pc \in [Threads -> Labels] /\ block \in [Threads -> -1 .. BLOCKS - 1]
    BY PoolAssumption DEF Labels
  <2>3. runs \in Seq(Run) /\ new_runs \in Seq(Run)
    OBVIOUS
  <2>4. QED
    BY <2>1, <2>2, <2>3 DEF TypeOK
<1>2. Bounds /\ Aligned /\ InHand /\ Pieces
  BY DEF Bounds, Aligned, Busy, InHand, Pieces
<1>3. RunsKept
  <2>1. Chained(<<>>, 0, 0)
    BY DEF Chained
  <2>2. RunsInOrder(file, <<>>)
    BY DEF RunsInOrder
  <2>3. QED
    BY <2>1, <2>2 DEF RunsKept
<1>4. Relied
  BY DEF Relied
<1>5. QED
  BY <1>1, <1>2, <1>3, <1>4 DEF Order

-----------------------------------------------------------------------------
(***************************************************************************)
(* The steps of the threads.                                               *)
(***************************************************************************)

\* While threads work, the main thread waits for them.
LEMMA PoolAtWork ==
  ASSUME PoolInv, NEW t \in Threads, main # "failed", pc[t] # "none"
  PROVE  main \in {"create", "join", "destroy"}
BY DEF PoolInv, Kinds, Quiet

\* Where blocks are: w of them from block b on, and what lies behind them.
LEMMA BlockPlaces ==
  ASSUME SortInv, main \in {"create", "join", "destroy"},
         NEW b \in Nat, NEW w \in Nat, b + w <= g_block_count
  PROVE  /\ From(b) \in Nat /\ w * g_block_size \in Nat /\ current_offset <= From(b)
         /\ From(b) + w * g_block_size <= current_offset + portion_recs
         /\ current_offset + portion_recs <= RECORDS
         /\ \A c \in Nat : b + w <= c => From(b) + w * g_block_size <= From(c)
<1>1. /\ current_offset \in Nat /\ g_block_size \in Nat /\ g_block_count \in Nat
      /\ portion_recs \in Nat
      /\ current_offset + portion_recs <= RECORDS /\ RECORDS \in Nat
      /\ g_block_count * g_block_size = portion_recs
  BY FileAssumption DEF SortInv, Order, Bounds, PoolInv, Kinds, Whole
<1> DEFINE s == g_block_size
<1>2. \A c \in Nat : c * s \in Nat
  BY <1>1
<1>3. \A c \in Nat : b + w <= c => b * s + w * s <= c * s
  BY <1>1, BlocksApart
<1>4. b * s + w * s <= portion_recs
  BY <1>1, <1>3
<1> HIDE DEF s
<1>5. b * s \in Nat /\ w * s \in Nat
  BY <1>2
<1>6. /\ From(b) = current_offset + b * s
      /\ \A c \in Nat : From(c) = current_offset + c * s
  BY DEF From, s
<1>7. QED
  BY <1>1, <1>2, <1>3, <1>4, <1>5, <1>6 DEF s

\* The barriers and the end of the blocks: nobody has more or less in hand.
LEMMA BarrierOrder ==
  ASSUME SortInv, NEW t \in Threads, Enter(t) \/ NoBlockLeft(t) \/ Leave(t)
  PROVE  Order'
<1> USE DEF SortInv, Order
<1>1. /\ UNCHANGED <<file, main, portionVars, poolVars, g_next_block, block, tmp, runVars>>
      /\ pc' \in [Threads -> Labels]
      /\ \A u \in Threads : /\ Busy(u)' <=> Busy(u)
                            /\ pc'[u] = "copy" <=> pc[u] = "copy"
                            /\ pc[u] = "none" => pc'[u] = "none"
      /\ \A u \in Threads : pc'[u] \in {"leave", "wait_leave", "ended"} =>
           pc[u] \in {"leave", "wait_leave", "ended"} \/ ~(g_next_block + Step <= g_block_count)
  <2>1. CASE Enter(t)
    BY <2>1 DEF Enter, Wait, At, PoolInv, Kinds, Labels, Busy
  <2>2. CASE NoBlockLeft(t)
    BY <2>2 DEF NoBlockLeft, Goto, At, PoolInv, Kinds, Labels, Busy
  <2>3. CASE Leave(t)
    BY <2>3 DEF Leave, Wait, At, PoolInv, Kinds, Labels, Busy
  <2>4. QED
    BY <2>1, <2>2, <2>3
<1>2. /\ UNCHANGED <<file, main, current_offset, portion_recs, phase, created, g_block_count>>
      /\ UNCHANGED <<g_block_size, g_next_block, block, tmp, runs, new_runs>>
  BY <1>1 DEF portionVars, poolVars, runVars
<1>3. TypeOK'
  BY <1>1, <1>2 DEF TypeOK
<1>4. Bounds'
  BY <1>1, <1>2 DEF Bounds
<1>5. Aligned'
  <2>1. g_next_block \in Nat /\ g_block_count \in Nat /\ Step \in Nat
    BY DEF PoolInv, Kinds, Step
  <2>2. QED
    BY <1>1, <1>2, <2>1 DEF Aligned, Step
<1>6. InHand'
  BY <1>1, <1>2 DEF InHand, Start
<1>7. Pieces'
  BY <1>1, <1>2 DEF Pieces, From, Length, Step
<1>8. RunsKept' /\ Relied'
  BY <1>2 DEF RunsKept, Relied
<1>9. QED
  BY <1>3, <1>4, <1>5, <1>6, <1>7, <1>8

\* A thread takes the next block, whose order is its business from now on.
LEMMA TakeOrder ==
  ASSUME SortInv, NEW t \in Threads, TakeBlock(t)
  PROVE  Order'
<1> USE DEF SortInv, Order
<1>1. /\ UNCHANGED <<file, main, current_offset, portion_recs, phase, created, g_block_count>>
      /\ UNCHANGED <<g_block_size, tmp, runs, new_runs>>
      /\ main # "failed" /\ pc[t] = "take"
      /\ pc' = [pc EXCEPT ![t] = "work"]
      /\ block' = [block EXCEPT ![t] = g_next_block]
      /\ g_next_block' = g_next_block + Step
      /\ g_next_block + Step <= g_block_count
  BY DEF TakeBlock, At, Goto, portionVars, poolVars, runVars
<1>2. /\ main \in {"create", "join", "destroy"}
      /\ g_next_block \in Nat /\ g_block_count \in Nat /\ BLOCKS \in Nat
      /\ g_block_count <= BLOCKS /\ g_next_block % Step = 0
      /\ pc \in [Threads -> Labels] /\ block \in [Threads -> -1 .. BLOCKS - 1]
      /\ Step \in 1 .. 2 /\ Step' = Step
  <2>1. main \in {"create", "join", "destroy"}
    BY <1>1, PoolAtWork
  <2>2. g_next_block % Step = 0
    BY <2>1 DEF Aligned
  <2>3. /\ g_next_block \in Nat /\ g_block_count \in Nat /\ BLOCKS \in Nat
        /\ g_block_count <= BLOCKS
        /\ pc \in [Threads -> Labels] /\ block \in [Threads -> -1 .. BLOCKS - 1]
    BY PoolAssumption DEF TypeOK
  <2>4. Step \in 1 .. 2 /\ Step' = Step
    BY <1>1 DEF Step
  <2>5. QED
    BY <2>1, <2>2, <2>3, <2>4
<1>3. /\ ~Busy(t) /\ Busy(t)' /\ block'[t] = g_next_block /\ pc'[t] = "work"
      /\ \A u \in Threads \ {t} : pc'[u] = pc[u] /\ block'[u] = block[u] /\ (Busy(u)' <=> Busy(u))
  BY <1>1, <1>2 DEF Busy
<1>4. TypeOK'
  <2>1. pc' \in [Threads -> Labels] /\ block' \in [Threads -> -1 .. BLOCKS - 1]
    BY <1>1, <1>2 DEF Labels
  <2>2. g_next_block' \in 0 .. BLOCKS
    BY <1>1, <1>2
  <2>3. QED
    BY <1>1, <2>1, <2>2 DEF TypeOK
<1>5. Bounds'
  BY <1>1, <1>3 DEF Bounds
<1>6. Aligned'
  <2>1. g_next_block' % Step = 0
    BY <1>1, <1>2
  <2>2. \A u \in Threads : Busy(u)' => block'[u] % Step = 0
    BY <1>2, <1>3 DEF Aligned
  <2>3. \A u \in Threads : pc[u] \notin {"leave", "wait_leave", "ended"}
    BY <1>1, <1>2 DEF Aligned
  <2>4. \A u \in Threads : pc'[u] \notin {"leave", "wait_leave", "ended"}
    BY <1>3, <2>3
  <2>5. QED
    BY <1>1, <1>2, <2>1, <2>2, <2>4 DEF Aligned
<1>7. InHand'
  BY <1>1, <1>3 DEF InHand, Start
<1>8. Pieces'
  <2>1. ASSUME NEW b \in 0 .. g_block_count, b % Step = 0, b + Step <= g_next_block',
               \A u \in Threads : Busy(u)' => block'[u] # b
        PROVE  InOrder(file, From(b), Length)
    <3>1. b # g_next_block
      BY <1>3, <2>1
    <3>2. b + Step <= g_next_block
      BY <1>1, <1>2, <2>1, <3>1
    <3>3. \A u \in Threads : Busy(u) => block[u] # b
      BY <1>3, <2>1
    <3>4. QED
      BY <1>2, <2>1, <3>2, <3>3 DEF Pieces
  <2>2. \A b : From(b)' = From(b)
    BY <1>1 DEF From
  <2>3. Length' = Length
    BY <1>1, <1>2 DEF Length
  <2>4. QED
    BY <1>1, <1>2, <2>1, <2>2, <2>3 DEF Pieces
<1>9. RunsKept' /\ Relied'
  BY <1>1 DEF RunsKept, Relied
<1>10. QED
  BY <1>4, <1>5, <1>6, <1>7, <1>8, <1>9

\* A thread sorts or merges what it has taken.
LEMMA WorkOrder ==
  ASSUME SortInv, NEW t \in Threads, Work(t)
  PROVE  Order'
<1> USE DEF SortInv, Order
<1>1. /\ UNCHANGED <<file, main, current_offset, portion_recs, phase, created, g_block_count>>
      /\ UNCHANGED <<g_block_size, g_next_block, block, runs, new_runs>>
      /\ pc' = [pc EXCEPT ![t] = "copy"] /\ pc[t] = "work"
      /\ tmp' = [tmp EXCEPT ![t] =
                   IF phase = "sort" THEN QSorted(file, Start(t), g_block_size)
                                     ELSE Merged(file, Start(t), g_block_size, g_block_size)]
  BY DEF Work, At, Goto, portionVars, poolVars, runVars
<1>2. pc \in [Threads -> Labels]
  BY DEF TypeOK
<1>3. /\ pc' \in [Threads -> Labels]
      /\ \A u \in Threads : /\ Busy(u)' <=> Busy(u)
                            /\ pc[u] = "none" => pc'[u] = "none"
                            /\ pc'[u] \in {"leave", "wait_leave", "ended"} => pc'[u] = pc[u]
                            /\ u # t => pc'[u] = pc[u]
  BY <1>1, <1>2 DEF Busy, Labels
<1>4. TypeOK' /\ Bounds'
  BY <1>1, <1>3 DEF TypeOK, Bounds
<1>5. Aligned'
  BY <1>1, <1>3 DEF Aligned, Step
<1>6. InHand'
  BY <1>1, <1>3 DEF InHand, Start
<1>7. Pieces'
  BY <1>1, <1>3 DEF Pieces, From, Length, Step
<1>8. RunsKept' /\ Relied'
  BY <1>1 DEF RunsKept, Relied
<1>9. QED
  BY <1>4, <1>5, <1>6, <1>7, <1>8

\* What a thread is about to write: the records it took, in order.
LEMMA HandInOrder ==
  ASSUME SortInv, NEW t \in Threads, main # "failed", pc[t] = "copy"
  PROVE  /\ Start(t) \in Nat /\ Length \in Nat /\ Start(t) + Length <= RECORDS
         /\ Start(t) = From(block[t]) /\ current_offset <= Start(t)
         /\ SameMarks(file, Start(t), Length, tmp[t])
         /\ InOrder(tmp[t], 0, Length)
<1> USE DEF SortInv, Order
<1> DEFINE s == g_block_size
<1>1. main \in {"create", "join", "destroy"}
  BY PoolAtWork
<1>2. /\ block[t] \in Nat /\ Step \in Nat
      /\ block[t] + Step <= g_block_count /\ block[t] + Step <= g_next_block
      /\ block[t] % Step = 0 /\ s \in Nat /\ g_block_count \in Nat
  BY DEF PoolInv, Kinds, Claims, Aligned, Busy, Step
<1>3. Start(t) = From(block[t]) /\ Length = Step * s
  BY DEF Start, From, Length
<1>4. /\ From(block[t]) \in Nat /\ Step * s \in Nat /\ current_offset <= From(block[t])
      /\ From(block[t]) + Step * s <= RECORDS
  <2>1. /\ From(block[t]) \in Nat /\ Step * s \in Nat /\ current_offset <= From(block[t])
        /\ From(block[t]) + Step * s <= current_offset + portion_recs
        /\ current_offset + portion_recs <= RECORDS
    BY <1>1, <1>2, BlockPlaces
  <2>2. /\ current_offset \in Nat /\ portion_recs \in Nat /\ RECORDS \in Nat
    BY FileAssumption DEF PoolInv, Kinds
  <2> HIDE DEF s
  <2>3. QED
    BY <2>1, <2>2
<1> DEFINE a == From(block[t])
<1>5. \A i \in Span(a, Length) : file[i] \in Marks
  <2>1. Span(a, Length) \subseteq 0 .. RECORDS - 1
    <3>1. PICK x \in Nat, y \in Nat : x = a /\ y = Length /\ x + y <= RECORDS
      BY <1>3, <1>4
    <3>2. RECORDS \in Nat
      BY FileAssumption
    <3> HIDE DEF a
    <3>3. QED
      BY <3>1, <3>2 DEF Span
  <2>2. QED
    BY <2>1 DEF TypeOK
<1>6. SameMarks(file, a, Length, tmp[t]) /\ InOrder(tmp[t], 0, Length)
  <2>1. CASE phase = "sort"
    <3>1. Length = s /\ tmp[t] = QSorted(file, a, s)
      BY <1>2, <1>3, <2>1 DEF Step, InHand
    <3>2. a \in Int /\ s \in Nat /\ \A i \in Span(a, s) : file[i] \in Marks
      BY <1>2, <1>4, <1>5, <3>1
    <3> HIDE DEF a, s
    <3>3. QED
      BY <3>1, <3>2, QSortedSorts
  <2>2. CASE phase = "merge"
    <3>1. Length = s + s /\ tmp[t] = Merged(file, a, s, s) /\ Step = 2
      <4>1. tmp[t] = Merged(file, a, s, s) /\ Step = 2
        BY <1>3, <2>2 DEF InHand, Step
      <4>2. Length = 2 * s
        BY <1>3, <4>1
      <4> HIDE DEF s, a
      <4>3. QED
        BY <1>2, <4>1, <4>2
    <3>2. a \in Int /\ s \in Nat /\ \A i \in Span(a, s + s) : file[i] \in Marks
      BY <1>2, <1>4, <1>5, <3>1
    <3>3. InOrder(file, a, s) /\ InOrder(file, a + s, s)
      <4>1. \A b \in 0 .. g_block_count - 1 : InOrder(file, From(b), g_block_size)
        BY <1>1, <2>2 DEF Pieces
      <4>2. block[t] \in 0 .. g_block_count - 1 /\ block[t] + 1 \in 0 .. g_block_count - 1
        BY <1>2, <3>1
      <4>3. From(block[t] + 1) = From(block[t]) + s
        <5>1. current_offset \in Nat
          BY DEF PoolInv, Kinds
        <5>2. PICK b \in Nat : b = block[t]
          BY <1>2
        <5>3. (b + 1) * s = b * s + s /\ b * s \in Nat
          BY <1>2
        <5>4. QED
          BY <1>2, <5>1, <5>2, <5>3 DEF From
      <4>4. QED
        BY <4>1, <4>2, <4>3
    <3> HIDE DEF a, s
    <3>4. QED
      BY <3>1, <3>2, <3>3, MergedSorts
  <2>3. QED
    BY <2>1, <2>2 DEF PoolInv, Kinds
<1>7. QED
  BY <1>3, <1>4, <1>6

\* A thread writes its records back: they are rearranged, they are in order now, and
\* all others are as they were.
LEMMA CopyWrites ==
  ASSUME SortInv, NEW t \in Threads, Copy(t)
  PROVE  /\ file' \in [FilePlaces -> Marks]
         /\ Sorter!Rearranged(file, file')
         /\ \A i \in FilePlaces : i \notin Span(Start(t), Length) => file'[i] = file[i]
         /\ InOrder(file', Start(t), Length)
<1>1. main # "failed" /\ pc[t] = "copy" /\ file' = Replace(file, Start(t), Length, tmp[t])
  BY DEF Copy, At
<1>2. /\ Start(t) \in Nat /\ Length \in Nat /\ Start(t) + Length <= RECORDS
      /\ SameMarks(file, Start(t), Length, tmp[t])
      /\ InOrder(tmp[t], 0, Length)
  BY <1>1, HandInOrder
<1>3. file \in [FilePlaces -> Marks]
  BY DEF SortInv, Order, TypeOK, FilePlaces
<1>4. /\ file' \in [FilePlaces -> Marks]
      /\ Sorter!Rearranged(file, file')
      /\ \A i \in FilePlaces : i \notin Span(Start(t), Length) => file'[i] = file[i]
      /\ \A i \in Span(Start(t), Length) :
           i - Start(t) \in 0 .. Length - 1 /\ file'[i] = tmp[t][i - Start(t)]
  BY <1>1, <1>2, <1>3, Replaced
<1>5. InOrder(file', Start(t), Length)
  BY <1>2, <1>4, WrittenInOrder
<1>6. QED
  BY <1>4, <1>5

\* Records elsewhere in the file keep their order.
LEMMA OrderElsewhere ==
  ASSUME NEW f, NEW g, NEW a \in Nat, NEW w \in Nat,
         \A i \in FilePlaces : i \notin Span(a, w) => g[i] = f[i],
         NEW from \in Nat, NEW n \in Nat, from + n <= RECORDS,
         from + n <= a \/ a + w <= from
  PROVE  /\ \A i \in Span(from, n) : i \in FilePlaces /\ g[i] = f[i]
         /\ InOrder(f, from, n) => InOrder(g, from, n)
<1>1. \A i \in Span(from, n) : i \in FilePlaces /\ i \notin Span(a, w)
  BY FileAssumption DEF Span, FilePlaces
<1>2. \A i \in Span(from, n) : g[i] = f[i]
  BY <1>1
<1>3. QED
  BY <1>1, <1>2 DEF InOrder

\* The block it had in hand is in order from now on.
LEMMA CopyOrder ==
  ASSUME SortInv, NEW t \in Threads, Copy(t)
  PROVE  Order'
<1> DEFINE a == Start(t)  w == Length
<1>1. /\ UNCHANGED <<main, current_offset, portion_recs, phase, created, g_block_count>>
      /\ UNCHANGED <<g_block_size, g_next_block, runs, new_runs>>
      /\ main # "failed" /\ pc[t] = "copy"
      /\ pc' = [pc EXCEPT ![t] = "take"]
      /\ block' = [block EXCEPT ![t] = -1]
      /\ tmp' = [tmp EXCEPT ![t] = <<>>]
  BY DEF Copy, At, Goto, portionVars, poolVars, runVars
<1>2. /\ main \in {"create", "join", "destroy"}
      /\ pc \in [Threads -> Labels] /\ block \in [Threads -> -1 .. BLOCKS - 1] /\ BLOCKS \in Nat
  BY <1>1, PoolAtWork, PoolAssumption DEF SortInv, Order, TypeOK
<1>3. /\ Busy(t) /\ ~Busy(t)' /\ pc'[t] = "take"
      /\ \A u \in Threads \ {t} : /\ pc'[u] = pc[u] /\ block'[u] = block[u] /\ (Busy(u)' <=> Busy(u))
                                  /\ tmp'[u] = tmp[u]
      /\ DOMAIN tmp' = Threads
  BY <1>1, <1>2 DEF Busy, SortInv, Order, InHand
<1>4. /\ file' \in [FilePlaces -> Marks]
      /\ \A i \in FilePlaces : i \notin Span(a, w) => file'[i] = file[i]
      /\ InOrder(file', a, w)
  BY CopyWrites
<1>5. /\ a \in Nat /\ w \in Nat /\ a = From(block[t]) /\ w = Step * g_block_size
      /\ current_offset <= a /\ a + w <= RECORDS
  BY <1>1, HandInOrder DEF Length
<1>6. /\ block[t] \in Nat /\ block[t] + Step <= g_block_count /\ block[t] + Step <= g_next_block
      /\ block[t] % Step = 0
      /\ Step \in 1 .. 2 /\ (Step = 2 <=> phase = "merge")
      /\ g_block_size \in Nat /\ g_block_count \in Nat /\ g_next_block \in Nat
      /\ g_next_block <= g_block_count
  BY <1>2, <1>3 DEF SortInv, Order, PoolInv, Kinds, Claims, Aligned, Step
<1>7. /\ \A b : From(b)' = From(b)
      /\ Length' = Length /\ Step' = Step
  BY <1>1 DEF From, Length, Step
<1> HIDE DEF a, w
<1>8. TypeOK'
  <2>1. file' \in [0 .. RECORDS - 1 -> Marks]
    BY <1>4 DEF FilePlaces
  <2>2. pc' \in [Threads -> Labels] /\ block' \in [Threads -> -1 .. BLOCKS - 1]
    BY <1>1, <1>2, PoolAssumption DEF Labels
  <2>3. QED
    BY <1>1, <2>1, <2>2 DEF SortInv, Order, TypeOK
<1>9. Bounds'
  BY <1>1, <1>3 DEF SortInv, Order, Bounds
<1>10. Aligned'
  BY <1>1, <1>3, <1>7 DEF SortInv, Order, Aligned
<1>11. ASSUME NEW b \in Nat, NEW v \in Nat, b + v <= g_block_count,
              b + v <= block[t] \/ block[t] + Step <= b
       PROVE  /\ \A i \in Span(From(b), v * g_block_size) : i \in FilePlaces /\ file'[i] = file[i]
              /\ InOrder(file, From(b), v * g_block_size) => InOrder(file', From(b), v * g_block_size)
  <2>1. /\ From(b) \in Nat /\ v * g_block_size \in Nat
        /\ From(b) + v * g_block_size <= current_offset + portion_recs
        /\ current_offset + portion_recs <= RECORDS
        /\ b + v <= block[t] => From(b) + v * g_block_size <= a
    BY <1>2, <1>5, <1>6, <1>11, BlockPlaces
  <2>2. block[t] + Step <= b => a + w <= From(b)
    BY <1>2, <1>5, <1>6, <1>11, BlockPlaces
  <2>3. From(b) + v * g_block_size <= RECORDS
    <3>1. PICK x \in Nat : x = v * g_block_size
      BY <2>1
    <3>2. current_offset \in Nat /\ portion_recs \in Nat /\ RECORDS \in Nat
      BY FileAssumption DEF SortInv, PoolInv, Kinds
    <3>3. QED
      BY <2>1, <3>1, <3>2
  <2>4. PICK n \in Nat : n = v * g_block_size
    BY <2>1
  <2>5. From(b) \in Nat /\ From(b) + n <= RECORDS /\ (From(b) + n <= a \/ a + w <= From(b))
    BY <1>11, <2>1, <2>2, <2>3, <2>4
  <2>6. PICK from \in Nat : from = From(b)
    BY <2>5
  <2>7. \A k \in FilePlaces : k \notin Span(a, w) => file'[k] = file[k]
    BY <1>4
  <2>8. from + n <= RECORDS /\ (from + n <= a \/ a + w <= from) /\ a \in Nat /\ w \in Nat
    BY <1>5, <2>5, <2>6
  <2>9. /\ \A i \in Span(from, n) : i \in FilePlaces /\ file'[i] = file[i]
        /\ InOrder(file, from, n) => InOrder(file', from, n)
    BY <2>7, <2>8, OrderElsewhere
  <2>10. QED
    BY <2>4, <2>6, <2>9
<1>12. InHand'
  <2> SUFFICES ASSUME NEW u \in Threads, pc'[u] = "copy"
               PROVE  tmp'[u] = IF phase = "sort" THEN QSorted(file', Start(u), g_block_size)
                                ELSE Merged(file', Start(u), g_block_size, g_block_size)
    <3>1. \A u \in Threads : pc'[u] = "copy" => Start(u)' = Start(u)
      BY <1>1, <1>3 DEF Start
    <3>2. QED
      BY <1>1, <1>3, <3>1 DEF InHand
  <2>1. u # t /\ pc[u] = "copy" /\ Busy(u) /\ tmp'[u] = tmp[u] /\ Start(u) = From(block[u])
    BY <1>3 DEF Busy, Start, From
  <2>2. /\ block[u] \in Nat /\ block[u] + Step <= g_block_count
        /\ block[u] + Step <= block[t] \/ block[t] + Step <= block[u]
    BY <1>3, <2>1 DEF SortInv, PoolInv, Claims
  <2>3. \A i \in Span(Start(u), Step * g_block_size) :
          file'[i] = file[i] /\ i \in FilePlaces
    BY <1>6, <1>11, <2>1, <2>2
  <2>4. \A i \in FilePlaces : file[i] \in Int
    BY FileAssumption DEF SortInv, Order, TypeOK, FilePlaces
  <2>5. Start(u) \in Int
    BY <1>2, <1>6, <2>1, <2>2, BlockPlaces
  <2>6. CASE phase = "sort"
    <3>1. tmp[u] = QSorted(file, Start(u), g_block_size) /\ Step * g_block_size = g_block_size
      BY <1>6, <2>1, <2>6 DEF SortInv, Order, InHand, Step
    <3>2. \A i \in Span(Start(u), g_block_size) : file'[i] = file[i] /\ file[i] \in Int
      BY <2>3, <2>4, <3>1
    <3>3. QSorted(file', Start(u), g_block_size) = tmp[u]
      BY <1>6, <2>5, <3>1, <3>2, SameWork
    <3>4. QED
      BY <2>1, <2>6, <3>3
  <2>7. CASE phase # "sort"
    <3>1. tmp[u] = Merged(file, Start(u), g_block_size, g_block_size) /\ Step = 2
      BY <2>1, <2>7 DEF SortInv, Order, InHand, Step
    <3>2. \A i \in Span(Start(u), 2 * g_block_size) : file'[i] = file[i]
      BY <2>3, <3>1
    <3>3. Merged(file', Start(u), g_block_size, g_block_size) = tmp[u]
      BY <1>6, <2>5, <3>1, <3>2, SameWork
    <3>4. QED
      BY <2>1, <2>7, <3>3
  <2>8. QED
    BY <2>6, <2>7
<1>13. Pieces'
  <2>1. ASSUME NEW b \in 0 .. g_block_count, b % Step = 0, b + Step <= g_next_block,
               \A u \in Threads : Busy(u)' => block'[u] # b
        PROVE  InOrder(file', From(b), Length)
    <3>1. CASE b = block[t]
      BY <1>4, <1>5, <3>1 DEF a, w
    <3>2. CASE b # block[t]
      <4>1. b + Step <= block[t] \/ block[t] + Step <= b
        BY <1>6, <2>1, <3>2
      <4>2. InOrder(file, From(b), Length)
        <5>1. \A u \in Threads : Busy(u) => block[u] # b
          BY <1>3, <2>1, <3>2
        <5>2. QED
          BY <1>2, <2>1, <5>1 DEF SortInv, Order, Pieces
      <4>3. b + Step <= g_block_count /\ b \in Nat /\ Step \in Nat
        BY <1>6, <2>1
      <4>4. QED
        BY <1>11, <4>1, <4>2, <4>3 DEF Length
    <3>3. QED
      BY <3>1, <3>2
  <2>2. ASSUME phase = "merge", NEW b \in 0 .. g_block_count - 1
        PROVE  InOrder(file', From(b), g_block_size)
    <3>1. InOrder(file, From(b), g_block_size) /\ Step = 2
      BY <1>2, <2>2 DEF SortInv, Order, Pieces, Step
    <3>2. From(b) \in Nat
      BY <1>2, <1>6, BlockPlaces
    <3>3. CASE b + 1 <= block[t] \/ block[t] + Step <= b
      <4>1. 1 * g_block_size = g_block_size /\ b + 1 <= g_block_count /\ b \in Nat
        BY <1>6
      <4>2. InOrder(file, From(b), 1 * g_block_size) => InOrder(file', From(b), 1 * g_block_size)
        BY <1>11, <3>3, <4>1
      <4>3. QED
        BY <3>1, <4>1, <4>2
    <3>4. CASE ~(b + 1 <= block[t] \/ block[t] + Step <= b)
      <4>1. b = block[t] \/ b = block[t] + 1
        BY <1>6, <3>1, <3>4
      <4>2. From(block[t] + 1) = a + g_block_size
        <5>1. current_offset \in Nat
          BY DEF SortInv, PoolInv, Kinds
        <5>2. PICK c \in Nat : c = block[t]
          BY <1>6
        <5>3. (c + 1) * g_block_size = c * g_block_size + g_block_size /\ c * g_block_size \in Nat
          BY <1>6
        <5>4. QED
          BY <1>5, <1>6, <5>1, <5>2, <5>3 DEF From
      <4>3. w = g_block_size + g_block_size
        BY <1>5, <1>6, <3>1
      <4>4. Span(From(b), g_block_size) \subseteq Span(a, w)
        BY <1>5, <1>6, <4>1, <4>2, <4>3 DEF Span
      <4>5. QED
        BY <1>4, <1>5, <1>6, <3>2, <4>4, OrderOfPart
    <3>5. QED
      BY <3>3, <3>4
  <2>3. QED
    BY <1>1, <1>7, <2>1, <2>2 DEF Pieces
<1>14. RunsKept'
  <2>1. PICK middle \in Nat : Chained(new_runs, 0, middle) /\ Chained(runs, middle, current_offset)
    BY DEF SortInv, Order, RunsKept
  <2>2. new_runs = <<>> /\ RunsInOrder(file, runs)
    BY <1>2 DEF SortInv, Order, RunsKept
  <2>3. RunsInOrder(file', runs)
    <3> SUFFICES ASSUME NEW i \in 1 .. Len(runs)
                 PROVE  InOrder(file', runs[i].offset, runs[i].nrecords)
      BY DEF RunsInOrder
    <3>1. runs[i] \in Run /\ End(runs[i]) <= current_offset /\ current_offset \in Nat
      BY <2>1 DEF Chained
    <3>2. PICK from \in Nat, n \in Nat : from = runs[i].offset /\ n = runs[i].nrecords
      BY <3>1 DEF Run
    <3>3. from + n <= RECORDS /\ (from + n <= a \/ a + w <= from)
      <4>1. End(runs[i]) = from + n /\ RECORDS \in Nat
        BY <3>2, FileAssumption DEF End
      <4>2. from + n <= current_offset
        BY <3>1, <4>1
      <4>3. QED
        BY <1>5, <3>1, <4>1, <4>2
    <3>4. InOrder(file, from, n)
      BY <2>2, <3>2 DEF RunsInOrder
    <3>5. InOrder(file, from, n) => InOrder(file', from, n)
      <4>1. \A k \in FilePlaces : k \notin Span(a, w) => file'[k] = file[k]
        BY <1>4
      <4>2. a \in Nat /\ w \in Nat
        BY <1>5
      <4>3. QED
        BY <3>3, <4>1, <4>2, OrderElsewhere
    <3>6. QED
      BY <3>2, <3>4, <3>5
  <2>4. RunsInOrder(file', new_runs)
    BY <2>2 DEF RunsInOrder
  <2>5. QED
    BY <1>1, <1>2, <2>1, <2>2, <2>3, <2>4 DEF RunsKept
<1>15. Relied'
  BY <1>1, <1>2 DEF Relied
<1>16. QED
  BY <1>8, <1>9, <1>10, <1>12, <1>13, <1>14, <1>15 DEF Order

-----------------------------------------------------------------------------
(***************************************************************************)
(* The steps of the main thread.                                           *)
(***************************************************************************)

\* A portion begins: no block of it has been handed out.
LEMMA StartOrder ==
  ASSUME SortInv, StartPortion
  PROVE  Order'
<1> USE DEF SortInv, Order
<1> DEFINE n == IF RECORDS - current_offset >= PORTION THEN PORTION ELSE RECORDS - current_offset
<1>1. /\ main = "portion" /\ main' \in {"create", "failed"} /\ current_offset < RECORDS
      /\ portion_recs' = n /\ g_block_size' = n \div g_block_count
      /\ phase' = "sort" /\ created' = 0 /\ g_next_block' = 0
      /\ UNCHANGED <<file, current_offset, g_block_count, pc, block, tmp, runs, new_runs>>
  BY DEF StartPortion, runVars
<1>2. /\ current_offset \in Nat /\ RECORDS \in Nat /\ PORTION \in Nat
      /\ n \in 0 .. PORTION /\ current_offset + n <= RECORDS
  BY <1>1, FileAssumption DEF PoolInv, Kinds
<1> HIDE DEF n
<1>3. \A t \in Threads : pc'[t] = "none" /\ ~Busy(t)'
  BY <1>1 DEF PoolInv, Quiet, Busy
<1>4. TypeOK'
  <2>1. g_block_size' \in 0 .. PORTION
    <3>1. g_block_count \in Nat \ {0}
      BY DEF PoolInv, Kinds
    <3>2. n = g_block_count * (n \div g_block_count) + (n % g_block_count)
          /\ n \div g_block_count \in Nat /\ n % g_block_count \in Nat
      BY <1>2, <3>1
    <3>3. PICK q \in Nat : q = n \div g_block_count
      BY <3>2
    <3>4. 1 * q <= g_block_count * q /\ 1 * q = q /\ g_block_count * q \in Nat
      BY <3>1, TimesMonotone
    <3>5. QED
      BY <1>1, <1>2, <3>2, <3>3, <3>4
  <2>2. created' \in 0 .. THREADS /\ g_next_block' \in 0 .. BLOCKS
    BY <1>1, PoolAssumption
  <2>3. QED
    BY <1>1, <1>2, <2>1, <2>2 DEF TypeOK
<1>5. Bounds'
  BY <1>1, <1>2, <1>3, PoolAssumption DEF Bounds
<1>6. Aligned'
  <2>1. g_block_count \in Nat /\ Step' = 1
    BY <1>1 DEF PoolInv, Kinds, Step
  <2>2. QED
    BY <1>1, <1>3, <2>1 DEF Aligned
<1>7. InHand'
  BY <1>1, <1>3 DEF InHand
<1>8. Pieces'
  <2>1. Step' = 1
    BY <1>1 DEF Step
  <2>2. QED
    BY <1>1, <2>1 DEF Pieces
<1>9. RunsKept'
  BY <1>1 DEF RunsKept
<1>10. Relied'
  BY <1>1 DEF Relied
<1>11. QED
  BY <1>4, <1>5, <1>6, <1>7, <1>8, <1>9, <1>10

\* The thread that is created had not been there.
LEMMA CreateOrder ==
  ASSUME SortInv, CreateThread
  PROVE  Order'
<1> USE DEF SortInv, Order
<1>1. /\ main = "create" /\ main' = IF created + 1 = THREADS THEN "join" ELSE "create"
      /\ created' = created + 1
      /\ pc' = [pc EXCEPT ![created + 1] = IF phase = "sort" THEN "enter" ELSE "take"]
      /\ UNCHANGED <<file, current_offset, portion_recs, phase, g_block_count, g_block_size>>
      /\ UNCHANGED <<g_next_block, block, tmp, runs, new_runs>>
  BY DEF CreateThread, portionVars, runVars
<1>2. /\ created \in Nat /\ created < THREADS /\ THREADS \in Nat
      /\ \A t \in Threads : t > created => pc[t] = "none"
      /\ pc \in [Threads -> Labels]
  BY <1>1, PoolAssumption DEF TypeOK, Bounds
<1>3. created + 1 \in Threads /\ pc[created + 1] = "none"
  BY <1>2 DEF Threads
<1>4. /\ pc' \in [Threads -> Labels]
      /\ \A t \in Threads : /\ Busy(t)' <=> Busy(t)
                            /\ pc'[t] = "copy" <=> pc[t] = "copy"
                            /\ pc'[t] \in {"leave", "wait_leave", "ended"} => pc'[t] = pc[t]
                            /\ t # created + 1 => pc'[t] = pc[t]
  BY <1>1, <1>2, <1>3 DEF Labels, Busy
<1>5. TypeOK'
  <2>1. created' \in 0 .. THREADS /\ main' \in {"create", "join"}
    BY <1>1, <1>2
  <2>2. QED
    BY <1>1, <1>4, <2>1 DEF TypeOK
<1>6. Bounds'
  BY <1>1, <1>2, <1>4 DEF Bounds, Threads
<1>7. Aligned'
  BY <1>1, <1>4 DEF Aligned, Step
<1>8. InHand'
  BY <1>1, <1>4 DEF InHand, Start
<1>9. Pieces'
  BY <1>1, <1>4 DEF Pieces, From, Length, Step
<1>10. RunsKept' /\ Relied'
  BY <1>1 DEF RunsKept, Relied
<1>11. QED
  BY <1>5, <1>6, <1>7, <1>8, <1>9, <1>10

\* When all threads have ended, all blocks are in order: those of the next pass.
LEMMA AllInOrder ==
  ASSUME SortInv, JoinThreads
  PROVE  /\ BlocksNow.count \in 1 .. BLOCKS /\ BlocksNow.size \in 0 .. PORTION
         /\ BlocksNow.count * BlocksNow.size = portion_recs
         /\ \A b \in 0 .. BlocksNow.count - 1 :
              InOrder(file, current_offset + b * BlocksNow.size, BlocksNow.size)
<1> USE DEF SortInv, Order
<1>1. main = "join" /\ \A t \in Threads : pc[t] = "ended" /\ ~Busy(t)
  BY DEF JoinThreads, Busy
<1>2. /\ g_block_count \in Nat \ {0} /\ g_block_size \in Nat /\ g_next_block \in Nat
      /\ g_block_count * g_block_size = portion_recs /\ portion_recs \in 0 .. PORTION
      /\ g_block_count <= BLOCKS /\ BLOCKS \in Nat /\ PORTION \in Nat
      /\ g_next_block % Step = 0 /\ g_next_block <= g_block_count
  BY <1>1, PoolAssumption, FileAssumption DEF PoolInv, Kinds, Whole, TypeOK, Aligned
<1>3. g_next_block + Step > g_block_count
  <2>1. 1 \in Threads
    BY PoolAssumption DEF Threads
  <2>2. QED
    BY <1>1, <2>1 DEF Aligned
<1>4. \A b \in 0 .. g_block_count : b % Step = 0 /\ b + Step <= g_next_block =>
        InOrder(file, From(b), Length)
  BY <1>1 DEF Pieces
<1>5. CASE phase = "sort"
  <2>1. Step = 1 /\ BlocksNow.count = g_block_count /\ BlocksNow.size = g_block_size
    BY <1>5 DEF Step, BlocksNow
  <2>2. g_next_block = g_block_count /\ Length = g_block_size
    BY <1>2, <1>3, <2>1 DEF Length
  <2>3. g_block_size <= portion_recs
    BY <1>2, TimesMonotone, 1 * g_block_size = g_block_size
  <2>4. ASSUME NEW b \in 0 .. g_block_count - 1
        PROVE  InOrder(file, current_offset + b * g_block_size, g_block_size)
    <3>1. b \in 0 .. g_block_count /\ b % Step = 0 /\ b + Step <= g_next_block
      BY <1>2, <2>1, <2>2
    <3>2. QED
      BY <1>4, <2>2, <3>1 DEF From
  <2>5. BlocksNow.count \in 1 .. BLOCKS /\ BlocksNow.size \in 0 .. PORTION
    BY <1>2, <2>1, <2>3
  <2>6. QED
    BY <1>2, <2>1, <2>4, <2>5
<1>6. CASE phase = "merge"
  <2>1. Step = 2 /\ BlocksNow.count = g_block_count \div 2 /\ BlocksNow.size = 2 * g_block_size
    BY <1>6 DEF Step, BlocksNow
  <2>2. g_block_count % 2 = 0 /\ g_block_count > 1
    <3>1. PICK q \in 1 .. BLOCKS : g_block_count * q = BLOCKS
      BY DEF PoolInv, Divided
    <3>2. g_block_count > 1
      BY <1>1, <1>6 DEF PoolInv, Divided
    <3>3. QED
      BY <1>2, <3>1, <3>2, DivisorEven
  <2>3. PICK h \in Nat : h = g_block_count \div 2 /\ g_block_count = 2 * h
    BY <1>2, <2>2
  <2>4. g_next_block = g_block_count /\ Length = 2 * g_block_size
    BY <1>2, <1>3, <2>1, <2>2 DEF Length
  <2>5. h * (2 * g_block_size) = portion_recs
    BY <1>2, <2>2, <2>3, Halved
  <2>6. 2 * g_block_size <= portion_recs
    <3>1. PICK v \in Nat : v = 2 * g_block_size
      BY <1>2
    <3>2. 1 <= h /\ 1 * v = v
      BY <2>2, <2>3
    <3>3. QED
      BY <2>5, <3>1, <3>2, TimesMonotone
  <2>7. ASSUME NEW b \in 0 .. h - 1
        PROVE  InOrder(file, current_offset + b * (2 * g_block_size), 2 * g_block_size)
    <3>1. 2 * b \in 0 .. g_block_count /\ (2 * b) % 2 = 0 /\ 2 * b + 2 <= g_next_block
      BY <2>3, <2>4
    <3>2. InOrder(file, From(2 * b), Length)
      BY <1>4, <2>1, <3>1
    <3>3. From(2 * b) = current_offset + b * (2 * g_block_size)
      <4>1. ASSUME NEW x \in Nat, NEW y \in Nat PROVE (2 * x) * y = x * (2 * y)
        OBVIOUS
      <4>2. QED
        BY <1>2, <4>1 DEF From
    <3>4. QED
      BY <2>4, <3>2, <3>3
  <2>8. h \in 1 .. BLOCKS /\ 2 * g_block_size \in 0 .. PORTION
    BY <1>2, <2>2, <2>3, <2>6
  <2>9. QED
    BY <2>1, <2>3, <2>5, <2>7, <2>8
<1>7. QED
  BY <1>5, <1>6 DEF PoolInv, Kinds

\* So the next pass merges blocks in order, or the portion is in order.
LEMMA JoinOrder ==
  ASSUME SortInv, JoinThreads
  PROVE  Order'
<1> USE DEF SortInv, Order
<1> DEFINE count == BlocksNow.count  size == BlocksNow.size
<1>1. /\ main = "join" /\ g_block_count' = count /\ g_block_size' = size
      /\ pc' = [t \in Threads |-> "none"]
      /\ \/ /\ count > 1 /\ phase' = "merge" /\ created' = 0 /\ g_next_block' = 0
            /\ main' = "create"
         \/ /\ ~(count > 1) /\ main' = "sync" /\ UNCHANGED <<phase, created, g_next_block>>
      /\ UNCHANGED <<file, current_offset, portion_recs, block, tmp, runs, new_runs>>
  BY DEF JoinThreads, portionVars, runVars
<1>2. /\ count \in 1 .. BLOCKS /\ size \in 0 .. PORTION /\ count * size = portion_recs
      /\ \A b \in 0 .. count - 1 : InOrder(file, current_offset + b * size, size)
      /\ BLOCKS \in Nat /\ PORTION \in Nat /\ THREADS \in Nat \ {0}
  BY AllInOrder, PoolAssumption, FileAssumption
<1> HIDE DEF count, size
<1>3. \A t \in Threads : pc'[t] = "none" /\ ~Busy(t)'
  BY <1>1 DEF Busy
<1>4. TypeOK'
  <2>1. /\ created' \in 0 .. THREADS /\ g_next_block' \in 0 .. BLOCKS
        /\ phase' \in {"sort", "merge"} /\ main' \in {"create", "sync"}
    BY <1>1, <1>2 DEF TypeOK
  <2>2. pc' \in [Threads -> Labels]
    BY <1>1 DEF Labels
  <2>3. QED
    BY <1>1, <1>2, <2>1, <2>2 DEF TypeOK
<1>5. Bounds'
  BY <1>1, <1>2, <1>3 DEF Bounds
<1>6. Aligned'
  BY <1>1, <1>2, <1>3 DEF Aligned, Step
<1>7. InHand'
  BY <1>1, <1>3 DEF InHand
<1>8. Pieces'
  <2>1. SUFFICES ASSUME main' = "create" PROVE Pieces'
    BY <1>1 DEF Pieces
  <2>2. phase' = "merge" /\ g_next_block' = 0 /\ Step' = 2
    BY <1>1, <2>1 DEF Step
  <2>3. \A b \in 0 .. g_block_count' - 1 : InOrder(file', From(b)', g_block_size')
    BY <1>1, <1>2 DEF From
  <2>4. \A b \in 0 .. g_block_count' : ~(b + Step' <= g_next_block')
    BY <2>2
  <2>5. QED
    BY <2>3, <2>4 DEF Pieces
<1>9. RunsKept'
  BY <1>1 DEF RunsKept
<1>10. Relied'
  <2>1. ASSUME main' = "sync" PROVE InOrder(file, current_offset, portion_recs)
    <3>1. count = 1
      BY <1>1, <1>2, <2>1
    <3>2. size = portion_recs /\ 0 \in 0 .. count - 1 /\ current_offset + 0 * size = current_offset
      BY <1>2, <3>1 DEF TypeOK
    <3>3. QED
      BY <1>2, <3>2
  <2>2. main' # "done"
    BY <1>1
  <2>3. QED
    BY <1>1, <2>1, <2>2 DEF Relied
<1>11. QED
  BY <1>4, <1>5, <1>6, <1>7, <1>8, <1>9, <1>10

\* A run put behind others, and the runs that are left when the first ones are taken.
LEMMA ChainAppend ==
  ASSUME NEW s, NEW from, NEW to, Chained(s, from, to),
         NEW r \in Run, r.offset = to
  PROVE  Chained(Append(s, r), from, End(r))
<1> DEFINE u == Append(s, r)
<1>1. /\ s \in Seq(Run) /\ from \in Nat /\ to \in Nat /\ Len(s) \in Nat
      /\ r.offset \in Nat /\ r.nrecords \in Nat /\ End(r) \in Nat /\ to <= End(r)
  BY DEF Chained, Run, End
<1>2. /\ u \in Seq(Run) /\ Len(u) = Len(s) + 1 /\ u[Len(s) + 1] = r
      /\ \A i \in 1 .. Len(s) : u[i] = s[i] /\ s[i] \in Run
  BY <1>1
<1> HIDE DEF u
<1>3. \A i \in 1 .. Len(s) : /\ from <= s[i].offset /\ End(s[i]) <= to
                             /\ s[i].offset \in Nat /\ End(s[i]) \in Nat
  <2>1. \A i \in 1 .. Len(s) : from <= s[i].offset /\ End(s[i]) <= to
    BY DEF Chained
  <2>2. \A i \in 1 .. Len(s) : s[i].offset \in Nat /\ s[i].nrecords \in Nat
    BY <1>2 DEF Run
  <2>3. \A i \in 1 .. Len(s) : End(s[i]) \in Nat
    BY <2>2 DEF End
  <2>4. QED
    BY <2>1, <2>2, <2>3
<1>4. from <= to
  <2>1. CASE s = <<>>
    BY <1>1, <2>1 DEF Chained
  <2>2. CASE s # <<>>
    <3>1. 1 \in 1 .. Len(s) /\ s[1] \in Run
      BY <1>1, <2>2
    <3>2. s[1].offset <= End(s[1])
      BY <3>1 DEF End, Run
    <3>3. QED
      BY <1>1, <1>3, <3>1, <3>2
  <2>3. QED
    BY <2>1, <2>2
<1>5. \A i \in 1 .. Len(u) : from <= u[i].offset /\ End(u[i]) <= End(r)
  BY <1>1, <1>2, <1>3, <1>4
<1>6. \A i, j \in 1 .. Len(u) : i < j => End(u[i]) <= u[j].offset
  <2> SUFFICES ASSUME NEW i \in 1 .. Len(u), NEW j \in 1 .. Len(u), i < j
               PROVE  End(u[i]) <= u[j].offset
    OBVIOUS
  <2>1. i \in 1 .. Len(s) /\ u[i] = s[i]
    BY <1>1, <1>2
  <2>2. CASE j = Len(s) + 1
    BY <1>1, <1>2, <1>3, <2>1, <2>2
  <2>3. CASE j # Len(s) + 1
    <3>1. j \in 1 .. Len(s) /\ u[j] = s[j]
      BY <1>1, <1>2, <2>3
    <3>2. QED
      BY <2>1, <3>1 DEF Chained
  <2>4. QED
    BY <2>2, <2>3
<1>7. \A i \in 1 .. Len(u) - 1 : End(u[i]) = u[i + 1].offset
  <2> SUFFICES ASSUME NEW i \in 1 .. Len(s) PROVE End(u[i]) = u[i + 1].offset
    BY <1>1, <1>2
  <2>1. CASE i = Len(s)
    BY <1>1, <1>2, <2>1 DEF Chained
  <2>2. CASE i # Len(s)
    <3>1. i \in 1 .. Len(s) - 1 /\ i + 1 \in 1 .. Len(s)
      BY <1>1, <2>2
    <3>2. QED
      BY <1>2, <3>1 DEF Chained
  <2>3. QED
    BY <2>1, <2>2
<1>8. u # <<>> /\ u[1].offset = from /\ End(u[Len(u)]) = End(r)
  BY <1>1, <1>2 DEF Chained
<1>9. QED
  BY <1>1, <1>2, <1>5, <1>6, <1>7, <1>8 DEF Chained, u

LEMMA ChainRest ==
  ASSUME NEW s, NEW from, NEW to, Chained(s, from, to), NEW d \in 1 .. Len(s)
  PROVE  Chained(SubSeq(s, d + 1, Len(s)), End(s[d]), to)
<1> DEFINE u == SubSeq(s, d + 1, Len(s))
<1>1. /\ s \in Seq(Run) /\ to \in Nat /\ Len(s) \in Nat /\ d \in Nat /\ s[d] \in Run
  BY DEF Chained
<1>2. /\ u \in Seq(Run) /\ Len(u) = Len(s) - d
      /\ \A i \in 1 .. Len(u) : u[i] = s[i + d] /\ i + d \in 1 .. Len(s) /\ d < i + d
  <2>1. u \in Seq(Run)
    BY <1>1
  <2>2. Len(u) = Len(s) - d
    BY <1>1
  <2>3. ASSUME NEW i \in 1 .. Len(u)
        PROVE  u[i] = s[i + d] /\ i + d \in 1 .. Len(s) /\ d < i + d
    BY <1>1
  <2>4. QED
    BY <2>1, <2>2, <2>3
<1>3. End(s[d]) \in Nat
  BY <1>1 DEF Run, End
<1> HIDE DEF u
<1>4. \A i \in 1 .. Len(u) : End(s[d]) <= u[i].offset /\ End(u[i]) <= to
  BY <1>2 DEF Chained
<1>5. \A i, j \in 1 .. Len(u) : i < j => End(u[i]) <= u[j].offset
  <2> SUFFICES ASSUME NEW i \in 1 .. Len(u), NEW j \in 1 .. Len(u), i < j
               PROVE  End(u[i]) <= u[j].offset
    OBVIOUS
  <2>1. i + d \in 1 .. Len(s) /\ j + d \in 1 .. Len(s) /\ i + d < j + d
    BY <1>1, <1>2
  <2>2. QED
    BY <1>2, <2>1 DEF Chained
<1>6. \A i \in 1 .. Len(u) - 1 : End(u[i]) = u[i + 1].offset
  <2> SUFFICES ASSUME NEW i \in 1 .. Len(u) - 1 PROVE End(u[i]) = u[i + 1].offset
    OBVIOUS
  <2>1. /\ i \in 1 .. Len(u) /\ i + 1 \in 1 .. Len(u) /\ i + d \in 1 .. Len(s) - 1
        /\ (i + 1) + d = (i + d) + 1
    BY <1>1, <1>2
  <2>2. End(s[i + d]) = s[(i + d) + 1].offset
    BY <2>1 DEF Chained
  <2>3. QED
    BY <1>2, <2>1, <2>2
<1>7. IF u = <<>> THEN End(s[d]) = to ELSE u[1].offset = End(s[d]) /\ End(u[Len(u)]) = to
  <2>1. s # <<>> /\ End(s[Len(s)]) = to
    <3>1. s # <<>>
      BY <1>1
    <3>2. QED
      BY <3>1 DEF Chained
  <2>2. CASE u = <<>>
    <3>1. d = Len(s)
      BY <1>1, <1>2, <2>2
    <3>2. QED
      BY <2>1, <2>2, <3>1
  <2>3. CASE u # <<>>
    <3>1. Len(u) \in 1 .. Len(u) /\ 1 \in 1 .. Len(u) /\ Len(u) + d = Len(s) /\ d \in 1 .. Len(s) - 1
      BY <1>1, <1>2, <2>3
    <3>2. u[Len(u)] = s[Len(s)] /\ u[1] = s[d + 1]
      BY <1>1, <1>2, <3>1
    <3>3. End(s[d]) = s[d + 1].offset
      BY <3>1 DEF Chained
    <3>4. QED
      BY <2>1, <2>3, <3>2, <3>3
  <2>4. QED
    BY <2>2, <2>3
<1>8. QED
  BY <1>1, <1>2, <1>3, <1>4, <1>5, <1>6, <1>7 DEF Chained, u

\* Outside the pool nobody has anything in hand.
LEMMA NoPool ==
  ASSUME SortInv, main \in {"portion", "sync", "external"},
         main' \in {"portion", "external", "done"},
         UNCHANGED <<poolVars, threadVars>>
  PROVE  Bounds' /\ Aligned' /\ InHand' /\ Pieces'
<1>1. /\ \A t \in Threads : pc'[t] = "none" /\ ~Busy(t)'
      /\ tmp' = tmp /\ main' # "create" /\ main' # "join"
  BY DEF SortInv, PoolInv, Quiet, threadVars, Busy
<1>2. InHand'
  BY <1>1 DEF SortInv, Order, InHand
<1>3. Aligned' /\ Pieces'
  BY <1>1 DEF Aligned, Pieces
<1>4. Bounds'
  BY DEF Bounds
<1>5. QED
  BY <1>2, <1>3, <1>4

\* A run put behind others in order, and one that is the whole file.
LEMMA OrderAppended ==
  ASSUME NEW f, NEW s \in Seq(Run), NEW r \in Run, RunsInOrder(f, s),
         InOrder(f, r.offset, r.nrecords)
  PROVE  RunsInOrder(f, Append(s, r))
<1> DEFINE u == Append(s, r)
<1>1. Len(s) \in Nat /\ Len(u) = Len(s) + 1 /\ u[Len(s) + 1] = r
      /\ \A i \in 1 .. Len(s) : u[i] = s[i]
  OBVIOUS
<1> HIDE DEF u
<1>2. ASSUME NEW i \in 1 .. Len(u) PROVE InOrder(f, u[i].offset, u[i].nrecords)
  <2>1. CASE i = Len(s) + 1
    BY <1>1, <2>1
  <2>2. CASE i # Len(s) + 1
    <3>1. i \in 1 .. Len(s) /\ u[i] = s[i]
      BY <1>1, <2>2
    <3>2. QED
      BY <3>1 DEF RunsInOrder
  <2>3. QED
    BY <2>1, <2>2
<1>3. QED
  BY <1>2 DEF RunsInOrder, u

LEMMA OneRun ==
  ASSUME NEW f, NEW s, NEW to, Chained(s, 0, to), RunsInOrder(f, s), ~(Len(s) > 1)
  PROVE  InOrder(f, 0, to)
<1>1. s \in Seq(Run) /\ to \in Nat
  BY DEF Chained
<1>2. CASE s = <<>>
  <2>1. to = 0
    BY <1>2 DEF Chained
  <2>2. QED
    BY <2>1 DEF InOrder, Span
<1>3. CASE s # <<>>
  <2>1. Len(s) = 1 /\ s[1] \in Run
    <3>1. Len(s) \in Nat /\ Len(s) # 0
      BY <1>1, <1>3
    <3>2. Len(s) = 1
      BY <3>1
    <3>3. QED
      BY <1>1, <3>2
  <2>2. s[1].offset = 0 /\ End(s[1]) = to
    BY <1>3, <2>1 DEF Chained
  <2>3. s[1].nrecords = to
    BY <2>1, <2>2 DEF Run, End
  <2>4. QED
    BY <2>1, <2>2, <2>3 DEF RunsInOrder
<1>4. QED
  BY <1>2, <1>3

\* The portion that has been sorted becomes a run.
LEMMA EndOrder ==
  ASSUME SortInv, EndPortion
  PROVE  Order'
<1> DEFINE r == [offset |-> current_offset, nrecords |-> portion_recs]
<1>1. /\ main = "sync" /\ main' = "portion" /\ runs' = Append(runs, r)
      /\ current_offset' = current_offset + portion_recs
      /\ UNCHANGED <<file, portion_recs, poolVars, threadVars, new_runs>>
  BY DEF EndPortion
<1>2. /\ current_offset \in Nat /\ portion_recs \in Nat /\ current_offset' \in 0 .. RECORDS
  BY <1>1, FileAssumption DEF SortInv, Order, Bounds, TypeOK
<1>3. r \in Run /\ r.offset = current_offset /\ r.nrecords = portion_recs
      /\ End(r) = current_offset'
  BY <1>1, <1>2 DEF Run, End
<1> HIDE DEF r
<1>4. runs \in Seq(Run) /\ runs' \in Seq(Run)
  BY <1>1, <1>3 DEF SortInv, Order, TypeOK
<1>5. TypeOK'
  BY <1>1, <1>2, <1>4 DEF SortInv, Order, TypeOK, poolVars, threadVars
<1>6. RunsKept'
  <2>1. PICK middle \in Nat : Chained(new_runs, 0, middle) /\ Chained(runs, middle, current_offset)
    BY DEF SortInv, Order, RunsKept
  <2>2. Chained(runs', middle, current_offset')
    BY <1>1, <1>3, <2>1, ChainAppend
  <2>3. new_runs = <<>> /\ RunsInOrder(file, new_runs) /\ RunsInOrder(file, runs)
    BY <1>1 DEF SortInv, Order, RunsKept
  <2>4. InOrder(file, r.offset, r.nrecords)
    BY <1>1, <1>3 DEF SortInv, Order, Relied
  <2>5. RunsInOrder(file, runs')
    BY <1>1, <1>3, <1>4, <2>3, <2>4, OrderAppended
  <2>6. QED
    BY <1>1, <2>1, <2>2, <2>3, <2>5 DEF RunsKept
<1>7. Relied'
  BY <1>1 DEF Relied
<1>8. QED
  BY <1>1, <1>5, <1>6, <1>7, NoPool DEF Order

\* All portions are runs; the only one, if there is but one, is the file.
LEMMA PortionsOrder ==
  ASSUME SortInv, AllPortions
  PROVE  Order'
<1>1. /\ main = "portion" /\ main' = IF Len(runs) > 1 THEN "external" ELSE "done"
      /\ current_offset >= RECORDS
      /\ UNCHANGED <<file, current_offset, portion_recs, poolVars, threadVars, runs, new_runs>>
  BY DEF AllPortions, portionVars, runVars
<1>2. current_offset = RECORDS
  BY <1>1, FileAssumption DEF SortInv, Order, TypeOK
<1>3. TypeOK'
  BY <1>1 DEF SortInv, Order, TypeOK, poolVars, threadVars
<1>4. RunsKept'
  BY <1>1, <1>2 DEF SortInv, Order, RunsKept
<1>5. Relied'
  <2>1. PICK middle \in Nat : Chained(new_runs, 0, middle) /\ Chained(runs, middle, current_offset)
    BY DEF SortInv, Order, RunsKept
  <2>2. new_runs = <<>> /\ RunsInOrder(file, runs)
    BY <1>1 DEF SortInv, Order, RunsKept
  <2>3. middle = 0
    BY <2>1, <2>2 DEF Chained
  <2>4. ~(Len(runs) > 1) => InOrder(file, 0, RECORDS)
    BY <1>2, <2>1, <2>2, <2>3, OneRun
  <2>5. QED
    BY <1>1, <2>4 DEF Relied
<1>6. QED
  BY <1>1, <1>3, <1>4, <1>5, NoPool DEF Order

\* Two runs that lie side by side are merged in their place.
LEMMA MergeWrites ==
  ASSUME SortInv, MergeRuns
  PROVE  /\ runs[1] \in Run /\ runs[2] \in Run /\ Len(runs) \in Nat /\ Len(runs) >= 2
         /\ runs[2].offset = End(runs[1]) /\ End(runs[2]) <= current_offset
         /\ current_offset = RECORDS
         /\ file' \in [FilePlaces -> Marks]
         /\ Sorter!Rearranged(file, file')
         /\ \A i \in FilePlaces :
              i \notin Span(runs[1].offset, runs[1].nrecords + runs[2].nrecords) => file'[i] = file[i]
         /\ InOrder(file', runs[1].offset, runs[1].nrecords + runs[2].nrecords)
<1>1. /\ main = "external" /\ Len(runs) >= 2 /\ runs \in Seq(Run)
      /\ file' = Replace(file, runs[1].offset, runs[1].nrecords + runs[2].nrecords,
                         Merged(file, runs[1].offset, runs[1].nrecords, runs[2].nrecords))
  BY DEF MergeRuns, SortInv, Order, TypeOK
<1>2. runs[1] \in Run /\ runs[2] \in Run /\ Len(runs) \in Nat
      /\ 1 \in 1 .. Len(runs) /\ 2 \in 1 .. Len(runs) /\ 1 \in 1 .. Len(runs) - 1
  BY <1>1
<1>3. runs[2].offset = End(runs[1]) /\ End(runs[2]) <= current_offset
      /\ current_offset = RECORDS
  <2>1. PICK middle \in Nat : Chained(runs, middle, current_offset)
    BY DEF SortInv, Order, RunsKept
  <2>2. End(runs[1]) = runs[1 + 1].offset /\ End(runs[2]) <= current_offset
    BY <1>2, <2>1 DEF Chained
  <2>3. QED
    BY <1>1, <2>2 DEF SortInv, Order, RunsKept
<1>4. PICK from \in Nat, x \in Nat, y \in Nat :
        from = runs[1].offset /\ x = runs[1].nrecords /\ y = runs[2].nrecords
  BY <1>2 DEF Run
<1>5. from + x = runs[2].offset /\ from + (x + y) <= RECORDS /\ x + y \in Nat
  BY <1>2, <1>3, <1>4, FileAssumption DEF End, Run
<1>6. file \in [FilePlaces -> Marks] /\ \A i \in Span(from, x + y) : file[i] \in Marks
  <2>1. file \in [FilePlaces -> Marks]
    BY DEF SortInv, Order, TypeOK, FilePlaces
  <2>2. Span(from, x + y) \subseteq FilePlaces
    BY <1>5, FileAssumption DEF Span, FilePlaces
  <2>3. QED
    BY <2>1, <2>2
<1>7. InOrder(file, from, x) /\ InOrder(file, from + x, y)
  BY <1>2, <1>4, <1>5 DEF SortInv, Order, RunsKept, RunsInOrder
<1> DEFINE a == Merged(file, from, x, y)
<1>8. SameMarks(file, from, x + y, a) /\ InOrder(a, 0, x + y)
  BY <1>6, <1>7, MergedSorts
<1>9. file' = Replace(file, from, x + y, a)
  BY <1>1, <1>4
<1> HIDE DEF a
<1>10. /\ file' \in [FilePlaces -> Marks]
       /\ Sorter!Rearranged(file, file')
       /\ \A i \in FilePlaces : i \notin Span(from, x + y) => file'[i] = file[i]
       /\ \A i \in Span(from, x + y) : i - from \in 0 .. (x + y) - 1 /\ file'[i] = a[i - from]
  BY <1>5, <1>6, <1>8, <1>9, Replaced
<1>11. InOrder(file', from, x + y)
  BY <1>5, <1>8, <1>10, WrittenInOrder
<1>12. QED
  BY <1>1, <1>2, <1>3, <1>4, <1>10, <1>11

LEMMA MergeOrder ==
  ASSUME SortInv, MergeRuns
  PROVE  Order'
<1> DEFINE left == runs[1]  right == runs[2]
           n == left.nrecords + right.nrecords
           r == Joined(left, right)
<1>1. /\ main = "external" /\ main' = "external"
      /\ new_runs' = Append(new_runs, r) /\ runs' = SubSeq(runs, 3, Len(runs))
      /\ UNCHANGED <<main, current_offset, portion_recs, poolVars, threadVars>>
  BY DEF MergeRuns, portionVars
<1>2. /\ left \in Run /\ right \in Run /\ Len(runs) \in Nat /\ Len(runs) >= 2
      /\ right.offset = End(left) /\ End(right) <= current_offset /\ current_offset = RECORDS
      /\ file' \in [FilePlaces -> Marks]
      /\ \A i \in FilePlaces : i \notin Span(left.offset, n) => file'[i] = file[i]
      /\ InOrder(file', left.offset, n)
  BY MergeWrites
<1>3. /\ left.offset \in Nat /\ n \in Nat
      /\ r \in Run /\ r.offset = left.offset /\ r.nrecords = n
      /\ End(r) = End(right) /\ left.offset + n = End(right) /\ End(right) \in Nat
  BY <1>2 DEF Run, Joined, End
<1> HIDE DEF left, right, n, r
<1>4. runs \in Seq(Run) /\ new_runs \in Seq(Run)
  BY DEF SortInv, Order, TypeOK
<1>5. runs' \in Seq(Run) /\ new_runs' \in Seq(Run)
  BY <1>1, <1>2, <1>3, <1>4
<1>6. TypeOK'
  BY <1>1, <1>2, <1>5 DEF SortInv, Order, TypeOK, poolVars, threadVars, FilePlaces
<1>7. PICK middle \in Nat : Chained(new_runs, 0, middle) /\ Chained(runs, middle, current_offset)
  BY DEF SortInv, Order, RunsKept
<1>8. middle = left.offset
  <2>1. runs # <<>>
    BY <1>2, <1>4
  <2>2. QED
    BY <1>7, <2>1 DEF Chained, left
<1>9. Chained(new_runs', 0, End(right))
  BY <1>1, <1>3, <1>7, <1>8, ChainAppend
<1>10. Chained(runs', End(right), current_offset)
  <2>1. 2 \in 1 .. Len(runs) /\ runs' = SubSeq(runs, 2 + 1, Len(runs))
    BY <1>1, <1>2
  <2>2. QED
    BY <1>7, <2>1, ChainRest DEF right
<1>11. ASSUME NEW run \in Run, End(run) <= left.offset \/ End(right) <= run.offset,
              End(run) <= RECORDS, InOrder(file, run.offset, run.nrecords)
       PROVE  InOrder(file', run.offset, run.nrecords)
  <2>1. PICK from \in Nat, x \in Nat : from = run.offset /\ x = run.nrecords
    BY DEF Run
  <2>2. from + x <= RECORDS /\ (from + x <= left.offset \/ left.offset + n <= from)
    BY <1>3, <1>11, <2>1 DEF End
  <2>3. InOrder(file, from, x) => InOrder(file', from, x)
    <3>1. PICK at \in Nat, w \in Nat : at = left.offset /\ w = n
      BY <1>3
    <3>2. \A k \in FilePlaces : k \notin Span(at, w) => file'[k] = file[k]
      BY <1>2, <3>1
    <3>3. from + x <= at \/ at + w <= from
      BY <2>2, <3>1
    <3>4. QED
      BY <2>2, <3>2, <3>3, OrderElsewhere
  <2>4. QED
    BY <1>11, <2>1, <2>3
<1>12. RunsInOrder(file', new_runs)
  <2> SUFFICES ASSUME NEW i \in 1 .. Len(new_runs)
               PROVE  InOrder(file', new_runs[i].offset, new_runs[i].nrecords)
    BY DEF RunsInOrder
  <2>1. new_runs[i] \in Run
    BY <1>4
  <2>2. End(new_runs[i]) <= left.offset
    BY <1>7, <1>8 DEF Chained
  <2>3. End(new_runs[i]) <= RECORDS
    <3>1. End(new_runs[i]) \in Nat
      BY <2>1 DEF Run, End
    <3>2. QED
      BY <1>2, <1>3, <2>2, <3>1, FileAssumption
  <2>4. InOrder(file, new_runs[i].offset, new_runs[i].nrecords)
    BY DEF SortInv, Order, RunsKept, RunsInOrder
  <2>5. QED
    BY <1>11, <2>1, <2>2, <2>3, <2>4
<1>13. RunsInOrder(file', runs')
  <2> SUFFICES ASSUME NEW i \in 1 .. Len(runs')
               PROVE  InOrder(file', runs'[i].offset, runs'[i].nrecords)
    BY DEF RunsInOrder
  <2>1. runs'[i] = runs[i + 2] /\ i + 2 \in 1 .. Len(runs) /\ runs'[i] \in Run
    BY <1>1, <1>2, <1>4, <1>5
  <2>2. End(right) <= runs'[i].offset /\ End(runs'[i]) <= RECORDS
    BY <1>2, <1>10 DEF Chained
  <2>3. InOrder(file, runs'[i].offset, runs'[i].nrecords)
    BY <2>1 DEF SortInv, Order, RunsKept, RunsInOrder
  <2>4. QED
    BY <1>11, <2>1, <2>2, <2>3
<1>14. RunsKept'
  <2>1. RunsInOrder(file', new_runs')
    BY <1>1, <1>2, <1>3, <1>4, <1>12, OrderAppended
  <2>2. QED
    BY <1>1, <1>2, <1>3, <1>9, <1>10, <1>13, <2>1 DEF RunsKept
<1>15. Relied'
  BY <1>1 DEF Relied
<1>16. QED
  BY <1>1, <1>6, <1>14, <1>15, NoPool DEF Order

\* An odd run waits for the next pass.
LEMMA CarryOrder ==
  ASSUME SortInv, CarryRun
  PROVE  Order'
<1>1. /\ main = "external" /\ Len(runs) = 1
      /\ new_runs' = Append(new_runs, runs[1]) /\ runs' = <<>>
      /\ UNCHANGED <<file, main, current_offset, portion_recs, poolVars, threadVars>>
  BY DEF CarryRun, portionVars
<1>2. runs \in Seq(Run) /\ new_runs \in Seq(Run) /\ runs[1] \in Run
      /\ runs' \in Seq(Run) /\ new_runs' \in Seq(Run)
  <2>1. runs \in Seq(Run) /\ new_runs \in Seq(Run)
    BY DEF SortInv, Order, TypeOK
  <2>2. runs[1] \in Run
    <3>1. 1 \in 1 .. Len(runs)
      BY <1>1
    <3>2. QED
      BY <2>1, <3>1
  <2>3. QED
    BY <1>1, <2>1, <2>2
<1>3. TypeOK'
  BY <1>1, <1>2 DEF SortInv, Order, TypeOK, poolVars, threadVars
<1>4. RunsKept'
  <2>1. PICK middle \in Nat : Chained(new_runs, 0, middle) /\ Chained(runs, middle, current_offset)
    BY DEF SortInv, Order, RunsKept
  <2>2. runs # <<>>
    BY <1>1
  <2>3. runs[1].offset = middle /\ End(runs[1]) = current_offset /\ current_offset \in Nat
    BY <1>1, <2>1, <2>2 DEF Chained
  <2>4. Chained(new_runs', 0, current_offset)
    BY <1>1, <1>2, <2>1, <2>3, ChainAppend
  <2>5. Chained(runs', current_offset, current_offset)
    BY <1>1, <2>3 DEF Chained
  <2>6. RunsInOrder(file, new_runs) /\ InOrder(file, runs[1].offset, runs[1].nrecords)
    BY <1>1 DEF SortInv, Order, RunsKept, RunsInOrder
  <2>7. RunsInOrder(file, new_runs')
    BY <1>1, <1>2, <2>6, OrderAppended
  <2>8. RunsInOrder(file, runs')
    BY <1>1 DEF RunsInOrder
  <2>9. current_offset = RECORDS
    BY <1>1 DEF SortInv, Order, RunsKept
  <2>10. QED
    BY <1>1, <2>3, <2>4, <2>5, <2>7, <2>8, <2>9 DEF RunsKept
<1>5. Relied'
  BY <1>1 DEF Relied
<1>6. QED
  BY <1>1, <1>3, <1>4, <1>5, NoPool DEF Order

\* After a pass the runs it has made are all there is; the only one is the file.
LEMMA PassOrder ==
  ASSUME SortInv, NextPass
  PROVE  Order'
<1>1. /\ main = "external" /\ main' = IF Len(new_runs) > 1 THEN "external" ELSE "done"
      /\ runs = <<>> /\ runs' = new_runs /\ new_runs' = <<>>
      /\ UNCHANGED <<file, current_offset, portion_recs, poolVars, threadVars>>
  BY DEF NextPass, portionVars
<1>2. PICK middle \in Nat : Chained(new_runs, 0, middle) /\ Chained(runs, middle, current_offset)
  BY DEF SortInv, Order, RunsKept
<1>3. middle = current_offset /\ current_offset = RECORDS
  BY <1>1, <1>2 DEF Chained, SortInv, Order, RunsKept
<1>4. TypeOK'
  BY <1>1 DEF SortInv, Order, TypeOK, poolVars, threadVars
<1>5. RunsInOrder(file, new_runs)
  BY DEF SortInv, Order, RunsKept
<1>6. RunsKept'
  <2>1. Chained(new_runs', 0, 0) /\ RunsInOrder(file, new_runs')
    BY <1>1 DEF Chained, RunsInOrder
  <2>2. Chained(runs', 0, current_offset)
    BY <1>1, <1>2, <1>3
  <2>3. QED
    BY <1>1, <1>3, <1>5, <2>1, <2>2 DEF RunsKept
<1>7. Relied'
  <2>1. ~(Len(new_runs) > 1) => InOrder(file, 0, RECORDS)
    BY <1>2, <1>3, <1>5, OneRun
  <2>2. QED
    BY <1>1, <2>1 DEF Relied
<1>8. QED
  BY <1>1, <1>4, <1>6, <1>7, NoPool DEF Order

\* Nothing is written or said when the program fails.
LEMMA FailOrder ==
  ASSUME SortInv, Fail \/ FailCreate
  PROVE  Order'
<1>1. /\ \/ main' = "failed"
         \/ main = "create" /\ main' = "destroy"
      /\ UNCHANGED <<file, current_offset, portion_recs, phase, created, g_block_count>>
      /\ UNCHANGED <<g_block_size, g_next_block, pc, block, tmp, runs, new_runs>>
  BY DEF Fail, FailCreate, portionVars, poolVars, threadVars, runVars
<1>2. TypeOK' /\ Bounds'
  BY <1>1 DEF SortInv, Order, TypeOK, Bounds
<1>3. Aligned' /\ InHand'
  BY <1>1 DEF SortInv, Order, Aligned, InHand, Busy, Step, Start
<1>4. Pieces' /\ Relied'
  <2>1. CASE main' = "failed"
    BY <1>1, <2>1 DEF Pieces, Relied
  <2>2. CASE main = "create" /\ main' = "destroy"
    <3>1. Pieces
      BY DEF SortInv, Order
    <3>2. Relied'
      BY <2>2 DEF Relied
    <3>3. Pieces'
      BY <1>1, <2>2, <3>1 DEF Pieces, Busy, Step, From, Length
    <3>4. QED
      BY <3>2, <3>3
  <2>3. QED
    BY <1>1, <2>1, <2>2
<1>5. RunsKept'
  BY <1>1 DEF SortInv, Order, RunsKept
<1>6. QED
  BY <1>2, <1>3, <1>4, <1>5 DEF Order

-----------------------------------------------------------------------------
(***************************************************************************)
(* The whole program.                                                      *)
(***************************************************************************)
LEMMA NextOrder == SortInv /\ [Next]_vars => Order'
<1> SUFFICES ASSUME SortInv, [Next]_vars PROVE Order'
  OBVIOUS
<1>1. CASE Main
  <2>1. CASE StartPortion \/ CreateThread \/ JoinThreads \/ EndPortion
    BY <2>1, StartOrder, CreateOrder, JoinOrder, EndOrder
  <2>2. CASE AllPortions \/ MergeRuns \/ CarryRun \/ NextPass
    BY <2>2, PortionsOrder, MergeOrder, CarryOrder, PassOrder
  <2>3. QED
    BY <1>1, <2>1, <2>2 DEF Main
<1>2. CASE Fail \/ FailCreate
  BY <1>2, FailOrder
<1>3. CASE \E t \in Threads : ThreadStep(t)
  <2>1. PICK t \in Threads : ThreadStep(t)
    BY <1>3
  <2>2. CASE Enter(t) \/ NoBlockLeft(t) \/ Leave(t)
    BY <2>2, BarrierOrder
  <2>3. CASE TakeBlock(t) \/ Work(t) \/ Copy(t)
    BY <2>3, TakeOrder, WorkOrder, CopyOrder
  <2>4. QED
    BY <2>1, <2>2, <2>3 DEF ThreadStep
<1>4. CASE UNCHANGED vars
  <2>1. /\ UNCHANGED <<file, main, current_offset, portion_recs, phase, created, g_block_count>>
        /\ UNCHANGED <<g_block_size, g_next_block, pc, block, tmp, runs, new_runs>>
    BY <1>4 DEF vars, portionVars, poolVars, threadVars, runVars
  <2>2. TypeOK' /\ Bounds'
    BY <2>1 DEF SortInv, Order, TypeOK, Bounds
  <2>3. Aligned' /\ InHand'
    BY <2>1 DEF SortInv, Order, Aligned, InHand, Busy, Step, Start
  <2>4. Pieces'
    BY <2>1 DEF SortInv, Order, Pieces, Busy, Step, From, Length
  <2>5. RunsKept' /\ Relied'
    BY <2>1 DEF SortInv, Order, RunsKept, Relied
  <2>6. QED
    BY <2>2, <2>3, <2>4, <2>5 DEF Order
<1>5. QED
  BY <1>1, <1>2, <1>3, <1>4 DEF Next

LEMMA SortInvHolds == Spec => []SortInv
<1>1. Init => SortInv
  BY InitInv, InitOrder DEF SortInv
<1>2. SortInv /\ [Next]_vars => SortInv'
  BY NextInv, NextOrder DEF SortInv
<1>3. QED
  BY <1>1, <1>2, PTL DEF Spec

\* The variables keep their types: g_next_block stays within the blocks, and runs lie in
\* the file.
THEOREM TypeCorrect == Spec => []TypeOK
<1>1. SortInv => TypeOK
  BY DEF SortInv, Order
<1>2. QED
  BY <1>1, SortInvHolds, PTL

\* "File is fully sorted": what FileSort says of a step, of the steps of the program.
LEMMA SortStep == SortInv /\ SortInv' /\ [Next]_vars => [Sorter!Next]_<<file, (main = "done")>>
<1> SUFFICES ASSUME SortInv, SortInv', [Next]_vars,
                    ~UNCHANGED <<file, (main = "done")>>
             PROVE  Sorter!Next
  OBVIOUS
<1>1. ASSUME file' = file, main # "done", main' = "done"
      PROVE  Sorter!Next
  <2>1. InOrder(file, 0, RECORDS)
    BY <1>1 DEF SortInv, Order, Relied
  <2>2. \A i \in 0 .. RECORDS - 1 : i \in Span(0, RECORDS)
    BY FileAssumption DEF Span
  <2>3. Sorter!Ordered(file)
    BY <2>1, <2>2 DEF InOrder, Sorter!Ordered
  <2>4. QED
    BY <1>1, <2>3 DEF Sorter!Next, Sorter!Finish
<1>2. ASSUME main # "done", main' = main, file' \in [FilePlaces -> Marks],
             Sorter!Rearranged(file, file')
      PROVE  Sorter!Next
  BY <1>2 DEF Sorter!Next, Sorter!Rearrange, FilePlaces
<1>3. CASE Main
  <2>1. CASE StartPortion \/ CreateThread \/ JoinThreads \/ EndPortion \/ CarryRun
    BY <2>1 DEF StartPortion, CreateThread, JoinThreads, EndPortion, CarryRun
  <2>2. CASE AllPortions \/ NextPass
    BY <1>1, <2>2 DEF AllPortions, NextPass
  <2>3. CASE MergeRuns
    <3>1. main = "external" /\ main' = main
      BY <2>3 DEF MergeRuns
    <3>2. file' \in [FilePlaces -> Marks] /\ Sorter!Rearranged(file, file')
      BY <2>3, MergeWrites
    <3>3. QED
      BY <1>2, <3>1, <3>2
  <2>4. QED
    BY <1>3, <2>1, <2>2, <2>3 DEF Main
<1>4. CASE Fail \/ FailCreate
  BY <1>4 DEF Fail, FailCreate
<1>5. CASE \E t \in Threads : ThreadStep(t)
  <2>1. PICK t \in Threads : ThreadStep(t)
    BY <1>5
  <2>2. CASE Copy(t)
    <3>1. main' = main /\ main \in {"create", "join", "destroy"}
      BY <2>2, PoolAtWork DEF Copy, At, SortInv
    <3>2. file' \in [FilePlaces -> Marks] /\ Sorter!Rearranged(file, file')
      BY <2>2, CopyWrites
    <3>3. QED
      BY <1>2, <3>1, <3>2
  <2>3. CASE Enter(t) \/ TakeBlock(t) \/ NoBlockLeft(t) \/ Work(t) \/ Leave(t)
    BY <2>3 DEF Enter, TakeBlock, NoBlockLeft, Work, Leave
  <2>4. QED
    BY <2>1, <2>2, <2>3 DEF ThreadStep
<1>6. CASE UNCHANGED vars
  BY <1>6 DEF vars
<1>7. QED
  BY <1>3, <1>4, <1>5, <1>6 DEF Next

\* The program implements FileSort: whatever the threads do, no record is lost or made,
\* and the file is in order when "File is fully sorted" is printed.
THEOREM SortsTheFile == Spec => SortsFile
<1>1. Init => Sorter!Init
  BY FileAssumption DEF Init, Sorter!Init
<1>2. QED
  BY <1>1, SortInvHolds, SortStep, PTL DEF Spec, SortsFile, Sorter!Spec

-----------------------------------------------------------------------------
(***************************************************************************)
(* The barriers.  They count to THREADS, and open when the last thread     *)
(* arrives; so there is always one that has still to arrive, or nobody is  *)
(* left to wait for.                                                       *)
(***************************************************************************)
AllAt(labels) == \A t \in Threads : pc[t] \in labels

\* Before the first barrier, between the two, or at the end.
Together ==
  \/ AllAt({"none", "enter", "wait_enter"}) /\ phase = "sort"
  \/ /\ AllAt({"none", "take", "work", "copy", "leave", "wait_leave"})
     /\ phase = "merge" \/ main = "join"
  \/ AllAt({"ended"}) /\ main = "join"

Barriers ==
  main \in {"create", "join"} =>
    /\ Together
    /\ \E t \in Threads : pc[t] # "wait_enter"
    /\ \E t \in Threads : pc[t] # "wait_leave"
    /\ \A t \in Threads : pc[t] = "none" => main = "create" /\ t > created

BarrierInv == SortInv /\ Barriers

\* Whoever is not waiting is missing from the count.
LEMMA LastOpens ==
  ASSUME NEW t \in Threads, NEW asleep, NEW next, next # asleep, pc \in [Threads -> Labels],
         Wait(t, asleep, next)
  PROVE  \/ /\ \A u \in Threads \ {t} : pc[u] = asleep
            /\ \A u \in Threads : pc'[u] = next
         \/ /\ \E u \in Threads \ {t} : pc[u] # asleep
            /\ pc'[t] = asleep
            /\ \A u \in Threads \ {t} : pc'[u] = pc[u]
<1> DEFINE waiting == {u \in Threads : pc[u] = asleep} \cup {t}
<1>1. \A u \in Threads :
        pc'[u] = IF u \notin waiting THEN pc[u]
                 ELSE IF Cardinality(waiting) = THREADS THEN next ELSE asleep
  BY DEF Wait
<1>2. IsFiniteSet(Threads) /\ Cardinality(Threads) = THREADS
  <2>1. 1 \in Int /\ THREADS \in Nat /\ THREADS \in Int /\ 1 <= THREADS
    BY PoolAssumption
  <2>2. IsFiniteSet(1 .. THREADS) /\ Cardinality(1 .. THREADS) = THREADS - 1 + 1
    BY <2>1, FS_Interval
  <2>3. QED
    BY <2>1, <2>2 DEF Threads
<1>3. waiting \in SUBSET Threads
  OBVIOUS
<1>4. Cardinality(waiting) = THREADS <=> waiting = Threads
  <2>1. Cardinality(waiting) = Cardinality(Threads) => waiting = Threads
    BY <1>2, <1>3, FS_Subset
  <2>2. QED
    BY <1>2, <2>1
<1>5. t \in waiting /\ \A u \in Threads \ {t} : u \in waiting <=> pc[u] = asleep
  OBVIOUS
<1> HIDE DEF waiting
<1>6. CASE waiting = Threads
  BY <1>1, <1>4, <1>5, <1>6
<1>7. CASE waiting # Threads
  <2>1. \E u \in Threads : u \notin waiting
    BY <1>3, <1>7
  <2>2. \A u \in Threads : pc'[u] = IF u \notin waiting THEN pc[u] ELSE asleep
    BY <1>1, <1>4, <1>7
  <2>3. QED
    BY <1>5, <2>1, <2>2
<1>8. QED
  BY <1>6, <1>7

\* While the main thread creates threads one is missing.
LEMMA AllCreated ==
  ASSUME SortInv, main \in {"create", "join"}, \A t \in Threads : pc[t] # "none"
  PROVE  main = "join"
<1>1. SUFFICES ASSUME main = "create" PROVE FALSE
  OBVIOUS
<1>2. /\ created \in Nat /\ created < THREADS /\ THREADS \in Nat
      /\ \A t \in Threads : t > created => pc[t] = "none"
  BY <1>1, PoolAssumption DEF SortInv, Order, TypeOK, Bounds
<1>3. created + 1 \in Threads /\ created + 1 > created
  BY <1>2 DEF Threads
<1>4. QED
  BY <1>2, <1>3

\* A thread moves on, or waits for one that does not wait.
LEMMA BarrierThread ==
  ASSUME BarrierInv, NEW t \in Threads, ThreadStep(t)
  PROVE  Barriers'
<1>1. /\ main' = main /\ phase' = phase /\ created' = created
      /\ main # "failed" /\ pc[t] # "none" /\ pc \in [Threads -> Labels]
  BY DEF ThreadStep, Enter, TakeBlock, NoBlockLeft, Work, Copy, Leave, At, poolVars,
         BarrierInv, SortInv, Order, TypeOK
<1>2. SUFFICES ASSUME main \in {"create", "join"} PROVE Barriers'
  BY <1>1 DEF Barriers
<1>3. Together /\ (\A u \in Threads : pc[u] = "none" => main = "create" /\ u > created)
  BY <1>2 DEF BarrierInv, Barriers
<1>4. CASE Enter(t)
  <2>1. /\ pc[t] = "enter"
        /\ \/ /\ \A u \in Threads \ {t} : pc[u] = "wait_enter"
              /\ \A u \in Threads : pc'[u] = "take"
           \/ /\ \E u \in Threads \ {t} : pc[u] # "wait_enter"
              /\ pc'[t] = "wait_enter"
              /\ \A u \in Threads \ {t} : pc'[u] = pc[u]
    BY <1>1, <1>4, LastOpens DEF Enter, At
  <2>2. AllAt({"none", "enter", "wait_enter"}) /\ phase = "sort"
    BY <1>3, <2>1 DEF Together, AllAt
  <2>3. CASE /\ \A u \in Threads \ {t} : pc[u] = "wait_enter"
             /\ \A u \in Threads : pc'[u] = "take"
    <3>1. main = "join"
      <4>1. \A u \in Threads : pc[u] # "none"
        BY <2>1, <2>3
      <4>2. QED
        BY <1>2, <4>1, AllCreated DEF BarrierInv
    <3>2. Together'
      BY <1>1, <2>3, <3>1 DEF Together, AllAt
    <3>3. QED
      BY <2>3, <3>2 DEF Barriers
  <2>4. CASE /\ \E u \in Threads \ {t} : pc[u] # "wait_enter"
             /\ pc'[t] = "wait_enter"
             /\ \A u \in Threads \ {t} : pc'[u] = pc[u]
    <3>1. Together'
      BY <1>1, <2>2, <2>4 DEF Together, AllAt
    <3>2. \A u \in Threads : pc'[u] = "none" => main' = "create" /\ u > created'
      BY <1>1, <1>3, <2>4
    <3>3. QED
      BY <2>4, <3>1, <3>2 DEF Barriers
  <2>5. QED
    BY <2>1, <2>3, <2>4
<1>5. CASE Leave(t)
  <2>1. /\ pc[t] = "leave"
        /\ \/ /\ \A u \in Threads \ {t} : pc[u] = "wait_leave"
              /\ \A u \in Threads : pc'[u] = "ended"
           \/ /\ \E u \in Threads \ {t} : pc[u] # "wait_leave"
              /\ pc'[t] = "wait_leave"
              /\ \A u \in Threads \ {t} : pc'[u] = pc[u]
    BY <1>1, <1>5, LastOpens DEF Leave, At
  <2>2. /\ AllAt({"none", "take", "work", "copy", "leave", "wait_leave"})
        /\ phase = "merge" \/ main = "join"
    BY <1>3, <2>1 DEF Together, AllAt
  <2>3. CASE /\ \A u \in Threads \ {t} : pc[u] = "wait_leave"
             /\ \A u \in Threads : pc'[u] = "ended"
    <3>1. main = "join"
      <4>1. \A u \in Threads : pc[u] # "none"
        BY <2>1, <2>3
      <4>2. QED
        BY <1>2, <4>1, AllCreated DEF BarrierInv
    <3>2. Together'
      BY <1>1, <2>3, <3>1 DEF Together, AllAt
    <3>3. QED
      BY <2>3, <3>2 DEF Barriers
  <2>4. CASE /\ \E u \in Threads \ {t} : pc[u] # "wait_leave"
             /\ pc'[t] = "wait_leave"
             /\ \A u \in Threads \ {t} : pc'[u] = pc[u]
    <3>1. Together'
      BY <1>1, <2>2, <2>4 DEF Together, AllAt
    <3>2. \A u \in Threads : pc'[u] = "none" => main' = "create" /\ u > created'
      BY <1>1, <1>3, <2>4
    <3>3. QED
      BY <2>4, <3>1, <3>2 DEF Barriers
  <2>5. QED
    BY <2>1, <2>3, <2>4
<1>6. CASE TakeBlock(t) \/ NoBlockLeft(t) \/ Work(t) \/ Copy(t)
  <2>1. PICK label \in {"take", "work", "copy", "leave"} : pc' = [pc EXCEPT ![t] = label]
    BY <1>6 DEF TakeBlock, NoBlockLeft, Work, Copy, Goto
  <2>2. pc[t] \in {"take", "work", "copy"}
    BY <1>6 DEF TakeBlock, NoBlockLeft, Work, Copy, At
  <2>3. /\ pc'[t] = label
        /\ \A u \in Threads \ {t} : pc'[u] = pc[u]
    BY <1>1, <2>1
  <2>4. /\ AllAt({"none", "take", "work", "copy", "leave", "wait_leave"})
        /\ phase = "merge" \/ main = "join"
    BY <1>3, <2>2 DEF Together, AllAt
  <2>5. Together'
    BY <1>1, <2>3, <2>4 DEF Together, AllAt
  <2>6. \A u \in Threads : pc'[u] = "none" => main' = "create" /\ u > created'
    BY <1>1, <1>3, <2>3
  <2>7. QED
    BY <2>3, <2>5, <2>6 DEF Barriers
<1>7. QED
  BY <1>4, <1>5, <1>6 DEF ThreadStep

\* A new pool starts where its first statement is.
LEMMA BarrierMain ==
  ASSUME BarrierInv, Main
  PROVE  Barriers'
<1>1. /\ pc \in [Threads -> Labels] /\ 1 \in Threads /\ THREADS \in Nat
      /\ Quiet
  BY PoolAssumption DEF BarrierInv, SortInv, Order, TypeOK, PoolInv, Threads
<1>2. CASE StartPortion
  <2>1. main' \in {"create", "failed"} /\ phase' = "sort" /\ created' = 0 /\ main = "portion"
        /\ pc' = pc
    BY <1>2 DEF StartPortion
  <2>2. \A t \in Threads : pc'[t] = "none"
    BY <1>1, <2>1 DEF Quiet
  <2>3. Together'
    BY <2>1, <2>2 DEF Together, AllAt
  <2>4. \A t \in Threads : t > 0
    BY DEF Threads
  <2>5. QED
    BY <1>1, <2>1, <2>2, <2>3, <2>4 DEF Barriers
<1>3. CASE CreateThread
  <2>1. /\ main = "create" /\ main' = IF created + 1 = THREADS THEN "join" ELSE "create"
        /\ created' = created + 1 /\ phase' = phase
        /\ pc' = [pc EXCEPT ![created + 1] = IF phase = "sort" THEN "enter" ELSE "take"]
    BY <1>3 DEF CreateThread
  <2>2. /\ created \in Nat /\ created < THREADS /\ phase \in {"sort", "merge"}
        /\ \A u \in Threads : u > created => pc[u] = "none"
    BY <2>1 DEF BarrierInv, SortInv, Order, TypeOK, Bounds
  <2>3. /\ created + 1 \in Threads
        /\ pc'[created + 1] = IF phase = "sort" THEN "enter" ELSE "take"
        /\ \A u \in Threads \ {created + 1} : pc'[u] = pc[u]
    BY <1>1, <2>1, <2>2 DEF Threads
  <2>4. Together /\ \A u \in Threads : pc[u] = "none" => u > created
    BY <2>1 DEF BarrierInv, Barriers
  <2>5. \/ AllAt({"none", "enter", "wait_enter"}) /\ phase = "sort"
        \/ AllAt({"none", "take", "work", "copy", "leave", "wait_leave"}) /\ phase = "merge"
    BY <2>1, <2>4 DEF Together
  <2>6. Together'
    BY <2>1, <2>3, <2>5 DEF Together, AllAt
  <2>7. \A u \in Threads : pc'[u] = "none" => main' = "create" /\ u > created'
    <3> SUFFICES ASSUME NEW u \in Threads, pc'[u] = "none"
                 PROVE  main' = "create" /\ u > created'
      OBVIOUS
    <3>1. u # created + 1 /\ u > created
      BY <2>2, <2>3, <2>4
    <3>2. u \in Nat /\ u <= THREADS
      BY <1>1 DEF Threads
    <3>3. QED
      BY <1>1, <2>1, <2>2, <3>1, <3>2
  <2>8. QED
    BY <2>2, <2>3, <2>6, <2>7 DEF Barriers
<1>4. CASE JoinThreads
  <2>1. /\ main' \in {"create", "sync"}
        /\ main' = "create" => phase' = "merge" /\ created' = 0
        /\ \A t \in Threads : pc'[t] = "none"
    BY <1>4 DEF JoinThreads
  <2>2. main' = "create" => Together'
    BY <2>1 DEF Together, AllAt
  <2>3. \A t \in Threads : t > 0
    BY DEF Threads
  <2>4. QED
    BY <1>1, <2>1, <2>2, <2>3 DEF Barriers
<1>5. CASE EndPortion \/ AllPortions \/ MergeRuns \/ CarryRun \/ NextPass
  <2>1. main' \notin {"create", "join"}
    BY <1>5 DEF EndPortion, AllPortions, MergeRuns, CarryRun, NextPass
  <2>2. QED
    BY <2>1 DEF Barriers
<1>6. QED
  BY <1>2, <1>3, <1>4, <1>5 DEF Main

LEMMA BarrierInvHolds == Spec => []BarrierInv
<1>1. Init => Barriers
  BY DEF Init, Barriers
<1>2. ASSUME BarrierInv, [Next]_vars PROVE Barriers'
  <2>1. CASE Main
    BY <1>2, <2>1, BarrierMain
  <2>2. CASE Fail \/ FailCreate
    BY <2>2 DEF Fail, FailCreate, Barriers
  <2>3. CASE \E t \in Threads : ThreadStep(t)
    BY <1>2, <2>3, BarrierThread
  <2>4. CASE UNCHANGED vars
    BY <1>2, <2>4 DEF vars, poolVars, threadVars, BarrierInv, Barriers, Together, AllAt
  <2>5. QED
    BY <1>2, <2>1, <2>2, <2>3, <2>4 DEF Next
<1>3. Init => BarrierInv
  BY <1>1, InitInv, InitOrder DEF BarrierInv, SortInv
<1>4. BarrierInv /\ [Next]_vars => BarrierInv'
  BY <1>2, NextInv, NextOrder DEF BarrierInv, SortInv
<1>5. QED
  BY <1>3, <1>4, PTL DEF Spec

\* Whenever the main thread waits for its threads, all have ended or one of them is not
\* waiting at a barrier: no barrier stays closed, whoever took how many blocks.
THEOREM PoolNeverStuck ==
  Spec => [](main = "join" =>
               \/ \A t \in Threads : pc[t] = "ended"
               \/ \E t \in Threads : pc[t] \in {"enter", "take", "work", "copy", "leave"})
<1>1. ASSUME BarrierInv, main = "join",
             ~(\E t \in Threads : pc[t] \in {"enter", "take", "work", "copy", "leave"})
      PROVE  \A t \in Threads : pc[t] = "ended"
  <2>1. /\ Together /\ \A t \in Threads : pc[t] # "none"
        /\ \E t \in Threads : pc[t] # "wait_enter"
        /\ \E t \in Threads : pc[t] # "wait_leave"
    BY <1>1 DEF BarrierInv, Barriers
  <2>2. ~AllAt({"none", "enter", "wait_enter"})
    BY <1>1, <2>1 DEF AllAt
  <2>3. ~AllAt({"none", "take", "work", "copy", "leave", "wait_leave"})
    BY <1>1, <2>1 DEF AllAt
  <2>4. QED
    BY <2>1, <2>2, <2>3 DEF Together, AllAt
<1>2. BarrierInv => (main = "join" =>
                       \/ \A t \in Threads : pc[t] = "ended"
                       \/ \E t \in Threads : pc[t] \in {"enter", "take", "work", "copy", "leave"})
  BY <1>1
<1>3. QED
  BY <1>2, BarrierInvHolds, PTL
=============================================================================
