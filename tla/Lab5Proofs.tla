----------------------------- MODULE Lab5Proofs -----------------------------
(***************************************************************************)
(* Proofs about Lab5Threads, for every number of threads, every ring size  *)
(* and every set of commands.                                              *)
(***************************************************************************)
EXTENDS Lab5Threads, FiniteSetTheorems, TLAPS

-----------------------------------------------------------------------------
(***************************************************************************)
(* The ring.  GoodRing is Queue with the bounds that keep it so: tail is   *)
(* always computed modulo the length, and head runs at most as far beyond  *)
(* the array as the array has shrunk since.                                *)
(***************************************************************************)
Arrays == UNION {[0 .. n - 1 -> Pointers] : n \in 1 .. MAX_LEN}
Rings == [head : Nat, tail : Nat, len : Nat, max_len : 1 .. MAX_LEN, messages : Arrays]

GoodRing(q) ==
  /\ q \in Rings
  /\ q.messages \in [0 .. q.max_len - 1 -> Pointers]
  /\ q.len <= q.max_len
  /\ q.tail < MAX_LEN
  /\ q.head <= q.max_len + MAX_LEN - 2

\* What a good ring gives the arithmetic below.
LEMMA Fields ==
  ASSUME NEW q, GoodRing(q)
  PROVE  /\ q \in Rings /\ MAX_LEN \in Nat
         /\ q.head \in Nat /\ q.tail \in Nat /\ q.len \in Nat
         /\ q.max_len \in Nat /\ 1 <= q.max_len /\ q.max_len <= MAX_LEN
         /\ q.messages \in [0 .. q.max_len - 1 -> Pointers]
         /\ q.len <= q.max_len
         /\ q.tail < MAX_LEN
         /\ q.head <= q.max_len + MAX_LEN - 2
BY LengthAssumption DEF GoodRing, Rings

\* Fields of the right kinds, put into a ring, make a ring.
LEMMA Update ==
  ASSUME NEW q \in Rings, NEW h \in Nat, NEW t \in Nat, NEW l \in Nat,
         NEW n \in 1 .. MAX_LEN, NEW a \in Arrays
  PROVE  /\ [q EXCEPT !.tail = t, !.messages = a, !.len = l] \in Rings
         /\ [q EXCEPT !.head = h, !.messages = a, !.len = l] \in Rings
         /\ [q EXCEPT !.max_len = n, !.head = h, !.messages = a] \in Rings
BY DEF Rings

\* A good ring is a queue in the sense of the type invariant.
LEMMA GoodIsQueue ==
  ASSUME NEW q, GoodRing(q)
  PROVE  q \in Queue
BY LengthAssumption DEF GoodRing, Rings, Arrays, Queue, Index

\* An array as long as the ring says is among the arrays of a queue.
LEMMA ArrayType ==
  ASSUME NEW n \in 1 .. MAX_LEN, NEW a \in [0 .. n - 1 -> Pointers]
  PROVE  a \in Arrays
BY DEF Arrays

\* queue_init() makes a good ring.
LEMMA EmptyGood == GoodRing(EmptyQueue)
<1>1. [i \in 0 .. QUEUE_BASE_SIZE - 1 |-> NULL] \in [0 .. QUEUE_BASE_SIZE - 1 -> Pointers]
  BY DEF Pointers
<1>2. QUEUE_BASE_SIZE \in 1 .. MAX_LEN
  BY LengthAssumption
<1>3. EmptyQueue.messages \in Arrays
  BY <1>1, <1>2, ArrayType DEF EmptyQueue
<1>4. EmptyQueue \in Rings
  BY <1>2, <1>3 DEF EmptyQueue, Rings
<1>5. QED
  BY <1>1, <1>2, <1>4, LengthAssumption DEF GoodRing, EmptyQueue

\* An index computed modulo the length is inside the array.
LEMMA ModInside ==
  ASSUME NEW i \in Nat, NEW n \in Nat \ {0}
  PROVE  (i + 1) % n \in 0 .. n - 1
OBVIOUS

\* Storing a pointer keeps the array an array of the same length.
LEMMA StoreInside ==
  ASSUME NEW q, GoodRing(q), NEW i \in Nat, NEW m \in Pointers
  PROVE  Store(q, i, m) \in [0 .. q.max_len - 1 -> Pointers]
BY DEF GoodRing, Rings, Store

\* queue_push() adds one to len, unless the ring is full.
LEMMA PushGood ==
  ASSUME NEW q, GoodRing(q), NEW m \in Messages
  PROVE  /\ GoodRing(Push(q, m))
         /\ Push(q, m).max_len = q.max_len
         /\ ~Full(q) => Push(q, m).len = q.len + 1
<1>1. CASE Full(q)
  BY <1>1 DEF Push
<1>2. CASE ~Full(q)
  <2> DEFINE t == IF Empty(q) THEN q.tail ELSE NextIndex(q, q.tail)
             a == Store(q, t, m)
             r == [q EXCEPT !.tail = t, !.messages = a, !.len = q.len + 1]
  <2>1. t \in Nat /\ t < MAX_LEN
    <3>1. q.tail \in Nat /\ q.tail < MAX_LEN
      BY Fields
    <3>2. PICK n \in Nat \ {0} : n = q.max_len /\ n <= MAX_LEN
      BY Fields
    <3>3. (q.tail + 1) % n \in 0 .. n - 1
      BY <3>1, ModInside
    <3>4. NextIndex(q, q.tail) \in 0 .. n - 1
      BY <3>2, <3>3 DEF NextIndex
    <3>5. MAX_LEN \in Nat
      BY Fields
    <3>6. QED
      BY <3>1, <3>2, <3>4, <3>5
  <2>2. a \in [0 .. q.max_len - 1 -> Pointers]
    BY <2>1, StoreInside DEF Pointers
  <2>3. Push(q, m) = r
    BY <1>2 DEF Push
  <2> HIDE DEF t
  <2> HIDE DEF a
  <2>4. a \in Arrays
    BY <2>2, Fields, ArrayType
  <2>5. q.len + 1 \in Nat /\ q.len + 1 <= q.max_len
    BY <1>2, Fields DEF Full
  <2>6. r \in Rings
    <3>1. q \in Rings /\ t \in Nat /\ q.len + 1 \in Nat /\ 1 \in 1 .. MAX_LEN
      BY <2>1, <2>5, Fields
    <3>2. QED
      BY <3>1, <2>4, Update
  <2>7. /\ r.tail = t /\ r.messages = a /\ r.len = q.len + 1
        /\ r.head = q.head /\ r.max_len = q.max_len
    BY Fields DEF Rings
  <2> HIDE DEF r
  <2>8. GoodRing(r)
    BY <2>1, <2>2, <2>5, <2>6, <2>7, Fields DEF GoodRing
  <2>9. QED
    BY <2>3, <2>7, <2>8
<1>3. QED
  BY <1>1, <1>2

\* queue_pop() takes one from len, unless the ring is empty.
LEMMA PopGood ==
  ASSUME NEW q, GoodRing(q)
  PROVE  /\ GoodRing(Pop(q))
         /\ Pop(q).max_len = q.max_len
         /\ ~Empty(q) => Pop(q).len = q.len - 1
<1>1. CASE Empty(q)
  BY <1>1 DEF Pop
<1>2. CASE ~Empty(q)
  <2> DEFINE h == NextIndex(q, q.head)
             a == Store(q, q.head, NULL)
             r == [q EXCEPT !.head = h, !.messages = a, !.len = q.len - 1]
  <2>1. h \in Nat /\ h <= q.max_len - 1
    BY Fields, ModInside DEF NextIndex
  <2>2. a \in [0 .. q.max_len - 1 -> Pointers]
    BY Fields, StoreInside DEF Pointers
  <2>3. Pop(q) = r
    BY <1>2 DEF Pop
  <2> HIDE DEF h
  <2> HIDE DEF a
  <2>4. a \in Arrays
    BY <2>2, Fields, ArrayType
  <2>5. q.len - 1 \in Nat /\ q.len - 1 <= q.max_len
    BY <1>2, Fields DEF Empty
  <2>6. r \in Rings
    <3>1. q \in Rings /\ h \in Nat /\ q.len - 1 \in Nat /\ 1 \in 1 .. MAX_LEN
      BY <2>1, <2>5, Fields
    <3>2. QED
      BY <3>1, <2>4, Update
  <2>7. /\ r.head = h /\ r.messages = a /\ r.len = q.len - 1
        /\ r.tail = q.tail /\ r.max_len = q.max_len
    BY Fields DEF Rings
  <2> HIDE DEF r
  <2>8. GoodRing(r)
    BY <2>1, <2>2, <2>5, <2>6, <2>7, Fields DEF GoodRing
  <2>9. QED
    BY <2>3, <2>7, <2>8
<1>3. QED
  BY <1>1, <1>2

\* queue_expand() makes the ring one slot longer.
LEMMA ExpandGood ==
  ASSUME NEW q, GoodRing(q), q.max_len < MAX_LEN, NEW r \in Expanded(q)
  PROVE  GoodRing(r) /\ r.max_len = q.max_len + 1 /\ r.len = q.len
<1> DEFINE new == IF Wrapped(q) THEN q.head ELSE q.max_len
           cell(i, m) == IF i = new \/ (i = q.max_len /\ new > i) THEN m
                         ELSE IF i < new THEN q.messages[i] ELSE q.messages[i - 1]
           head == IF Wrapped(q) THEN q.head + 1 ELSE q.head
           array(m) == [i \in 0 .. q.max_len |-> cell(i, m)]
<1>1. PICK m \in NewCell(q, new) :
        r = [q EXCEPT !.max_len = @ + 1, !.head = IF Wrapped(q) THEN @ + 1 ELSE @,
                      !.messages = array(m)]
  BY DEF Expanded
<1>2. m \in Pointers
  BY <1>1 DEF NewCell, Pointers
<1>3. new \in Nat
  BY DEF GoodRing, Rings
<1>4. ASSUME NEW i \in 0 .. q.max_len PROVE cell(i, m) \in Pointers
  BY <1>2, <1>3, <1>4 DEF GoodRing, Rings
<1>5. array(m) \in [0 .. q.max_len -> Pointers]
  BY <1>4
<1>6. q.max_len + 1 \in 1 .. MAX_LEN /\ (q.max_len + 1) - 1 = q.max_len
  BY Fields
<1>7. array(m) \in Arrays
  BY <1>5, <1>6, ArrayType
<1>8. r = [q EXCEPT !.max_len = q.max_len + 1, !.head = head, !.messages = array(m)]
  BY <1>1
<1> HIDE DEF array
<1>9. head \in Nat /\ head <= (q.max_len + 1) + MAX_LEN - 2
  BY Fields DEF Wrapped
<1> HIDE DEF head
<1>10. /\ r.messages = array(m) /\ r.max_len = q.max_len + 1 /\ r.len = q.len
       /\ r.tail = q.tail /\ r.head = head
  BY <1>8, Fields DEF Rings
<1>11. r \in Rings
  <2>1. q \in Rings /\ 0 \in Nat
    BY Fields
  <2>2. QED
    BY <2>1, <1>6, <1>7, <1>8, <1>9, Update
<1>12. r.messages \in [0 .. r.max_len - 1 -> Pointers]
  BY <1>5, <1>6, <1>10
<1>13. QED
  BY <1>9, <1>10, <1>11, <1>12, Fields DEF GoodRing

\* queue_reduce() makes it one slot shorter, unless it is full or has one slot.
LEMMA ReduceGood ==
  ASSUME NEW q, GoodRing(q)
  PROVE  /\ GoodRing(Reduce(q))
         /\ Reduce(q).len = q.len
         /\ Reduce(q).max_len <= q.max_len
         /\ q.max_len - 1 <= Reduce(q).max_len
<1>1. CASE q.len = q.max_len \/ q.max_len = 1
  BY <1>1, Fields DEF Reduce
<1>2. CASE q.len # q.max_len /\ q.max_len # 1
  <2> DEFINE array == [i \in 0 .. q.max_len - 2 |->
                         IF Wrapped(q) /\ i >= q.head - 1 THEN q.messages[i + 1] ELSE q.messages[i]]
             head == IF Wrapped(q) THEN q.head - 1 ELSE q.head
             r == [q EXCEPT !.max_len = q.max_len - 1, !.head = head, !.messages = array]
  <2>1. Reduce(q) = r
    BY <1>2 DEF Reduce
  <2>2. array \in [0 .. q.max_len - 2 -> Pointers]
    BY Fields
  <2>3. q.max_len - 1 \in 1 .. MAX_LEN /\ (q.max_len - 1) - 1 = q.max_len - 2
    BY <1>2, Fields
  <2> HIDE DEF array
  <2>4. array \in Arrays
    BY <2>2, <2>3, ArrayType
  <2>5. head \in Nat /\ head <= (q.max_len - 1) + MAX_LEN - 2
    <3>1. /\ q.head \in Nat /\ q.tail \in Nat /\ q.max_len \in Nat /\ MAX_LEN \in Nat
          /\ 1 <= q.max_len /\ q.max_len <= MAX_LEN /\ q.tail < MAX_LEN
          /\ q.head <= q.max_len + MAX_LEN - 2
      BY Fields
    <3>2. CASE Wrapped(q)
      BY <3>1, <3>2 DEF Wrapped
    <3>3. CASE ~Wrapped(q)
      BY <3>1, <3>3, <2>3 DEF Wrapped
    <3>4. QED
      BY <3>2, <3>3
  <2> HIDE DEF head
  <2>6. r \in Rings
    <3>1. q \in Rings /\ 0 \in Nat
      BY Fields
    <3>2. QED
      BY <3>1, <2>3, <2>4, <2>5, Update
  <2>7. /\ r.messages = array /\ r.max_len = q.max_len - 1 /\ r.len = q.len
        /\ r.tail = q.tail /\ r.head = head
    BY Fields DEF Rings
  <2> HIDE DEF r
  <2>8. q.len <= q.max_len - 1
    BY <1>2, Fields
  <2>9. r.messages \in [0 .. r.max_len - 1 -> Pointers]
    BY <2>2, <2>3, <2>7
  <2>10. GoodRing(r)
    BY <2>5, <2>6, <2>7, <2>8, <2>9, Fields DEF GoodRing
  <2>11. QED
    BY <2>1, <2>7, <2>10, Fields
<1>3. QED
  BY <1>1, <1>2

-----------------------------------------------------------------------------
(***************************************************************************)
(* The inductive invariant.  TypeOK bounds the semaphores, which only the  *)
(* agreement with the ring does; and the agreement needs to know that a    *)
(* new thread gets an unused entry, which the table says.                  *)
(***************************************************************************)
Kinds ==
  /\ main \in MainLabels
  /\ quitting \in BOOLEAN
  /\ interrupted \in MainLabels \cup {"no"}
  /\ slot \in 0 .. MAX_LEN - 1
  /\ count \in [Types -> Nat]
  /\ \A type \in Types : count[type] <= Limit(type)
  /\ working \in [Threads -> BOOLEAN]
  /\ pc \in [Threads -> Labels]
  /\ queue_mutex \in Threads \cup {MainThread, NoThread}
  /\ free_space_sem \in Nat
  /\ items_sem \in Nat
  /\ GoodRing(queue)

\* The threads are those of the first count entries; the victim is the last of its type,
\* and its flag is clear; so it is with the thread that SIGINT found being joined, whose
\* type is then closed for good.  Only these two may be cancelled.
Table ==
  /\ victim \in Threads \cup {NoThread}
  /\ forgotten \in Threads \cup {NoThread}
  /\ main = "join" <=> victim # NoThread
  /\ forgotten # NoThread => interrupted # "no"
  /\ \A t \in {victim, forgotten} : t # NoThread => t.ind = count[t.type] - 1
  /\ victim # NoThread /\ forgotten # NoThread => victim.type # forgotten.type
  /\ \A t \in Threads : pc[t] # "none" <=> t.ind < count[t.type]
  /\ \A t \in Threads : working[t] <=> t.ind < count[t.type] /\ t \notin {victim, forgotten}
  /\ cancelled \subseteq {victim, forgotten} \ {NoThread}

\* A thread in the critical section holds the mutex, one past it does not.
MutexKept ==
  \A t \in Threads : /\ pc[t] \in {"print", "unlock"} => queue_mutex = t
                     /\ pc[t] = "post" => queue_mutex # t

\* What the main thread has made sure of before it waits; and it resizes nothing once it
\* is inside cleanup_and_exit().
Asked ==
  /\ interrupted # "no" => quitting
  /\ quitting => main \in {"command", "join", "done"}
  /\ main = "expand" => queue.max_len < MAX_LEN
  /\ main \in {"reduce", "reduce_lock"} => "r" \in Commands

\* Whoever answers for a token or a slot goes on answering for it.
Tokens == ItemsAgree /\ FreeSpaceCovered /\ ("r" \notin Commands => Slack = 0)
Balanced == ItemsAgree' /\ Slack' = Slack

RingInv == Kinds /\ Table /\ MutexKept /\ Asked /\ Tokens

\* A thread is its type and its index.
LEMMA ThreadIs ==
  /\ \A type \in Types, i \in Nat : i < Limit(type) => Thread(type, i) \in Threads
  /\ \A t \in Threads : /\ t.type \in Types /\ t.ind \in Nat /\ t.ind < Limit(t.type)
                        /\ t = Thread(t.type, t.ind)
  /\ \A type, i : Thread(type, i).type = type /\ Thread(type, i).ind = i
  /\ NoThread \notin Threads
<1>1. \A type \in Types : Limit(type) \in Nat
  BY ThreadsAssumption DEF Limit
<1>2. ASSUME NEW type \in Types, NEW i \in Nat, i < Limit(type)
      PROVE  Thread(type, i) \in Threads
  <2>1. Thread(type, i) \in [type : {type}, ind : 0 .. Limit(type) - 1]
    BY <1>1, <1>2 DEF Thread
  <2>2. QED
    BY <2>1 DEF Threads
<1>3. ASSUME NEW t \in Threads
      PROVE  t.type \in Types /\ t.ind \in Nat /\ t.ind < Limit(t.type) /\ t = Thread(t.type, t.ind)
  <2>1. PICK type \in Types : t \in [type : {type}, ind : 0 .. Limit(type) - 1]
    BY DEF Threads
  <2>2. QED
    BY <1>1, <2>1 DEF Thread
<1>4. QED
  BY <1>2, <1>3, NoThreadAssumption DEF Thread

\* There are finitely many threads.
LEMMA ThreadsFinite == IsFiniteSet(Threads)
<1> DEFINE Of(type) == [type : {type}, ind : 0 .. Limit(type) - 1]
           Number(type) == [t \in Of(type) |-> t.ind]
<1>1. ASSUME NEW type \in Types PROVE IsFiniteSet(Of(type))
  <2>1. Limit(type) \in Nat
    BY ThreadsAssumption DEF Limit
  <2>2. IsFiniteSet(0 .. Limit(type) - 1)
    BY <2>1, FS_Interval
  <2>3. Number(type) \in Injection(Of(type), 0 .. Limit(type) - 1)
    BY DEF Injection, IsInjective
  <2>4. QED
    BY <2>2, <2>3, FS_Injection
<1>2. Producer \in Types /\ Consumer \in Types
  BY DEF Types
<1>3. IsFiniteSet(Of(Producer)) /\ IsFiniteSet(Of(Consumer))
  BY <1>1, <1>2
<1>4. Threads = Of(Producer) \cup Of(Consumer)
  BY DEF Threads, Types
<1>5. QED
  BY <1>3, <1>4, FS_Union

\* Sets of threads can be counted, one thread more or less is one more or less.
LEMMA Counting ==
  ASSUME NEW S, S \subseteq Threads
  PROVE  /\ Cardinality(S) \in Nat
         /\ \A t \in Threads \ S : Cardinality(S \cup {t}) = Cardinality(S) + 1
         /\ \A t \in S : Cardinality(S \ {t}) = Cardinality(S) - 1 /\ Cardinality(S) >= 1
<1>1. IsFiniteSet(S)
  BY ThreadsFinite, FS_Subset
<1>2. Cardinality(S) \in Nat
  BY <1>1, FS_CardinalityType
<1>3. ASSUME NEW t \in Threads \ S PROVE Cardinality(S \cup {t}) = Cardinality(S) + 1
  BY <1>1, <1>3, FS_AddElement
<1>4. ASSUME NEW t \in S
      PROVE  Cardinality(S \ {t}) = Cardinality(S) - 1 /\ Cardinality(S) >= 1
  <2>1. Cardinality(S \ {t}) = Cardinality(S) - 1
    BY <1>1, <1>4, FS_RemoveElement
  <2>2. Cardinality(S \ {t}) \in Nat
    BY <1>1, FS_Subset, FS_CardinalityType
  <2>3. QED
    BY <1>2, <2>1, <2>2
<1>5. QED
  BY <1>2, <1>3, <1>4

\* The two sets that the agreement counts.
LEMMA Counted ==
  ASSUME NEW type
  PROVE  /\ InHand(type) \subseteq Threads /\ Cardinality(InHand(type)) \in Nat
         /\ Unposted(type) \subseteq Threads /\ Cardinality(Unposted(type)) \in Nat
<1>1. InHand(type) \subseteq Threads /\ Unposted(type) \subseteq Threads
  BY DEF InHand, Unposted
<1>2. QED
  BY <1>1, Counting

\* The invariant holds in the initial state.
LEMMA InvInit == Init => RingInv
<1> SUFFICES ASSUME Init PROVE RingInv
  OBVIOUS
<1> USE DEF Init
<1>1. Kinds
  <2>1. 0 \in 0 .. MAX_LEN - 1 /\ QUEUE_BASE_SIZE \in Nat
    BY LengthAssumption
  <2>2. \A type \in Types : 0 <= Limit(type)
    BY ThreadsAssumption DEF Limit
  <2>3. QED
    BY <2>1, <2>2, EmptyGood DEF Kinds, Labels, MainLabels
<1>2. Table
  <2>1. \A t \in Threads : ~(t.ind < count[t.type]) /\ pc[t] = "none" /\ working[t] = FALSE
    BY ThreadIs
  <2>2. victim = NoThread /\ main # "join" /\ cancelled = {}
    OBVIOUS
  <2>3. QED
    BY <2>1, <2>2 DEF Table
<1>3. MutexKept /\ Asked
  BY DEF MutexKept, Asked
<1>4. InHand(Producer) = {} /\ InHand(Consumer) = {} /\ Unposted(Producer) = {} /\ Unposted(Consumer) = {}
  BY ThreadIs DEF InHand, Unposted
<1>5. queue.len = 0 /\ queue.max_len = QUEUE_BASE_SIZE
  BY DEF EmptyQueue
<1>6. Tokens
  BY <1>4, <1>5, FS_EmptySet, LengthAssumption
  DEF Tokens, ItemsAgree, FreeSpaceCovered, Slack, FreeTokens, MainSlots, InDebt
<1>7. QED
  BY <1>1, <1>2, <1>3, <1>6 DEF RingInv

-----------------------------------------------------------------------------
(***************************************************************************)
(* The agreement of ring and semaphores, kept by the steps of a thread.    *)
(***************************************************************************)

\* A step that moves no thread in or out of the two sets leaves them alone.
LEMMA Steady ==
  ASSUME \A t \in Threads : pc'[t] = "lock" <=> pc[t] = "lock",
         \A t \in Threads : (pc'[t] = "post" \/ queue_mutex' = t)
                              <=> (pc[t] = "post" \/ queue_mutex = t)
  PROVE  /\ InHand(Producer)' = InHand(Producer) /\ InHand(Consumer)' = InHand(Consumer)
         /\ Unposted(Producer)' = Unposted(Producer) /\ Unposted(Consumer)' = Unposted(Consumer)
BY DEF InHand, Unposted

\* If moreover neither tokens nor lengths change, they still agree.
LEMMA TokensSteady ==
  ASSUME Tokens,
         \A t \in Threads : pc'[t] = "lock" <=> pc[t] = "lock",
         \A t \in Threads : (pc'[t] = "post" \/ queue_mutex' = t)
                              <=> (pc[t] = "post" \/ queue_mutex = t),
         MainSlots' = MainSlots, UNCHANGED sems,
         queue'.len = queue.len, queue'.max_len = queue.max_len
  PROVE  Balanced
BY Steady DEF Balanced, Tokens, ItemsAgree, Slack, FreeTokens, sems

\* As long as nothing is lost, no token is without a slot.
LEMMA BalancedTokens ==
  ASSUME Tokens, Balanced
  PROVE  Tokens'
BY DEF Tokens, Balanced, FreeSpaceCovered

\* What the main thread has in hand does not change unless it moves.
LEMMA MainSteady == UNCHANGED <<main, interrupted>> => MainSlots' = MainSlots
BY DEF MainSlots, InDebt

\* sem_wait() moves a token from the semaphore to the thread.
LEMMA SemWaitTokens ==
  ASSUME RingInv, NEW t \in Threads, SemWait(t)
  PROVE  Balanced
<1> USE DEF SemWait, Goto, mainVars, signalVars, tableVars, RingInv, Kinds
<1>1. pc' = [pc EXCEPT ![t] = "lock"] /\ pc[t] = "wait" /\ UNCHANGED <<queue_mutex, queue>>
  OBVIOUS
<1>2. Unposted(Producer)' = Unposted(Producer) /\ Unposted(Consumer)' = Unposted(Consumer)
  BY <1>1 DEF Unposted
<1>3. InHand(t.type)' = InHand(t.type) \cup {t} /\ t \notin InHand(t.type)
  BY <1>1 DEF InHand
<1>4. Cardinality(InHand(t.type))' = Cardinality(InHand(t.type)) + 1
  BY <1>3, Counted, Counting
<1>5. MainSlots' = MainSlots
  BY MainSteady
<1>6. CASE t.type = Producer
  <2>1. InHand(Consumer)' = InHand(Consumer)
    BY <1>1, <1>6 DEF InHand, Producer, Consumer
  <2>2. free_space_sem' = free_space_sem - 1 /\ items_sem' = items_sem
    BY <1>6 DEF Take
  <2>3. QED
    BY <1>1, <1>2, <1>4, <1>5, <1>6, <2>1, <2>2, Counted
    DEF Balanced, Tokens, ItemsAgree, Slack, FreeTokens, MainSlots, InDebt
<1>7. CASE t.type = Consumer
  <2>1. InHand(Producer)' = InHand(Producer)
    BY <1>1, <1>7 DEF InHand, Producer, Consumer
  <2>2. free_space_sem' = free_space_sem /\ items_sem' = items_sem - 1
    BY <1>7 DEF Take, Producer, Consumer
  <2>3. QED
    BY <1>1, <1>2, <1>4, <1>5, <1>7, <2>1, <2>2, Counted
    DEF Balanced, Tokens, ItemsAgree, Slack, FreeTokens, MainSlots, InDebt
<1>8. QED
  BY <1>6, <1>7, ThreadIs DEF Types

\* The lock, with the push or pop behind it, moves the thread from one set to
\* the other.
LEMMA LockMoves ==
  ASSUME RingInv, NEW t \in Threads, pc[t] = "lock", queue_mutex = NoThread, queue_mutex' = t,
         NEW label \in {"print", "unlock"}, pc' = [pc EXCEPT ![t] = label]
  PROVE  /\ Cardinality(InHand(t.type))' = Cardinality(InHand(t.type)) - 1
         /\ Cardinality(InHand(t.type)) >= 1
         /\ Cardinality(Unposted(t.type))' = Cardinality(Unposted(t.type)) + 1
         /\ \A type \in Types \ {t.type} : InHand(type)' = InHand(type) /\ Unposted(type)' = Unposted(type)
<1> USE DEF RingInv, Kinds
<1>1. InHand(t.type)' = InHand(t.type) \ {t} /\ t \in InHand(t.type)
  BY DEF InHand
<1>2. Unposted(t.type)' = Unposted(t.type) \cup {t} /\ t \notin Unposted(t.type)
  BY ThreadIs DEF Unposted
<1>3. ASSUME NEW type \in Types \ {t.type}
      PROVE  InHand(type)' = InHand(type) /\ Unposted(type)' = Unposted(type)
  BY ThreadIs DEF InHand, Unposted
<1>4. QED
  BY <1>1, <1>2, <1>3, Counted, Counting

\* A thread that comes through its semaphore is not refused, as long as ring and
\* semaphores agree.
LEMMA InHandSuffices ==
  ASSUME RingInv
  PROVE  NeverRefused
<1> SUFFICES ASSUME NEW t \in Threads, pc[t] = "lock"
             PROVE  IF t.type = Producer THEN ~Full(queue) ELSE ~Empty(queue)
  BY DEF NeverRefused
<1>1. Cardinality(InHand(t.type)) >= 1
  <2>1. t \in InHand(t.type)
    BY DEF InHand
  <2>2. QED
    BY <2>1, Counted, Counting
<1>2. GoodRing(queue) /\ free_space_sem \in Nat /\ items_sem \in Nat
  BY DEF RingInv, Kinds
<1>3. MainSlots \in Nat
  BY DEF MainSlots, InDebt
<1>4. CASE t.type = Producer
  BY <1>1, <1>2, <1>3, <1>4, Counted, Fields
  DEF RingInv, Tokens, FreeSpaceCovered, Slack, FreeTokens, Full
<1>5. CASE t.type = Consumer
  BY <1>1, <1>2, <1>5, Counted, Fields DEF RingInv, Tokens, ItemsAgree, Empty, Producer, Consumer
<1>6. QED
  BY <1>4, <1>5, ThreadIs DEF Types, Producer, Consumer

\* queue_push() under the lock: one message more, one post owed.
LEMMA LockPushTokens ==
  ASSUME RingInv, NEW t \in Threads, LockPush(t)
  PROVE  Balanced
<1>1. PICK m \in Messages : queue' = Push(queue, m)
  BY DEF LockPush
<1>2. /\ t.type = Producer /\ pc[t] = "lock" /\ queue_mutex = NoThread /\ queue_mutex' = t
      /\ pc' = [pc EXCEPT ![t] = "print"] /\ UNCHANGED sems /\ UNCHANGED <<main, interrupted>>
  BY DEF LockPush, Goto, mainVars, signalVars
<1>3. GoodRing(queue) /\ ~Full(queue)
  BY <1>2, InHandSuffices DEF NeverRefused, RingInv, Kinds
<1>4. queue'.len = queue.len + 1 /\ queue'.max_len = queue.max_len
  BY <1>1, <1>3, PushGood
<1>5. /\ Cardinality(InHand(Producer))' = Cardinality(InHand(Producer)) - 1
      /\ Cardinality(Unposted(Producer))' = Cardinality(Unposted(Producer)) + 1
      /\ InHand(Consumer)' = InHand(Consumer) /\ Unposted(Consumer)' = Unposted(Consumer)
  BY <1>2, LockMoves DEF Types, Producer, Consumer
<1>6. MainSlots' = MainSlots
  BY <1>2, MainSteady
<1>7. queue.len \in Nat /\ queue.max_len \in Nat /\ free_space_sem \in Nat /\ items_sem \in Nat
      /\ MainSlots \in Nat
  BY <1>3, Fields DEF RingInv, Kinds, MainSlots, InDebt
<1>8. QED
  BY <1>2, <1>4, <1>5, <1>6, <1>7, Counted
  DEF Balanced, RingInv, Tokens, ItemsAgree, Slack, FreeTokens, sems

\* queue_pop() under the lock: one message less, one post owed.
LEMMA LockPopTokens ==
  ASSUME RingInv, NEW t \in Threads, LockPop(t)
  PROVE  Balanced
<1>1. queue' = Pop(queue)
  BY DEF LockPop
<1>2. /\ t.type = Consumer /\ pc[t] = "lock" /\ queue_mutex = NoThread /\ queue_mutex' = t
      /\ UNCHANGED sems /\ UNCHANGED <<main, interrupted>>
  BY DEF LockPop, Goto, mainVars, signalVars
<1>3. GoodRing(queue) /\ ~Empty(queue)
  BY <1>2, InHandSuffices DEF NeverRefused, RingInv, Kinds, Producer, Consumer
<1>4. queue'.len = queue.len - 1 /\ queue'.max_len = queue.max_len
  BY <1>1, <1>3, PopGood
<1>5. PICK label \in {"print", "unlock"} : pc' = [pc EXCEPT ![t] = label]
  BY DEF LockPop, Goto
<1>6. /\ Cardinality(InHand(Consumer))' = Cardinality(InHand(Consumer)) - 1
      /\ Cardinality(Unposted(Consumer))' = Cardinality(Unposted(Consumer)) + 1
      /\ InHand(Producer)' = InHand(Producer) /\ Unposted(Producer)' = Unposted(Producer)
  BY <1>2, <1>5, LockMoves DEF Types, Producer, Consumer
<1>7. MainSlots' = MainSlots
  BY <1>2, MainSteady
<1>8. queue.len \in Nat /\ queue.max_len \in Nat /\ free_space_sem \in Nat /\ items_sem \in Nat
      /\ MainSlots \in Nat
  BY <1>3, Fields DEF RingInv, Kinds, MainSlots, InDebt
<1>9. QED
  BY <1>2, <1>4, <1>6, <1>7, <1>8, Counted
  DEF Balanced, RingInv, Tokens, ItemsAgree, Slack, FreeTokens, sems

\* sem_post() pays what is owed.
LEMMA SemPostTokens ==
  ASSUME RingInv, NEW t \in Threads, SemPost(t)
  PROVE  Balanced
<1> USE DEF SemPost, Goto, mainVars, signalVars, RingInv, Kinds
<1>1. pc' = [pc EXCEPT ![t] = "check"] /\ pc[t] = "post" /\ UNCHANGED <<queue_mutex, queue, main, interrupted>>
  OBVIOUS
<1>2. queue_mutex # t
  BY <1>1 DEF MutexKept
<1>3. InHand(Producer)' = InHand(Producer) /\ InHand(Consumer)' = InHand(Consumer)
  BY <1>1 DEF InHand
<1>4. Unposted(t.type)' = Unposted(t.type) \ {t} /\ t \in Unposted(t.type)
  BY <1>1, <1>2 DEF Unposted
<1>5. Cardinality(Unposted(t.type))' = Cardinality(Unposted(t.type)) - 1
  BY <1>4, Counted, Counting
<1>6. MainSlots' = MainSlots /\ MainSlots \in Nat
  BY <1>1, MainSteady DEF MainSlots, InDebt
<1>7. queue.len \in Nat /\ queue.max_len \in Nat /\ free_space_sem \in Nat /\ items_sem \in Nat
  BY Fields
<1>8. CASE t.type = Producer
  <2>1. Unposted(Consumer)' = Unposted(Consumer)
    BY <1>1, <1>8 DEF Unposted, Producer, Consumer
  <2>2. free_space_sem' = free_space_sem /\ items_sem' = items_sem + 1
    BY <1>8 DEF Give
  <2>3. QED
    BY <1>1, <1>3, <1>5, <1>6, <1>7, <1>8, <2>1, <2>2, Counted
    DEF Balanced, Tokens, ItemsAgree, Slack, FreeTokens
<1>9. CASE t.type = Consumer
  <2>1. Unposted(Producer)' = Unposted(Producer)
    BY <1>1, <1>9 DEF Unposted, Producer, Consumer
  <2>2. free_space_sem' = free_space_sem + 1 /\ items_sem' = items_sem
    BY <1>9 DEF Give, Producer, Consumer
  <2>3. QED
    BY <1>1, <1>3, <1>5, <1>6, <1>7, <1>9, <2>1, <2>2, Counted
    DEF Balanced, Tokens, ItemsAgree, Slack, FreeTokens
<1>10. QED
  BY <1>8, <1>9, ThreadIs DEF Types

-----------------------------------------------------------------------------
(***************************************************************************)
(* The whole invariant, kept by the steps of a thread.                     *)
(***************************************************************************)

\* What every step of a thread leaves alone.
LEMMA StepFrame ==
  ASSUME NEW t \in Threads, Step(t)
  PROVE  UNCHANGED <<mainVars, tableVars>>
BY DEF Step, CheckWorking, SemWait, LockPush, LockPop, Unlock, SemPost, ActOnCancel

\* Semaphores, ring and mutex keep their kinds.
LEMMA StepKinds ==
  ASSUME RingInv, NEW t \in Threads, Step(t)
  PROVE  Kinds'
<1> USE DEF RingInv, Kinds, Goto
<1>1. UNCHANGED <<main, quitting, interrupted, slot, count, working>>
  BY StepFrame DEF mainVars, signalVars, tableVars
<1>2. CASE CheckWorking(t)
  BY <1>1, <1>2 DEF CheckWorking, sems, Labels
<1>3. CASE SemWait(t)
  <2>1. free_space_sem' \in Nat /\ items_sem' \in Nat
    BY <1>3 DEF SemWait, Take
  <2>2. QED
    BY <1>1, <1>3, <2>1 DEF SemWait, Labels
<1>4. CASE LockPush(t)
  <2>1. GoodRing(queue')
    BY <1>4, PushGood DEF LockPush
  <2>2. QED
    BY <1>1, <1>4, <2>1 DEF LockPush, sems, Labels
<1>5. CASE LockPop(t)
  <2>1. GoodRing(queue')
    BY <1>5, PopGood DEF LockPop
  <2>2. QED
    BY <1>1, <1>5, <2>1 DEF LockPop, sems, Labels
<1>6. CASE Unlock(t)
  BY <1>1, <1>6 DEF Unlock, sems, Labels
<1>7. CASE SemPost(t)
  <2>1. free_space_sem' \in Nat /\ items_sem' \in Nat
    BY <1>7 DEF SemPost, Give
  <2>2. QED
    BY <1>1, <1>7, <2>1 DEF SemPost, Labels
<1>8. CASE ActOnCancel(t)
  BY <1>1, <1>8 DEF ActOnCancel, sems, Labels
<1>9. QED
  BY <1>2, <1>3, <1>4, <1>5, <1>6, <1>7, <1>8 DEF Step

\* No thread comes into being or disappears.
LEMMA StepTable ==
  ASSUME RingInv, NEW t \in Threads, Step(t)
  PROVE  Table'
<1>1. UNCHANGED <<main, quitting, victim, signalVars, count, working, cancelled>>
  BY StepFrame DEF mainVars, tableVars
<1>2. PICK label \in Labels \ {"none"} : pc' = [pc EXCEPT ![t] = label]
  BY DEF Step, CheckWorking, SemWait, LockPush, LockPop, Unlock, SemPost, ActOnCancel, Goto, Labels
<1>3. pc[t] # "none"
  BY DEF Step, CheckWorking, SemWait, LockPush, LockPop, Unlock, SemPost, ActOnCancel
<1>4. \A u \in Threads : pc'[u] # "none" <=> pc[u] # "none"
  BY <1>2, <1>3 DEF RingInv, Kinds
<1>5. QED
  BY <1>1, <1>4 DEF RingInv, Table, signalVars

\* Whoever enters the critical section has the mutex, whoever leaves it gives it back.
LEMMA StepMutex ==
  ASSUME RingInv, NEW t \in Threads, Step(t)
  PROVE  MutexKept'
<1> USE DEF RingInv, Kinds, Goto, MutexKept
<1>0. NoThread # t
  BY ThreadIs
<1>1. CASE CheckWorking(t)
  BY <1>1 DEF CheckWorking
<1>2. CASE SemWait(t)
  BY <1>2 DEF SemWait
<1>3. CASE LockPush(t)
  BY <1>3, ThreadIs DEF LockPush
<1>4. CASE LockPop(t)
  BY <1>4, ThreadIs DEF LockPop
<1>5. CASE Unlock(t)
  BY <1>5, ThreadIs DEF Unlock
<1>6. CASE SemPost(t)
  BY <1>6 DEF SemPost
<1>7. CASE ActOnCancel(t)
  BY <1>7 DEF ActOnCancel
<1>8. QED
  BY <1>1, <1>2, <1>3, <1>4, <1>5, <1>6, <1>7 DEF Step

\* No thread changes the length of the array.
LEMMA StepAsked ==
  ASSUME RingInv, NEW t \in Threads, Step(t)
  PROVE  Asked'
<1>1. UNCHANGED <<main, quitting, interrupted>>
  BY StepFrame DEF mainVars, signalVars
<1>2. queue'.max_len = queue.max_len
  BY PushGood, PopGood
  DEF Step, CheckWorking, SemWait, LockPush, LockPop, Unlock, SemPost, ActOnCancel, RingInv, Kinds
<1>3. QED
  BY <1>1, <1>2 DEF RingInv, Asked

\* Ring and semaphores go on agreeing.
LEMMA StepTokens ==
  ASSUME RingInv, NEW t \in Threads, Step(t)
  PROVE  Balanced
<1>0. MainSlots' = MainSlots
  BY StepFrame, MainSteady DEF mainVars, signalVars
<1>1. CASE CheckWorking(t)
  BY <1>0, <1>1, TokensSteady DEF CheckWorking, Goto, RingInv, Kinds
<1>2. CASE SemWait(t)
  BY <1>2, SemWaitTokens
<1>3. CASE LockPush(t)
  BY <1>3, LockPushTokens
<1>4. CASE LockPop(t)
  BY <1>4, LockPopTokens
<1>5. CASE Unlock(t)
  <2>1. queue_mutex = t /\ queue_mutex' = NoThread /\ pc' = [pc EXCEPT ![t] = "post"]
        /\ pc[t] # "lock" /\ UNCHANGED <<sems, queue>>
    BY <1>5 DEF Unlock, Goto, RingInv, MutexKept
  <2>2. \A u \in Threads : pc'[u] = "lock" <=> pc[u] = "lock"
    BY <2>1 DEF RingInv, Kinds
  <2>3. \A u \in Threads : (pc'[u] = "post" \/ queue_mutex' = u) <=> (pc[u] = "post" \/ queue_mutex = u)
    BY <2>1, ThreadIs DEF RingInv, Kinds
  <2>4. QED
    BY <1>0, <2>1, <2>2, <2>3, TokensSteady DEF RingInv
<1>6. CASE SemPost(t)
  BY <1>6, SemPostTokens
<1>7. CASE ActOnCancel(t)
  BY <1>0, <1>7, TokensSteady DEF ActOnCancel, Goto, RingInv, Kinds
<1>8. QED
  BY <1>1, <1>2, <1>3, <1>4, <1>5, <1>6, <1>7 DEF Step

\* A step of a thread preserves the invariant.
LEMMA StepInv ==
  ASSUME RingInv, NEW t \in Threads, Step(t)
  PROVE  RingInv' /\ Balanced
BY StepKinds, StepTable, StepMutex, StepAsked, StepTokens, BalancedTokens DEF RingInv

-----------------------------------------------------------------------------
(***************************************************************************)
(* The steps of the main thread.                                           *)
(***************************************************************************)

\* With victim and forgotten unset, the lowest free entry is the one after the last thread.
LEMMA FreeIndexIsCount ==
  ASSUME RingInv, victim = NoThread, forgotten = NoThread, NEW type \in Types, count[type] < Limit(type)
  PROVE  FreeIndex(type) = count[type]
<1> DEFINE IsFree(i) == /\ ~working[Thread(type, i)]
                        /\ \A j \in 0 .. i - 1 : working[Thread(type, j)]
<1>1. count[type] \in Nat /\ Limit(type) \in Nat
  BY ThreadsAssumption DEF RingInv, Kinds, Limit
<1>2. \A i \in 0 .. Limit(type) - 1 : working[Thread(type, i)] <=> i < count[type]
  <2> SUFFICES ASSUME NEW i \in 0 .. Limit(type) - 1
               PROVE  working[Thread(type, i)] <=> i < count[type]
    OBVIOUS
  <2>1. Thread(type, i) \in Threads /\ Thread(type, i).type = type /\ Thread(type, i).ind = i
    BY <1>1, ThreadIs
  <2>2. Thread(type, i) \notin {victim, forgotten}
    BY <2>1, ThreadIs
  <2>3. QED
    BY <2>1, <2>2 DEF RingInv, Table
<1>3. count[type] \in 0 .. Limit(type) - 1 /\ IsFree(count[type])
  BY <1>1, <1>2
<1>4. ASSUME NEW i \in 0 .. Limit(type) - 1, IsFree(i) PROVE i = count[type]
  <2>1. ~(i < count[type])
    BY <1>2, <1>4
  <2>2. ~(count[type] < i)
    BY <1>1, <1>2, <1>4
  <2>3. QED
    BY <1>1, <2>1, <2>2
<1> HIDE DEF IsFree
<1>5. FreeIndex(type) = CHOOSE i \in 0 .. Limit(type) - 1 : IsFree(i)
  BY DEF FreeIndex, IsFree
<1>6. QED
  BY <1>3, <1>4, <1>5

\* What the main thread leaves alone when it only looks at things: the agreement
\* and the mutex.
LEMMA ThreadsRest ==
  ASSUME RingInv, UNCHANGED <<pc, queue_mutex, sems, queue>>, MainSlots' = MainSlots
  PROVE  MutexKept' /\ Tokens' /\ Balanced
<1>1. MutexKept'
  BY DEF RingInv, MutexKept
<1>2. Tokens' /\ Balanced
  BY TokensSteady, BalancedTokens DEF RingInv
<1>3. QED
  BY <1>1, <1>2

\* create_thread() puts a thread into an entry that no thread has.
LEMMA CreateThreadInv ==
  ASSUME RingInv, NEW command, NEW type \in Types, CreateThread(command, type)
  PROVE  RingInv' /\ Balanced
<1> USE DEF RingInv, Kinds
<1> DEFINE t == Thread(type, count[type])
<1>1. main = "command" /\ ~quitting /\ count[type] < Limit(type) /\ UNCHANGED <<mainVars, cancelled, queue_mutex, sems, queue>>
  BY DEF CreateThread, MayRead
<1>2. victim = NoThread /\ forgotten = NoThread
  BY <1>1 DEF Table, Asked
<1>3. FreeIndex(type) = count[type]
  BY <1>1, <1>2, FreeIndexIsCount
<1>4. /\ working' = [working EXCEPT ![t] = TRUE] /\ pc' = [pc EXCEPT ![t] = "check"]
      /\ count' = [count EXCEPT ![type] = @ + 1]
  BY <1>3 DEF CreateThread, Goto
<1>5. t \in Threads /\ t.type = type /\ t.ind = count[type] /\ count[type] \in Nat
  BY <1>1, ThreadIs
<1> HIDE DEF t
<1>6. pc[t] = "none"
  BY <1>5 DEF Table
<1>7. Kinds'
  <2>1. count' \in [Types -> Nat]
    BY <1>4, <1>5
  <2>2. \A ty \in Types : count'[ty] <= Limit(ty)
    <3>1. Limit(type) \in Nat
      BY ThreadsAssumption DEF Limit
    <3>2. QED
      BY <1>1, <1>4, <1>5, <3>1
  <2>3. working' \in [Threads -> BOOLEAN] /\ pc' \in [Threads -> Labels]
    BY <1>4 DEF Labels
  <2>4. QED
    BY <1>1, <2>1, <2>2, <2>3 DEF mainVars, signalVars, sems
<1>8. Table'
  <2>1. ASSUME NEW u \in Threads
        PROVE  u.ind < count'[u.type] <=> u.ind < count[u.type] \/ u = t
    <3>1. u.type \in Types /\ u.ind \in Nat /\ u = Thread(u.type, u.ind)
      BY ThreadIs
    <3>2. CASE u.type = type
      <4>1. u = t <=> u.ind = count[type]
        BY <1>5, <3>1, <3>2 DEF t
      <4>2. count'[type] = count[type] + 1
        BY <1>4
      <4>3. QED
        BY <1>5, <3>1, <3>2, <4>1, <4>2
    <3>3. CASE u.type # type
      BY <1>4, <1>5, <3>1, <3>3
    <3>4. QED
      BY <3>2, <3>3
  <2>2. \A u \in Threads : pc'[u] # "none" <=> pc[u] # "none" \/ u = t
    BY <1>4, <1>5
  <2>3. \A u \in Threads : working'[u] <=> working[u] \/ u = t
    BY <1>4, <1>5
  <2>4. \A u \in Threads : u \notin {victim, forgotten} /\ u \notin {victim', forgotten'}
    BY <1>1, <1>2, ThreadIs DEF mainVars, signalVars
  <2>5. UNCHANGED <<main, quitting, victim, forgotten, interrupted, cancelled>>
    BY <1>1 DEF mainVars, signalVars
  <2>6. QED
    BY <1>2, <2>1, <2>2, <2>3, <2>4, <2>5 DEF Table
<1>9. MutexKept'
  BY <1>1, <1>4, <1>5 DEF MutexKept
<1>10. Asked'
  BY <1>1 DEF Asked, mainVars, signalVars
<1>11. Tokens' /\ Balanced
  <2>1. MainSlots' = MainSlots
    BY <1>1, MainSteady DEF mainVars, signalVars
  <2>2. \A u \in Threads : pc'[u] = "lock" <=> pc[u] = "lock"
    BY <1>4, <1>6
  <2>3. \A u \in Threads : (pc'[u] = "post" \/ queue_mutex' = u) <=> (pc[u] = "post" \/ queue_mutex = u)
    BY <1>1, <1>4, <1>6
  <2>4. QED
    BY <1>1, <2>1, <2>2, <2>3, TokensSteady, BalancedTokens
<1>12. QED
  BY <1>7, <1>8, <1>9, <1>10, <1>11

\* close_thread_by_ind() picks the last thread of the type.
LEMMA CloseThreadInv ==
  ASSUME RingInv, NEW type \in Types, main = "command", CloseThread(type)
  PROVE  RingInv' /\ Balanced
<1> USE DEF RingInv, Kinds
<1> DEFINE t == Thread(type, count[type] - 1)
<1>1. victim = NoThread /\ cancelled \subseteq {forgotten} \ {NoThread}
  BY DEF Table
<1>2. /\ count[type] > 0 /\ main' = "join" /\ victim' = t /\ working' = [working EXCEPT ![t] = FALSE]
      /\ cancelled' \subseteq cancelled \cup {t} /\ working[t]
      /\ UNCHANGED <<quitting, slot, interrupted, forgotten, count, pc, queue_mutex, sems, queue>>
  BY DEF CloseThread, signalVars
<1>3. t \in Threads /\ t.type = type /\ t.ind = count[type] - 1
  <2>1. count[type] \in Nat /\ count[type] <= Limit(type) /\ Limit(type) \in Nat
    BY ThreadsAssumption DEF Limit
  <2>2. count[type] - 1 \in Nat /\ count[type] - 1 < Limit(type)
    BY <1>2, <2>1
  <2>3. QED
    BY <2>2, ThreadIs
<1> HIDE DEF t
<1>4. Kinds'
  BY <1>2, <1>3 DEF sems, MainLabels
<1>5. Table'
  <2>1. \A u \in Threads : working'[u] <=> working[u] /\ u # t
    BY <1>2, <1>3
  <2>2. \A u \in Threads : working[u] <=> u.ind < count[u.type] /\ u # forgotten
    BY <1>1, ThreadIs DEF Table
  <2>3. t # NoThread
    BY <1>3, ThreadIs
  <2>4. forgotten # NoThread => forgotten.type # type
    <3>1. t # forgotten
      BY <1>2, <1>3, <2>2
    <3>2. forgotten # NoThread => forgotten \in Threads /\ forgotten.ind = count[forgotten.type] - 1
      BY DEF Table
    <3>3. forgotten # NoThread => forgotten = Thread(forgotten.type, forgotten.ind)
      BY <3>2, ThreadIs
    <3>4. QED
      BY <3>1, <3>2, <3>3 DEF t
  <2>5. \A u \in {victim', forgotten'} : u # NoThread => u.ind = count'[u.type] - 1
    BY <1>2, <1>3 DEF Table
  <2>6. cancelled' \subseteq {victim', forgotten'} \ {NoThread}
    BY <1>1, <1>2, <2>3
  <2>7. UNCHANGED <<pc, count>>
    BY <1>2
  <2>8. QED
    BY <1>2, <1>3, <2>1, <2>2, <2>3, <2>4, <2>5, <2>6, <2>7 DEF Table
<1>6. MainSlots' = MainSlots
  BY <1>2 DEF MainSlots, InDebt
<1>7. MutexKept' /\ Tokens' /\ Balanced
  BY <1>2, <1>6, ThreadsRest
<1>8. Asked'
  BY <1>2 DEF Asked
<1>9. QED
  BY <1>4, <1>5, <1>7, <1>8

\* pthread_join() returns: the last entry is free again.
LEMMA JoinInv ==
  ASSUME RingInv, Join
  PROVE  RingInv' /\ Balanced
<1> USE DEF RingInv, Kinds
<1> DEFINE v == victim
           type == victim.type
<1>1. /\ main = "join" /\ main' = "command" /\ pc[v] = "ended" /\ pc' = [pc EXCEPT ![v] = "none"]
      /\ cancelled' = cancelled \ {v} /\ count' = [count EXCEPT ![type] = @ - 1]
      /\ victim' = NoThread
      /\ UNCHANGED <<quitting, slot, interrupted, forgotten, working, queue_mutex, sems, queue>>
  BY DEF Join, Goto, signalVars
<1>2. v \in Threads /\ v.ind = count[type] - 1
  BY <1>1 DEF Table
<1>3. type \in Types /\ v.ind \in Nat /\ count[type] \in Nat /\ count'[type] = v.ind
  BY <1>1, <1>2, ThreadIs
<1>4. Kinds'
  <2>1. count' \in [Types -> Nat]
    BY <1>1, <1>3
  <2>2. \A ty \in Types : count'[ty] <= Limit(ty)
    <3>1. \A ty \in Types : Limit(ty) \in Nat
      BY ThreadsAssumption DEF Limit
    <3>2. QED
      BY <1>1, <1>2, <1>3, <3>1
  <2>3. QED
    BY <1>1, <2>1, <2>2 DEF sems, Labels, MainLabels
<1>5. Table'
  <2>1. ASSUME NEW u \in Threads
        PROVE  u.ind < count'[u.type] <=> u.ind < count[u.type] /\ u # v
    <3>1. u.type \in Types /\ u.ind \in Nat /\ u = Thread(u.type, u.ind) /\ v = Thread(type, v.ind)
      BY <1>2, ThreadIs
    <3>2. CASE u.type = type
      <4>1. u = v <=> u.ind = v.ind
        BY <3>1, <3>2
      <4>2. QED
        BY <1>2, <1>3, <3>1, <3>2, <4>1
    <3>3. CASE u.type # type
      BY <1>1, <1>3, <3>1, <3>3
    <3>4. QED
      BY <3>2, <3>3
  <2>2. \A u \in Threads : pc'[u] # "none" <=> pc[u] # "none" /\ u # v
    BY <1>1, <1>2
  <2>3. \A u \in Threads : u # victim'
    BY <1>1, ThreadIs
  <2>4. cancelled' \subseteq {forgotten} \ {NoThread}
    BY <1>1 DEF Table
  <2>5. forgotten # NoThread => forgotten # v /\ count'[forgotten.type] = count[forgotten.type]
    BY <1>1, <1>2 DEF Table
  <2> HIDE DEF type
  <2>6. forgotten # NoThread => forgotten'.ind = count'[forgotten'.type] - 1
    BY <1>1, <2>5 DEF Table
  <2>7. \A u \in Threads : working'[u] <=> u.ind < count'[u.type] /\ u # forgotten'
    BY <1>1, <2>1 DEF Table
  <2>8. QED
    BY <1>1, <2>1, <2>2, <2>3, <2>4, <2>6, <2>7 DEF Table
<1>6. MutexKept'
  BY <1>1, <1>2 DEF MutexKept
<1>7. Asked'
  BY <1>1 DEF Asked
<1>8. Tokens' /\ Balanced
  <2>1. MainSlots' = MainSlots
    BY <1>1 DEF MainSlots, InDebt
  <2>2. \A u \in Threads : pc'[u] = "lock" <=> pc[u] = "lock"
    BY <1>1
  <2>3. \A u \in Threads : (pc'[u] = "post" \/ queue_mutex' = u) <=> (pc[u] = "post" \/ queue_mutex = u)
    BY <1>1
  <2>4. QED
    BY <1>1, <2>1, <2>2, <2>3, TokensSteady, BalancedTokens
<1>9. QED
  BY <1>4, <1>5, <1>6, <1>7, <1>8

\* queue_print(), the question whether to resize, "q" and the end only move the
\* main thread.
LEMMA LookInv ==
  ASSUME RingInv,
         \/ PrintFind \/ PrintRead \/ ReduceAsk \/ ExpandAsk \/ Quit \/ Exit
  PROVE  RingInv' /\ Balanced
<1> USE DEF RingInv, Kinds
<1>1. /\ UNCHANGED <<victim, interrupted, forgotten, tableVars, pc, queue_mutex, sems, queue>>
      /\ main # "join" /\ main' # "join" /\ MainSlots' = MainSlots
  BY DEF PrintFind, PrintRead, ReduceAsk, ExpandAsk, Quit, Exit, MayRead, MainSlots, InDebt, signalVars
<1>2. slot' \in 0 .. MAX_LEN - 1
  <2>1. CASE PrintFind
    <3>1. slot' \in DOMAIN queue.messages
      BY <2>1 DEF PrintFind
    <3>2. DOMAIN queue.messages = 0 .. queue.max_len - 1
      BY Fields
    <3>3. QED
      BY <3>1, <3>2, Fields
  <2>2. CASE PrintRead
    BY <2>2, LengthAssumption DEF PrintRead
  <2>3. CASE ReduceAsk \/ ExpandAsk \/ Quit \/ Exit
    BY <2>3 DEF ReduceAsk, ExpandAsk, Quit, Exit
  <2>4. QED
    BY <2>1, <2>2, <2>3
<1>3. Kinds'
  <2>1. main' \in {"command", "print", "reduce", "expand", "done"} /\ quitting' \in BOOLEAN
    BY DEF PrintFind, PrintRead, ReduceAsk, ExpandAsk, Quit, Exit, MayRead
  <2>2. QED
    BY <1>1, <1>2, <2>1 DEF tableVars, sems, MainLabels
<1>4. Table'
  BY <1>1 DEF Table, tableVars
<1>5. MutexKept' /\ Tokens' /\ Balanced
  BY <1>1, ThreadsRest
<1>6. Asked'
  BY <1>1 DEF PrintFind, PrintRead, ReduceAsk, ExpandAsk, Quit, Exit, MayRead, Asked
<1>7. QED
  BY <1>3, <1>4, <1>5, <1>6

\* What the steps that resize the ring leave alone.
LEMMA ResizeFrame ==
  ASSUME RingInv, \/ ReduceWait \/ ReduceQueue \/ ExpandQueue \/ ExpandPost
  PROVE  /\ Table' /\ MutexKept'
         /\ UNCHANGED <<quitting, slot, interrupted, count, working, pc, queue_mutex, items_sem>>
         /\ interrupted = "no" /\ ~quitting
         /\ main' \in {"command", "reduce_lock", "expand_post"}
         /\ InHand(Producer)' = InHand(Producer) /\ InHand(Consumer)' = InHand(Consumer)
         /\ Unposted(Producer)' = Unposted(Producer) /\ Unposted(Consumer)' = Unposted(Consumer)
<1>1. /\ UNCHANGED <<quitting, victim, slot, signalVars, tableVars, pc, queue_mutex, items_sem>>
      /\ main \notin {"join", "command", "done"} /\ main' \in {"command", "reduce_lock", "expand_post"}
  BY DEF ReduceWait, ReduceQueue, ExpandQueue, ExpandPost, sems
<1>2. Table'
  BY <1>1 DEF RingInv, Table, tableVars, signalVars
<1>3. MutexKept'
  BY <1>1 DEF RingInv, MutexKept
<1>4. interrupted = "no" /\ ~quitting
  BY <1>1 DEF RingInv, Asked
<1>5. QED
  BY <1>1, <1>2, <1>3, <1>4 DEF InHand, Unposted, tableVars, signalVars

\* The main thread takes a free slot out of the semaphore ...
LEMMA ReduceWaitInv ==
  ASSUME RingInv, ReduceWait
  PROVE  RingInv' /\ Balanced
<1>1. /\ main = "reduce" /\ main' = "reduce_lock" /\ free_space_sem' = free_space_sem - 1
      /\ free_space_sem > 0 /\ UNCHANGED queue
  BY DEF ReduceWait
<1>2. Kinds'
  BY <1>1, ResizeFrame DEF RingInv, Kinds, MainLabels
<1>3. Asked'
  BY <1>1, ResizeFrame DEF RingInv, Asked
<1>4. Tokens' /\ Balanced
  <2>1. MainSlots = 0 /\ MainSlots' = 1
    BY <1>1, ResizeFrame DEF MainSlots, InDebt
  <2>2. queue.len \in Nat /\ queue.max_len \in Nat /\ free_space_sem \in Nat
    BY Fields DEF RingInv, Kinds
  <2>3. Balanced
    BY <1>1, <2>1, <2>2, ResizeFrame, Counted
    DEF Balanced, RingInv, Tokens, ItemsAgree, Slack, FreeTokens
  <2>4. QED
    BY <2>3, BalancedTokens DEF RingInv
<1>5. QED
  BY <1>2, <1>3, <1>4, ResizeFrame DEF RingInv

\* The sets that the agreement counts, as the steps that resize the ring leave them.
SameThreads ==
  /\ InHand(Producer)' = InHand(Producer) /\ InHand(Consumer)' = InHand(Consumer)
  /\ Unposted(Producer)' = Unposted(Producer) /\ Unposted(Consumer)' = Unposted(Consumer)

\* queue_reduce() takes the slot out of the ring; a ring of one slot keeps it, and the
\* token is lost.
LEMMA ReduceTokens ==
  ASSUME RingInv, main = "reduce_lock", queue' = Reduce(queue), UNCHANGED sems,
         MainSlots = 1, MainSlots' = 0, SameThreads
  PROVE  GoodRing(queue') /\ Tokens' /\ (queue.max_len # 1 => Slack' = Slack)
<1>1. GoodRing(queue) /\ GoodRing(queue')
  BY ReduceGood DEF RingInv, Kinds
<1>2. queue.len \in Nat /\ queue.max_len \in Nat /\ free_space_sem \in Nat /\ queue'.max_len \in Nat
  BY <1>1, Fields DEF RingInv, Kinds
<1>3. queue'.len = queue.len /\ queue.max_len - 1 <= queue'.max_len
  BY <1>1, ReduceGood
<1>4. "r" \in Commands
  BY DEF RingInv, Asked
<1>5. ItemsAgree'
  BY <1>3 DEF RingInv, Tokens, ItemsAgree, sems, SameThreads
<1>6. Slack' = Slack + 1 - (queue.max_len - queue'.max_len)
  BY <1>2, <1>3, Counted DEF Slack, FreeTokens, sems, SameThreads
<1>7. Slack \in Int /\ Slack >= 0
  BY <1>2, Counted DEF RingInv, Tokens, FreeSpaceCovered, Slack, FreeTokens
<1>8. FreeSpaceCovered'
  BY <1>2, <1>3, <1>6, <1>7 DEF FreeSpaceCovered
<1>9. queue.max_len # 1 => queue'.max_len = queue.max_len - 1
  BY <1>2, <1>7, Counted DEF Reduce, Slack, FreeTokens
<1>10. QED
  BY <1>1, <1>2, <1>4, <1>5, <1>6, <1>7, <1>8, <1>9 DEF Tokens

\* queue_expand() makes a slot that the main thread still has to announce.
LEMMA ExpandTokens ==
  ASSUME RingInv, main = "expand", queue' \in Expanded(queue), UNCHANGED sems,
         MainSlots = 0, MainSlots' = 1, SameThreads
  PROVE  GoodRing(queue') /\ Tokens' /\ Balanced
<1>1. GoodRing(queue) /\ queue.max_len < MAX_LEN
  BY DEF RingInv, Kinds, Asked
<1>2. GoodRing(queue') /\ queue'.max_len = queue.max_len + 1 /\ queue'.len = queue.len
  BY <1>1, ExpandGood
<1>3. queue.len \in Nat /\ queue.max_len \in Nat /\ free_space_sem \in Nat
  BY <1>1, Fields DEF RingInv, Kinds
<1>4. Balanced
  BY <1>2, <1>3, Counted
  DEF Balanced, RingInv, Tokens, ItemsAgree, Slack, FreeTokens, sems, SameThreads
<1>5. QED
  BY <1>2, <1>4, BalancedTokens DEF RingInv

\* ... gives it up under queue_mutex ...
LEMMA ReduceQueueInv ==
  ASSUME RingInv, ReduceQueue
  PROVE  RingInv' /\ (queue.max_len # 1 => Slack' = Slack)
<1>1. /\ main = "reduce_lock" /\ main' = "command" /\ UNCHANGED sems /\ queue' = Reduce(queue)
  BY DEF ReduceQueue
<1>2. MainSlots = 1 /\ MainSlots' = 0
  BY <1>1, ResizeFrame DEF MainSlots, InDebt
<1>3. SameThreads
  BY ResizeFrame DEF SameThreads
<1>4. GoodRing(queue') /\ Tokens' /\ (queue.max_len # 1 => Slack' = Slack)
  BY <1>1, <1>2, <1>3, ReduceTokens
<1>5. Kinds'
  BY <1>1, <1>4, ResizeFrame DEF RingInv, Kinds, sems, MainLabels
<1>6. Asked'
  BY <1>1, ResizeFrame DEF Asked
<1>7. QED
  BY <1>4, <1>5, <1>6, ResizeFrame DEF RingInv

\* ... or makes one there.
LEMMA ExpandQueueInv ==
  ASSUME RingInv, ExpandQueue
  PROVE  RingInv' /\ Balanced
<1>1. /\ main = "expand" /\ main' = "expand_post" /\ UNCHANGED sems /\ queue' \in Expanded(queue)
  BY DEF ExpandQueue
<1>2. MainSlots = 0 /\ MainSlots' = 1
  BY <1>1, ResizeFrame DEF MainSlots, InDebt
<1>3. SameThreads
  BY ResizeFrame DEF SameThreads
<1>4. GoodRing(queue') /\ Tokens' /\ Balanced
  BY <1>1, <1>2, <1>3, ExpandTokens
<1>5. Kinds'
  BY <1>1, <1>4, ResizeFrame DEF RingInv, Kinds, sems, MainLabels
<1>6. Asked'
  BY <1>1, ResizeFrame DEF Asked
<1>7. QED
  BY <1>4, <1>5, <1>6, ResizeFrame DEF RingInv

LEMMA ExpandPostInv ==
  ASSUME RingInv, ExpandPost
  PROVE  RingInv' /\ Balanced
<1>1. /\ main = "expand_post" /\ main' = "command" /\ free_space_sem' = free_space_sem + 1
      /\ UNCHANGED queue
  BY DEF ExpandPost
<1>2. Kinds'
  BY <1>1, ResizeFrame DEF RingInv, Kinds, MainLabels
<1>3. Asked'
  BY <1>1, ResizeFrame DEF Asked
<1>4. Tokens' /\ Balanced
  <2>1. MainSlots = 1 /\ MainSlots' = 0
    BY <1>1, ResizeFrame DEF MainSlots, InDebt
  <2>2. queue.len \in Nat /\ queue.max_len \in Nat /\ free_space_sem \in Nat
    BY Fields DEF RingInv, Kinds
  <2>3. Balanced
    BY <1>1, <2>1, <2>2, ResizeFrame, Counted
    DEF Balanced, RingInv, Tokens, ItemsAgree, Slack, FreeTokens
  <2>4. QED
    BY <2>3, BalancedTokens DEF RingInv
<1>5. QED
  BY <1>2, <1>3, <1>4, ResizeFrame DEF RingInv

\* SIGINT: the thread that was being joined is forgotten, and a slot in hand is never
\* accounted for; what is done to the ring under queue_mutex may be done or not.
LEMMA InterruptInv ==
  ASSUME RingInv, Interrupt
  PROVE  RingInv' /\ (Slack' # Slack => main = "reduce_lock" /\ queue.max_len = 1)
<1>1. /\ interrupted = "no" /\ interrupted' \in MainLabels \ {"done"} /\ main # "done"
      /\ quitting' = TRUE /\ main' = "command" /\ forgotten' = victim /\ victim' = NoThread /\ slot' = 0
      /\ UNCHANGED <<count, working, cancelled, pc, sems>>
  BY DEF Interrupt, Resized, tableVars, RingInv, Kinds, MainLabels
<1>2. \/ queue_mutex' = queue_mutex
      \/ queue_mutex = NoThread /\ queue_mutex' = MainThread
  BY DEF Interrupt
<1>3. \A t \in Threads : queue_mutex' = t <=> queue_mutex = t
  BY <1>2, NoThreadAssumption
<1>4. SameThreads
  BY <1>1, <1>3, Steady DEF SameThreads
<1>5. GoodRing(queue') /\ Tokens' /\ (Slack' # Slack => main = "reduce_lock" /\ queue.max_len = 1)
  <2>1. CASE UNCHANGED queue /\ interrupted' = main
    <3>1. MainSlots' = MainSlots
      BY <1>1, <2>1 DEF MainSlots, InDebt
    <3>2. Balanced
      BY <1>1, <1>3, <2>1, <3>1, TokensSteady DEF RingInv
    <3>3. QED
      BY <2>1, <3>2, BalancedTokens DEF RingInv, Kinds, Balanced
  <2>2. CASE main = "reduce_lock" /\ interrupted' = "command" /\ queue' = Reduce(queue)
    <3>1. MainSlots = 1 /\ MainSlots' = 0
      BY <1>1, <2>2 DEF MainSlots, InDebt
    <3>2. QED
      BY <1>1, <1>4, <2>2, <3>1, ReduceTokens
  <2>3. CASE main = "expand" /\ interrupted' = "expand_post" /\ queue' \in Expanded(queue)
    <3>1. MainSlots = 0 /\ MainSlots' = 1
      BY <1>1, <2>3 DEF MainSlots, InDebt
    <3>2. QED
      BY <1>1, <1>4, <2>3, <3>1, ExpandTokens DEF Balanced
  <2>4. QED
    BY <2>1, <2>2, <2>3 DEF Interrupt, Resized
<1>6. Kinds'
  BY <1>1, <1>2, <1>5, LengthAssumption DEF RingInv, Kinds, sems, MainLabels
<1>7. Table'
  <2>1. forgotten = NoThread
    BY <1>1 DEF RingInv, Table
  <2>2. QED
    BY <1>1, <2>1 DEF RingInv, Table, MainLabels
<1>8. MutexKept'
  BY <1>1, <1>3 DEF RingInv, MutexKept
<1>9. Asked'
  BY <1>1 DEF Asked
<1>10. QED
  BY <1>5, <1>6, <1>7, <1>8, <1>9 DEF RingInv

-----------------------------------------------------------------------------
(***************************************************************************)
(* The theorems.                                                           *)
(***************************************************************************)

\* Every step preserves the invariant.
LEMMA InvNext ==
  ASSUME RingInv, [Next]_vars
  PROVE  RingInv' /\ (Slack' # Slack => main = "reduce_lock" /\ queue.max_len = 1)
<1> USE DEF Balanced
<1>0. Producer \in Types /\ Consumer \in Types
  BY DEF Types
<1>1. CASE CreateThread("+", Producer) \/ CreateThread("*", Consumer)
  BY <1>0, <1>1, CreateThreadInv
<1>2. CASE Close("-", Producer) \/ Close("_", Consumer) \/ CloseAll
  <2>1. main = "command"
    BY <1>2 DEF Close, CloseAll, MayRead
  <2>2. PICK type \in Types : CloseThread(type)
    BY <1>0, <1>2 DEF Close, CloseAll
  <2>3. QED
    BY <2>1, <2>2, CloseThreadInv
<1>3. CASE Join
  BY <1>3, JoinInv
<1>4. CASE PrintFind \/ PrintRead \/ ReduceAsk \/ ExpandAsk \/ Quit \/ Exit
  BY <1>4, LookInv
<1>5. CASE ReduceWait
  BY <1>5, ReduceWaitInv
<1>6. CASE ReduceQueue
  BY <1>6, ReduceQueueInv DEF ReduceQueue
<1>7. CASE ExpandQueue
  BY <1>7, ExpandQueueInv
<1>8. CASE ExpandPost
  BY <1>8, ExpandPostInv
<1>9. CASE \E t \in Threads : Step(t)
  BY <1>9, StepInv
<1>10. CASE UNCHANGED vars
  <2>1. /\ UNCHANGED <<main, quitting, victim, slot, interrupted, forgotten>>
        /\ UNCHANGED <<count, working, cancelled, pc, queue_mutex>>
        /\ UNCHANGED <<free_space_sem, items_sem, sems, queue>>
    BY <1>10 DEF vars, mainVars, signalVars, tableVars, sems
  <2>2. MainSlots' = MainSlots
    BY <2>1, MainSteady
  <2>3. MutexKept' /\ Tokens' /\ Slack' = Slack
    BY <2>1, <2>2, ThreadsRest
  <2>4. QED
    BY <2>1, <2>3 DEF RingInv, Kinds, Table, Asked
<1>11. CASE Interrupt
  BY <1>11, InterruptInv
<1>12. QED
  BY <1>1, <1>2, <1>3, <1>4, <1>5, <1>6, <1>7, <1>8, <1>9, <1>10, <1>11 DEF Next, Main

\* The invariant bounds the semaphores: a token stands for a slot of the ring or
\* for a message in it.
LEMMA InvImplies ==
  ASSUME RingInv
  PROVE  TypeOK /\ NeverRefused /\ TableMatchesThreads /\ ItemsAgree /\ FreeSpaceCovered
<1>1. queue.len \in Nat /\ queue.max_len \in Nat /\ queue.len <= queue.max_len /\ queue.max_len <= MAX_LEN
  BY Fields DEF RingInv, Kinds
<1>2. free_space_sem \in Nat /\ items_sem \in Nat /\ MainSlots \in Nat /\ MAX_LEN \in Nat
  BY LengthAssumption DEF RingInv, Kinds, MainSlots, InDebt
<1>3. items_sem <= MAX_LEN
  BY <1>1, <1>2, Counted DEF RingInv, Tokens, ItemsAgree
<1>4. free_space_sem <= MAX_LEN
  BY <1>1, <1>2, Counted DEF RingInv, Tokens, FreeSpaceCovered, Slack, FreeTokens
<1>5. TypeOK
  <2>1. queue \in Queue
    BY GoodIsQueue DEF RingInv, Kinds
  <2>2. free_space_sem \in 0 .. MAX_LEN /\ items_sem \in 0 .. MAX_LEN
    BY <1>2, <1>3, <1>4
  <2>3. victim \in Threads \cup {NoThread} /\ forgotten \in Threads \cup {NoThread} /\ cancelled \subseteq Threads
    BY DEF RingInv, Table
  <2>4. QED
    BY <2>1, <2>2, <2>3 DEF RingInv, Kinds, TypeOK
<1>6. NeverRefused
  BY InHandSuffices
<1>7. TableMatchesThreads
  BY ThreadIs DEF RingInv, Table, TableMatchesThreads
<1>8. QED
  BY <1>5, <1>6, <1>7 DEF RingInv, Tokens

LEMMA Always == Spec => []RingInv
BY InvInit, InvNext, PTL DEF Spec

\* The variables keep their types, and neither semaphore ever has more tokens
\* than the ring has slots.
THEOREM TypeCorrect == Spec => []TypeOK
BY Always, InvImplies, PTL

\* items_sem counts the messages of the ring and free_space_sem promises no slot
\* that is not there, whatever is created, closed, cancelled inside the critical
\* section or resized.
THEOREM TokensAgree == Spec => [](ItemsAgree /\ FreeSpaceCovered)
BY Always, InvImplies, PTL

\* The free slots and what free_space_sem accounts for never drift apart, except by
\* the token that is lost when "r" meets a ring of one slot.
THEOREM NoDrift == Spec => SlackKept
<1>1. RingInv /\ [Next]_vars => [Slack' # Slack => main = "reduce_lock" /\ queue.max_len = 1]_vars
  BY InvNext
<1>2. QED
  BY Always, <1>1, PTL DEF Spec, SlackKept

\* Without "r", the semaphores and the ring account for every slot.
THEOREM FreeSpaceCounted == "r" \notin Commands => (Spec => [](Slack = 0))
<1> SUFFICES ASSUME "r" \notin Commands PROVE Spec => [](Slack = 0)
  OBVIOUS
<1>1. RingInv => Slack = 0
  BY DEF RingInv, Tokens
<1>2. QED
  BY Always, <1>1, PTL

\* Whoever comes through its semaphore finds what it waited for: no push into a
\* full ring, no pop from an empty one.
THEOREM NothingRefused == Spec => []NeverRefused
BY Always, InvImplies, PTL

\* Between two commands, the working flags and the counters name the running threads.
THEOREM TableKept == Spec => []TableMatchesThreads
BY Always, InvImplies, PTL

-----------------------------------------------------------------------------
(***************************************************************************)
(* The order of the messages.  The k-th message of a ring is in a place    *)
(* without a remainder in it: head + k - 1, or as much less as the array   *)
(* is long.                                                                *)
(***************************************************************************)
Place(head, n, k) == IF head + k - 1 < n THEN head + k - 1 ELSE head + k - 1 - n

LEMMA Wraps ==
  ASSUME NEW n \in Nat \ {0}, NEW a \in 0 .. 2 * n - 1
  PROVE  a % n = IF a < n THEN a ELSE a - n
<1>1. PICK q \in Int, r \in 0 .. n - 1 : a = n * q + r /\ r = a % n
  OBVIOUS
<1>2. q >= 0
  <2>1. SUFFICES ASSUME q <= -1 PROVE FALSE
    OBVIOUS
  <2>2. n * q <= n * (-1)
    BY <2>1
  <2>3. QED
    BY <1>1, <2>2
<1>3. q <= 1
  <2>1. SUFFICES ASSUME q >= 2 PROVE FALSE
    OBVIOUS
  <2>2. n * q >= n * 2
    BY <2>1
  <2>3. QED
    BY <1>1, <2>2
<1>4. CASE q = 0
  BY <1>1, <1>4
<1>5. CASE q = 1
  BY <1>1, <1>5
<1>6. QED
  BY <1>2, <1>3, <1>4, <1>5

LEMMA PlaceIs ==
  ASSUME NEW n \in Nat \ {0}, NEW head \in 0 .. n - 1, NEW k \in 1 .. n
  PROVE  (head + k - 1) % n = Place(head, n, k) /\ Place(head, n, k) \in 0 .. n - 1
<1> DEFINE a == head + k - 1
<1>1. a \in 0 .. 2 * n - 1
  OBVIOUS
<1> HIDE DEF a
<1>2. a % n = IF a < n THEN a ELSE a - n
  BY <1>1, Wraps
<1>3. QED
  BY <1>2 DEF Place, a

\* The slot after a place is the next place.
LEMMA NextPlace ==
  ASSUME NEW n \in Nat \ {0}, NEW head \in 0 .. n - 1, NEW i \in 0 .. n - 1
  PROVE  (i + 1) % n = IF i + 1 < n THEN i + 1 ELSE 0
<1> DEFINE a == i + 1
<1>1. a \in 0 .. 2 * n - 1
  OBVIOUS
<1> HIDE DEF a
<1>2. a % n = IF a < n THEN a ELSE a - n
  BY <1>1, Wraps
<1>3. i + 1 >= n => i + 1 - n = 0
  OBVIOUS
<1>4. QED
  BY <1>2, <1>3 DEF a

LEMMA ContentIs ==
  ASSUME NEW q, GoodRing(q), q.head < q.max_len
  PROVE  /\ Content(q) \in Seq(Pointers) /\ Len(Content(q)) = q.len
         /\ \A k \in 1 .. q.len :
              /\ Place(q.head, q.max_len, k) \in 0 .. q.max_len - 1
              /\ Content(q)[k] = q.messages[Place(q.head, q.max_len, k)]
<1> DEFINE n == q.max_len
           h == q.head
<1>1. /\ n \in Nat \ {0} /\ h \in 0 .. n - 1 /\ q.len \in 0 .. n
      /\ q.messages \in [0 .. n - 1 -> Pointers]
  BY Fields
<1> HIDE DEF n, h
<1>2. ASSUME NEW k \in 1 .. q.len
      PROVE  (h + k - 1) % n = Place(h, n, k) /\ Place(h, n, k) \in 0 .. n - 1
  <2>1. k \in 1 .. n
    BY <1>1
  <2>2. QED
    BY <1>1, <2>1, PlaceIs
<1>3. Content(q) = [k \in 1 .. q.len |-> q.messages[(h + k - 1) % n]]
  BY DEF Content, h, n
<1>4. \A k \in 1 .. q.len : Content(q)[k] = q.messages[Place(h, n, k)]
  BY <1>2, <1>3
<1>5. Content(q) \in [1 .. q.len -> Pointers]
  BY <1>1, <1>2, <1>3
<1>6. Content(q) \in Seq(Pointers) /\ Len(Content(q)) = q.len
  BY <1>1, <1>5
<1>7. QED
  BY <1>2, <1>4, <1>6 DEF h, n

LEMMA AlignedIs ==
  ASSUME NEW q, GoodRing(q)
  PROVE  Aligned(q) <=> /\ q.head < q.max_len /\ q.tail < q.max_len
                        /\ q.tail = IF q.len = 0 THEN q.head
                                    ELSE Place(q.head, q.max_len, q.len)
<1>1. /\ q.max_len \in Nat \ {0} /\ q.head \in Nat /\ q.tail \in Nat /\ q.len \in 0 .. q.max_len
      /\ DOMAIN q.messages = 0 .. q.max_len - 1
  BY Fields
<1>2. {q.head, q.tail} \subseteq DOMAIN q.messages <=> q.head < q.max_len /\ q.tail < q.max_len
  BY <1>1
<1>3. q.head < q.max_len /\ q.len # 0 =>
        (q.head + q.len - 1) % q.max_len = Place(q.head, q.max_len, q.len)
  <2> DEFINE n == q.max_len
             h == q.head
             k == q.len
  <2> SUFFICES ASSUME h < n, k # 0 PROVE (h + k - 1) % n = Place(h, n, k)
    OBVIOUS
  <2>1. n \in Nat \ {0} /\ h \in 0 .. n - 1 /\ k \in 1 .. n
    BY <1>1
  <2> HIDE DEF n, h, k
  <2>2. QED
    BY <2>1, PlaceIs
<1>4. QED
  BY <1>2, <1>3 DEF Aligned, Empty

LEMMA PlacesDiffer ==
  ASSUME NEW n \in Nat \ {0}, NEW head \in 0 .. n - 1, NEW j \in 1 .. n, NEW k \in 1 .. n, j # k
  PROVE  Place(head, n, j) # Place(head, n, k)
BY DEF Place

\* The place behind a message is that of the next one, and the slot after it in the ring.
LEMMA PlaceBehind ==
  ASSUME NEW n \in Nat \ {0}, NEW head \in 0 .. n - 1, NEW k \in 1 .. n
  PROVE  (Place(head, n, k) + 1) % n = Place(head, n, k + 1)
<1> DEFINE i == Place(head, n, k)
<1>1. i \in 0 .. n - 1
  BY PlaceIs
<1>2. (i + 1) % n = IF i + 1 < n THEN i + 1 ELSE 0
  <2> HIDE DEF i
  <2>1. QED
    BY <1>1, NextPlace
<1>3. (IF i + 1 < n THEN i + 1 ELSE 0) = Place(head, n, k + 1)
  BY DEF Place
<1>4. QED
  BY <1>2, <1>3

LEMMA SameItems ==
  ASSUME NEW S, NEW s \in Seq(S), NEW t \in Seq(S), Len(s) = Len(t),
         \A k \in 1 .. Len(s) : s[k] = t[k]
  PROVE  s = t
OBVIOUS

\* queue_push() puts the message behind the last one.
LEMMA PushOrder ==
  ASSUME NEW q, GoodRing(q), Aligned(q), NEW m \in Messages
  PROVE  Aligned(Push(q, m)) /\ FifoStep(Content(q), Content(Push(q, m)))
<1>1. CASE Full(q)
  BY <1>1 DEF Push, FifoStep
<1>2. CASE ~Full(q)
  <2> DEFINE r == Push(q, m)
             t == IF Empty(q) THEN q.tail ELSE NextIndex(q, q.tail)
             h == q.head
             n == q.max_len
             l == q.len
             a == q.messages
  <2>1. GoodRing(r)
    BY PushGood
  <2>2. /\ r.head = h /\ r.max_len = n /\ r.len = l + 1 /\ r.tail = t
        /\ r.messages = [a EXCEPT ![t] = m]
    BY <1>2, Fields DEF Push, Rings, Store
  <2>3. /\ n \in Nat \ {0} /\ h \in 0 .. n - 1 /\ l \in 0 .. n - 1
        /\ q.tail = IF l = 0 THEN h ELSE Place(h, n, l)
        /\ a \in [0 .. n - 1 -> Pointers]
    BY <1>2, Fields, AlignedIs DEF Full
  <2>4. t = Place(h, n, l + 1)
    <3>1. CASE l = 0
      BY <2>3, <3>1 DEF Empty, Place
    <3>2. CASE l # 0
      <4>1. l \in 1 .. n /\ t = (Place(h, n, l) + 1) % n
        BY <2>3, <3>2 DEF Empty, NextIndex
      <4> HIDE DEF h, n, l, t
      <4>2. QED
        BY <2>3, <4>1, PlaceBehind
    <3>3. QED
      BY <3>1, <3>2
  <2>5. /\ Content(q) \in Seq(Pointers) /\ Len(Content(q)) = l
        /\ \A k \in 1 .. l : Content(q)[k] = a[Place(h, n, k)]
    BY <2>3, ContentIs
  <2>6. /\ Content(r) \in Seq(Pointers) /\ Len(Content(r)) = l + 1
        /\ \A k \in 1 .. l + 1 : Content(r)[k] = r.messages[Place(h, n, k)]
    <3>1. r.head < r.max_len
      BY <2>2, <2>3
    <3> HIDE DEF r, h, n, l
    <3>2. /\ Content(r) \in Seq(Pointers) /\ Len(Content(r)) = r.len
          /\ \A k \in 1 .. r.len : Content(r)[k] = r.messages[Place(r.head, r.max_len, k)]
      BY <2>1, <3>1, ContentIs
    <3>3. QED
      BY <2>2, <3>2
  <2> HIDE DEF r, t, h, n, l, a
  <2>7. \A k \in 1 .. l + 1 : Place(h, n, k) \in 0 .. n - 1
    BY <2>3, PlaceIs
  <2>8. t \in 0 .. n - 1
    BY <2>3, <2>4, <2>7
  <2>9. Aligned(r)
    <3>1. r.head < r.max_len /\ r.tail < r.max_len /\ r.len # 0
      BY <2>2, <2>3, <2>8
    <3>2. r.tail = Place(r.head, r.max_len, r.len)
      BY <2>2, <2>4
    <3>3. QED
      BY <2>1, <3>1, <3>2, AlignedIs
  <2>10. ASSUME NEW k \in 1 .. l
         PROVE  Content(r)[k] = Content(q)[k]
    <3>1. k \in 1 .. n /\ l + 1 \in 1 .. n /\ k # l + 1 /\ k \in 1 .. l + 1
      BY <2>3
    <3>2. Place(h, n, k) # t
      BY <2>3, <2>4, <3>1, PlacesDiffer
    <3>3. r.messages[Place(h, n, k)] = a[Place(h, n, k)]
      BY <2>2, <2>3, <2>7, <3>1, <3>2
    <3>4. QED
      BY <2>5, <2>6, <3>1, <3>3
  <2>11. Content(r)[l + 1] = m
    BY <2>2, <2>3, <2>4, <2>6, <2>8
  <2>12. Content(r) = Append(Content(q), m)
    <3> DEFINE s == Content(q)
    <3>1. m \in Pointers
      BY DEF Pointers
    <3>2. /\ Append(s, m) \in Seq(Pointers) /\ Len(Append(s, m)) = l + 1
          /\ Append(s, m)[l + 1] = m /\ \A k \in 1 .. l : Append(s, m)[k] = s[k]
      BY <2>3, <2>5, <3>1
    <3>3. \A k \in 1 .. l + 1 : Content(r)[k] = Append(s, m)[k]
      BY <2>3, <2>10, <2>11, <3>2
    <3>4. QED
      BY <2>6, <3>2, <3>3, SameItems
  <2>13. QED
    BY <2>9, <2>12 DEF FifoStep, r
<1>3. QED
  BY <1>1, <1>2

\* queue_pop() takes the first message, and leaves the ring aligned unless it was the last.
LEMMA PopOrder ==
  ASSUME NEW q, GoodRing(q), Aligned(q), ~Emptied(q, Pop(q))
  PROVE  Aligned(Pop(q)) /\ FifoStep(Content(q), Content(Pop(q)))
<1>1. CASE Empty(q)
  BY <1>1 DEF Pop, FifoStep
<1>2. CASE ~Empty(q)
  <2> DEFINE r == Pop(q)
             h == q.head
             g == NextIndex(q, q.head)
             n == q.max_len
             l == q.len
             a == q.messages
  <2>1. GoodRing(r)
    BY PopGood
  <2>2. /\ r.head = g /\ r.max_len = n /\ r.len = l - 1 /\ r.tail = q.tail
        /\ r.messages = [a EXCEPT ![h] = NULL]
    BY <1>2, Fields DEF Pop, Rings, Store
  <2>3. /\ n \in Nat \ {0} /\ h \in 0 .. n - 1 /\ l \in 1 .. n
        /\ q.tail = Place(h, n, l) /\ q.tail < n
        /\ a \in [0 .. n - 1 -> Pointers]
    BY <1>2, Fields, AlignedIs DEF Empty
  <2>4. l = 1 => n = 1
    BY <2>2, <2>3 DEF Emptied
  <2>5. /\ Content(q) \in Seq(Pointers) /\ Len(Content(q)) = l
        /\ \A k \in 1 .. l : Content(q)[k] = a[Place(h, n, k)]
    BY <2>3, ContentIs
  <2>6. g = (h + 1) % n
    BY DEF NextIndex
  <2> HIDE DEF r, h, g, n, l, a
  <2>7. g = (IF h + 1 < n THEN h + 1 ELSE 0) /\ g \in 0 .. n - 1
    BY <2>3, <2>6, NextPlace
  <2>8. \A k \in 1 .. l - 1 : Place(g, n, k) = Place(h, n, k + 1)
    BY <2>3, <2>7 DEF Place
  <2>9. /\ Content(r) \in Seq(Pointers) /\ Len(Content(r)) = l - 1
        /\ \A k \in 1 .. l - 1 : Content(r)[k] = r.messages[Place(g, n, k)]
    <3>1. r.head < r.max_len
      BY <2>2, <2>3, <2>7
    <3>2. /\ Content(r) \in Seq(Pointers) /\ Len(Content(r)) = r.len
          /\ \A k \in 1 .. r.len : Content(r)[k] = r.messages[Place(r.head, r.max_len, k)]
      BY <2>1, <3>1, ContentIs
    <3>3. QED
      BY <2>2, <3>2
  <2>10. Aligned(r)
    <3>1. r.head < r.max_len /\ r.tail < r.max_len
      BY <2>2, <2>3, <2>7
    <3>2. CASE l = 1
      BY <2>1, <2>2, <2>3, <2>4, <2>7, <3>1, <3>2, AlignedIs DEF Place
    <3>3. CASE l # 1
      <4>1. l - 1 \in 1 .. l - 1 /\ (l - 1) + 1 = l
        BY <2>3, <3>3
      <4>2. Place(g, n, l - 1) = Place(h, n, l)
        BY <2>8, <4>1
      <4>3. r.tail = Place(r.head, r.max_len, r.len) /\ r.len # 0
        BY <2>2, <2>3, <4>1, <4>2
      <4>4. QED
        BY <2>1, <3>1, <4>3, AlignedIs
    <3>4. QED
      BY <3>2, <3>3
  <2>11. ASSUME NEW k \in 1 .. l - 1
         PROVE  Content(r)[k] = Content(q)[k + 1]
    <3>1. k + 1 \in 1 .. n /\ k + 1 \in 1 .. l /\ 1 \in 1 .. n /\ k + 1 # 1
      BY <2>3
    <3>2. Place(h, n, k + 1) # Place(h, n, 1) /\ Place(h, n, 1) = h
      <4>1. Place(h, n, k + 1) # Place(h, n, 1)
        BY <2>3, <3>1, PlacesDiffer
      <4>2. QED
        BY <2>3, <4>1 DEF Place
    <3>3. Place(h, n, k + 1) \in 0 .. n - 1
      BY <2>3, <3>1, PlaceIs
    <3>4. r.messages[Place(h, n, k + 1)] = a[Place(h, n, k + 1)]
      BY <2>2, <2>3, <3>2, <3>3
    <3>5. QED
      BY <2>5, <2>8, <2>9, <3>1, <3>4
  <2>12. Content(r) = Tail(Content(q)) /\ Content(q) # <<>>
    <3> DEFINE s == Content(q)
    <3>1. s # <<>>
      BY <2>3, <2>5
    <3>2. /\ Tail(s) \in Seq(Pointers) /\ Len(Tail(s)) = l - 1
          /\ \A k \in 1 .. l - 1 : Tail(s)[k] = s[k + 1]
      BY <2>3, <2>5, <3>1
    <3>3. \A k \in 1 .. l - 1 : Content(r)[k] = Tail(s)[k]
      BY <2>11, <3>2
    <3>4. QED
      BY <2>9, <3>1, <3>2, <3>3, SameItems
  <2>13. QED
    BY <2>10, <2>12 DEF FifoStep, r
<1>3. QED
  BY <1>1, <1>2

\* Two rings with the same messages at the places of each.
LEMMA SameContent ==
  ASSUME NEW q, GoodRing(q), Aligned(q), NEW r, GoodRing(r), r.head < r.max_len, r.len = q.len,
         \A k \in 1 .. q.len : r.messages[Place(r.head, r.max_len, k)]
                                 = q.messages[Place(q.head, q.max_len, k)]
  PROVE  Content(r) = Content(q)
<1>1. q.head < q.max_len
  BY AlignedIs
<1>2. /\ Content(q) \in Seq(Pointers) /\ Len(Content(q)) = q.len
      /\ \A k \in 1 .. q.len : Content(q)[k] = q.messages[Place(q.head, q.max_len, k)]
  BY <1>1, ContentIs
<1>3. /\ Content(r) \in Seq(Pointers) /\ Len(Content(r)) = q.len
      /\ \A k \in 1 .. q.len : Content(r)[k] = r.messages[Place(r.head, r.max_len, k)]
  BY ContentIs
<1>4. \A k \in 1 .. q.len : Content(r)[k] = Content(q)[k]
  BY <1>2, <1>3
<1>5. QED
  BY <1>2, <1>3, <1>4, SameItems

\* What the fields of an aligned ring are, wrapped around the end of the array or not.
LEMMA WrappedIs ==
  ASSUME NEW q, GoodRing(q), Aligned(q)
  PROVE  /\ q.max_len \in Nat \ {0} /\ q.head \in 0 .. q.max_len - 1
         /\ q.tail \in 0 .. q.max_len - 1 /\ q.len \in 0 .. q.max_len
         /\ q.messages \in [0 .. q.max_len - 1 -> Pointers]
         /\ Wrapped(q) => q.len # 0 /\ q.tail = q.head + q.len - 1 - q.max_len
         /\ ~Wrapped(q) => q.tail = IF q.len = 0 THEN q.head ELSE q.head + q.len - 1
<1>1. /\ q.max_len \in Nat \ {0} /\ q.head \in 0 .. q.max_len - 1
      /\ q.tail \in 0 .. q.max_len - 1 /\ q.len \in 0 .. q.max_len
      /\ q.messages \in [0 .. q.max_len - 1 -> Pointers]
      /\ q.tail = IF q.len = 0 THEN q.head ELSE Place(q.head, q.max_len, q.len)
  BY Fields, AlignedIs
<1>2. q.tail < q.head => q.len # 0 /\ q.tail = q.head + q.len - 1 - q.max_len
  BY <1>1 DEF Place
<1>3. ~(q.tail < q.head) => q.tail = IF q.len = 0 THEN q.head ELSE q.head + q.len - 1
  BY <1>1 DEF Place
<1>4. QED
  BY <1>1, <1>2, <1>3 DEF Wrapped

\* queue_expand() puts the new slot where no message is between head and tail.
LEMMA ExpandOrder ==
  ASSUME NEW q, GoodRing(q), Aligned(q), q.max_len < MAX_LEN, NEW r \in Expanded(q)
  PROVE  Aligned(r) /\ FifoStep(Content(q), Content(r))
<1> DEFINE h == q.head
           n == q.max_len
           l == q.len
           a == q.messages
<1>1. GoodRing(r) /\ r.max_len = n + 1 /\ r.len = l
  BY ExpandGood
<1>2. /\ n \in Nat \ {0} /\ h \in 0 .. n - 1 /\ l \in 0 .. n
      /\ q.tail \in 0 .. n - 1
      /\ a \in [0 .. n - 1 -> Pointers]
      /\ Wrapped(q) => l # 0 /\ q.tail = h + l - 1 - n
      /\ ~Wrapped(q) => q.tail = IF l = 0 THEN h ELSE h + l - 1
  BY WrappedIs
<1> DEFINE new == IF Wrapped(q) THEN h ELSE n
           cell(i, m) == IF i = new \/ (i = n /\ new > i) THEN m
                         ELSE IF i < new THEN a[i] ELSE a[i - 1]
<1>3. PICK m \in NewCell(q, new) :
        r = [q EXCEPT !.max_len = @ + 1, !.head = IF Wrapped(q) THEN @ + 1 ELSE @,
                      !.messages = [i \in 0 .. n |-> cell(i, m)]]
  BY DEF Expanded
<1>4. /\ r.head = (IF Wrapped(q) THEN h + 1 ELSE h) /\ r.tail = q.tail
      /\ r.messages = [i \in 0 .. n |-> cell(i, m)]
  BY <1>3, Fields DEF Rings
<1>5. CASE Wrapped(q)
  <2>1. /\ r.head = h + 1 /\ r.tail = q.tail
        /\ \A i \in 0 .. n : /\ i < h => r.messages[i] = a[i]
                             /\ i > h => r.messages[i] = a[i - 1]
    <3>1. new = h
      BY <1>5
    <3> HIDE DEF h, n, a, new
    <3>2. QED
      BY <1>2, <1>4, <1>5, <3>1
  <2> HIDE DEF h, n, l, a
  <2>2. h + l - 1 >= n /\ q.tail < h
    BY <1>2, <1>5 DEF Wrapped
  <2>3. ASSUME NEW k \in 1 .. l
        PROVE  r.messages[Place(h + 1, n + 1, k)] = a[Place(h, n, k)]
    <3>1. CASE h + k - 1 < n
      <4>1. Place(h + 1, n + 1, k) = h + k /\ Place(h, n, k) = h + k - 1
        BY <1>2, <3>1 DEF Place
      <4>2. h + k \in 0 .. n /\ h + k > h /\ (h + k) - 1 = h + k - 1
        BY <1>2, <3>1
      <4>3. QED
        BY <2>1, <4>1, <4>2
    <3>2. CASE ~(h + k - 1 < n)
      <4>1. Place(h + 1, n + 1, k) = h + k - 1 - n /\ Place(h, n, k) = h + k - 1 - n
        BY <1>2, <3>2 DEF Place
      <4>2. h + k - 1 - n \in 0 .. n /\ h + k - 1 - n < h
        BY <1>2, <3>2
      <4>3. QED
        BY <2>1, <4>1, <4>2
    <3>3. QED
      BY <3>1, <3>2
  <2>4. Aligned(r)
    <3>1. r.head < r.max_len /\ r.tail < r.max_len /\ r.len # 0
      BY <1>1, <1>2, <1>5, <2>1
    <3>2. Place(h + 1, n + 1, l) = h + l - 1 - n
      BY <1>2, <2>2 DEF Place
    <3>3. r.tail = Place(r.head, r.max_len, r.len)
      BY <1>1, <1>2, <1>5, <2>1, <3>2
    <3>4. QED
      BY <1>1, <3>1, <3>3, AlignedIs
  <2>5. Content(r) = Content(q)
    <3>1. r.head < r.max_len
      BY <1>1, <1>2, <2>1
    <3>2. \A k \in 1 .. q.len : r.messages[Place(r.head, r.max_len, k)]
                                  = q.messages[Place(q.head, q.max_len, k)]
      BY <1>1, <2>1, <2>3 DEF h, n, l, a
    <3>3. r.len = q.len
      BY <1>1 DEF l
    <3>4. QED
      BY <1>1, <3>1, <3>2, <3>3, SameContent
  <2>6. QED
    BY <2>4, <2>5 DEF FifoStep
<1>6. CASE ~Wrapped(q)
  <2>1. /\ r.head = h /\ r.tail = q.tail
        /\ \A i \in 0 .. n - 1 : r.messages[i] = a[i]
    <3>1. new = n
      BY <1>6
    <3> HIDE DEF h, n, a, new
    <3>2. QED
      BY <1>2, <1>4, <1>6, <3>1
  <2> HIDE DEF h, n, l, a
  <2>2. l # 0 => h + l - 1 < n
    BY <1>2, <1>6
  <2>3. ASSUME NEW k \in 1 .. l
        PROVE  r.messages[Place(h, n + 1, k)] = a[Place(h, n, k)]
    <3>1. h + k - 1 < n /\ h + k - 1 \in 0 .. n - 1
      BY <1>2, <2>2
    <3>2. Place(h, n + 1, k) = h + k - 1 /\ Place(h, n, k) = h + k - 1
      BY <1>2, <3>1 DEF Place
    <3>3. QED
      BY <2>1, <3>1, <3>2
  <2>4. Aligned(r)
    <3>1. r.head < r.max_len /\ r.tail < r.max_len
      BY <1>1, <1>2, <2>1
    <3>2. l # 0 => Place(h, n + 1, l) = h + l - 1
      BY <1>2, <2>2 DEF Place
    <3>3. r.tail = IF r.len = 0 THEN r.head ELSE Place(r.head, r.max_len, r.len)
      BY <1>1, <1>2, <1>6, <2>1, <3>2
    <3>4. QED
      BY <1>1, <3>1, <3>3, AlignedIs
  <2>5. Content(r) = Content(q)
    <3>1. r.head < r.max_len
      BY <1>1, <1>2, <2>1
    <3>2. \A k \in 1 .. q.len : r.messages[Place(r.head, r.max_len, k)]
                                  = q.messages[Place(q.head, q.max_len, k)]
      BY <1>1, <2>1, <2>3 DEF h, n, l, a
    <3>3. r.len = q.len
      BY <1>1 DEF l
    <3>4. QED
      BY <1>1, <3>1, <3>2, <3>3, SameContent
  <2>6. QED
    BY <2>4, <2>5 DEF FifoStep
<1>7. QED
  BY <1>5, <1>6

\* queue_reduce() closes up a slot between tail and head; the other case is CutOff.
LEMMA ReduceOrder ==
  ASSUME NEW q, GoodRing(q), Aligned(q), ~CutOff(q, Reduce(q))
  PROVE  Aligned(Reduce(q)) /\ FifoStep(Content(q), Content(Reduce(q)))
<1>1. CASE q.len = q.max_len \/ q.max_len = 1
  BY <1>1 DEF Reduce, FifoStep
<1>2. CASE q.len # q.max_len /\ q.max_len # 1
  <2> DEFINE r == Reduce(q)
             h == q.head
             n == q.max_len
             l == q.len
             a == q.messages
  <2>1. GoodRing(r)
    BY ReduceGood
  <2>2. r = [q EXCEPT !.max_len = @ - 1, !.head = IF Wrapped(q) THEN @ - 1 ELSE @,
                      !.messages = [i \in 0 .. n - 2 |->
                                      IF Wrapped(q) /\ i >= h - 1 THEN a[i + 1] ELSE a[i]]]
    BY <1>2 DEF Reduce
  <2>3. r.max_len = n - 1 /\ r.len = l /\ r.tail = q.tail
    BY <2>2, Fields DEF Rings
  <2>4. Wrapped(q)
    BY <2>3, Fields DEF CutOff
  <2>5. /\ r.head = h - 1
        /\ r.messages = [i \in 0 .. n - 2 |-> IF i >= h - 1 THEN a[i + 1] ELSE a[i]]
    BY <2>2, <2>4, Fields DEF Rings
  <2>6. /\ n \in Nat \ {0} /\ h \in 0 .. n - 1 /\ l \in 0 .. n - 1 /\ l # 0
        /\ q.tail \in 0 .. n - 1 /\ q.tail < h /\ q.tail = h + l - 1 - n
    BY <1>2, <2>4, WrappedIs DEF Wrapped
  <2> HIDE DEF r, h, n, l, a
  <2>7. h >= 1 /\ n >= 2 /\ h + l - 1 >= n
    BY <2>6
  <2>8. ASSUME NEW k \in 1 .. l
        PROVE  r.messages[Place(h - 1, n - 1, k)] = a[Place(h, n, k)]
    <3>1. CASE h + k - 1 < n
      <4>1. Place(h - 1, n - 1, k) = h + k - 2 /\ Place(h, n, k) = h + k - 1
        BY <2>6, <2>7, <3>1 DEF Place
      <4>2. h + k - 2 \in 0 .. n - 2 /\ h + k - 2 >= h - 1 /\ (h + k - 2) + 1 = h + k - 1
        BY <2>6, <2>7, <3>1
      <4>3. QED
        BY <2>5, <4>1, <4>2
    <3>2. CASE ~(h + k - 1 < n)
      <4>1. Place(h - 1, n - 1, k) = h + k - 1 - n /\ Place(h, n, k) = h + k - 1 - n
        BY <2>6, <2>7, <3>2 DEF Place
      <4>2. h + k - 1 - n \in 0 .. n - 2 /\ ~(h + k - 1 - n >= h - 1)
        BY <2>6, <2>7, <3>2
      <4>3. QED
        BY <2>5, <4>1, <4>2
    <3>3. QED
      BY <3>1, <3>2
  <2>9. r.head < r.max_len /\ r.tail < r.max_len
    BY <2>3, <2>5, <2>6, <2>7
  <2>10. Aligned(r)
    <3>1. Place(h - 1, n - 1, l) = h + l - 1 - n
      BY <2>6, <2>7 DEF Place
    <3>2. r.tail = Place(r.head, r.max_len, r.len) /\ r.len # 0
      BY <2>3, <2>5, <2>6, <3>1
    <3>3. QED
      BY <2>1, <2>9, <3>2, AlignedIs
  <2>11. Content(r) = Content(q)
    <3>1. \A k \in 1 .. q.len : r.messages[Place(r.head, r.max_len, k)]
                                  = q.messages[Place(q.head, q.max_len, k)]
      BY <2>3, <2>5, <2>8 DEF h, n, l, a
    <3>2. r.len = q.len
      BY <2>3 DEF l
    <3>3. QED
      BY <2>1, <2>9, <3>1, <3>2, SameContent
  <2>12. QED
    BY <2>10, <2>11 DEF FifoStep, r
<1>3. QED
  BY <1>1, <1>2

\* What any step does to the ring.
LEMMA RingSteps ==
  ASSUME RingInv, [Next]_vars
  PROVE  \/ queue' = queue
         \/ \E m \in Messages : queue' = Push(queue, m)
         \/ queue' = Pop(queue)
         \/ queue.max_len < MAX_LEN /\ queue' \in Expanded(queue)
         \/ queue' = Reduce(queue)
<1>1. CASE Main \/ PrintFind \/ ReduceAsk \/ ExpandAsk \/ Quit
  BY <1>1 DEF Main, Join, PrintRead, ReduceWait, ReduceQueue, ExpandQueue, ExpandPost, CloseAll,
              Exit, CloseThread, PrintFind, ReduceAsk, ExpandAsk, Quit, RingInv, Asked
<1>2. CASE \E t \in Threads : Step(t)
  BY <1>2 DEF Step, CheckWorking, SemWait, LockPush, LockPop, Unlock, SemPost, ActOnCancel
<1>3. CASE CreateThread("+", Producer) \/ CreateThread("*", Consumer)
  BY <1>3 DEF CreateThread
<1>4. CASE Close("-", Producer) \/ Close("_", Consumer)
  BY <1>4 DEF Close, CloseThread
<1>5. CASE Interrupt
  <2>1. CASE queue' = queue
    BY <2>1
  <2>2. CASE queue' # queue
    <3>1. main \in {"reduce_lock", "expand"} /\ \E left \in Resized : queue' = left[2]
      BY <1>5, <2>2 DEF Interrupt
    <3>2. QED
      BY <3>1 DEF Resized, RingInv, Asked
  <2>3. QED
    BY <2>1, <2>2
<1>6. CASE UNCHANGED vars
  BY <1>6 DEF vars
<1>7. QED
  BY <1>1, <1>2, <1>3, <1>4, <1>5, <1>6 DEF Next

\* Messages leave the ring in the order in which queue_push() put them there, for any
\* number of threads and resizings, as long as it is not emptied or cut at its end.
THEOREM OrderIsKept == Spec => OrderKept
<1>1. ASSUME RingInv, [Next]_vars
      PROVE  [\/ ~Aligned(queue) \/ Emptied(queue, queue') \/ CutOff(queue, queue')
              \/ Aligned(queue') /\ FifoStep(Content(queue), Content(queue'))]_vars
  <2> SUFFICES ASSUME Aligned(queue), ~Emptied(queue, queue'), ~CutOff(queue, queue')
               PROVE  Aligned(queue') /\ FifoStep(Content(queue), Content(queue'))
    OBVIOUS
  <2>1. GoodRing(queue)
    BY <1>1 DEF RingInv, Kinds
  <2>2. CASE queue' = queue
    BY <2>2 DEF FifoStep
  <2>3. CASE \E m \in Messages : queue' = Push(queue, m)
    BY <2>1, <2>3, PushOrder
  <2>4. CASE queue' = Pop(queue)
    BY <2>1, <2>4, PopOrder
  <2>5. CASE queue.max_len < MAX_LEN /\ queue' \in Expanded(queue)
    BY <2>1, <2>5, ExpandOrder
  <2>6. CASE queue' = Reduce(queue)
    BY <2>1, <2>6, ReduceOrder
  <2>7. QED
    BY <1>1, <2>2, <2>3, <2>4, <2>5, <2>6, RingSteps
<1>2. QED
  BY Always, <1>1, PTL DEF Spec, OrderKept
=============================================================================
