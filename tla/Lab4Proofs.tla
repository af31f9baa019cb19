----------------------------- MODULE Lab4Proofs -----------------------------
(***************************************************************************)
(* Proofs about Lab4Processes, for every number of processes, every ring   *)
(* size and every set of messages.                                         *)
(***************************************************************************)
EXTENDS Lab4Processes, FiniteSetTheorems, SequenceTheorems, TLAPS

-----------------------------------------------------------------------------
(***************************************************************************)
(* Lemmas about the operators of the ring.                                 *)
(***************************************************************************)

\* x++ and x-- stay within the type int.
LEMMA IntClosed ==
  ASSUME NEW x \in CInt
  PROVE  Inc(x) \in CInt /\ Dec(x) \in CInt
BY IntAssumption DEF CInt, Inc, Dec

\* head and tail stay within the ring.
LEMMA NextSlotClosed ==
  ASSUME NEW s \in Slots
  PROVE  NextSlot(s) \in Slots
BY QueueSizeAssumption DEF Slots, NextSlot

\* The cleared segment is a queue.
LEMMA EmptyQueueType == EmptyQueue \in Queue
BY QueueSizeAssumption, IntAssumption DEF EmptyQueue, Queue, Slots, Slot, Contents, CInt

\* What a process has loaded of a queue, whenever it did, is a view.
LEMMA ViewType ==
  ASSUME NEW q \in Queue, NEW v \in View
  PROVE  /\ ProducerView(q) \in View /\ ConsumerView(q) \in View
         /\ Mixed(v, ProducerView(q)) \subseteq View
         /\ Mixed(v, ConsumerView(q)) \subseteq View
BY DEF Queue, View, ProducerView, ConsumerView, Mixed

\* enqueue() and dequeue() leave a queue behind, whatever view they act on.
LEMMA StoreType ==
  ASSUME NEW q \in Queue
  PROVE  /\ \A m \in Contents : CopyBody(q, m) \in Queue
         /\ \A at \in Slots, m \in Contents, v \in View : StoreEnqueue(q, at, m, v) \in Queue
         /\ \A v \in View : StoreDequeue(q, v) \in Queue
<1>1. ASSUME NEW v \in View
      PROVE  /\ NextSlot(v.pos) \in Slots
             /\ Inc(v.count) \in CInt /\ Dec(v.count) \in CInt
             /\ Inc(v.free_space) \in CInt /\ Dec(v.free_space) \in CInt
  BY IntClosed, NextSlotClosed DEF View
<1>2. ASSUME NEW m \in Contents PROVE CopyBody(q, m) \in Queue
  BY DEF CopyBody, Queue, Slot
<1>3. ASSUME NEW at \in Slots, NEW m \in Contents, NEW v \in View
      PROVE  StoreEnqueue(q, at, m, v) \in Queue
  BY <1>1 DEF StoreEnqueue, Queue, Slot
<1>4. ASSUME NEW v \in View PROVE StoreDequeue(q, v) \in Queue
  BY <1>1 DEF StoreDequeue, Queue
<1>5. QED
  BY <1>2, <1>3, <1>4

-----------------------------------------------------------------------------
(***************************************************************************)
(* Type correctness.  kill_process() indexes processes[] again after       *)
(* waitpid(), so the index it was called with must still be an entry; a    *)
(* consumer follows its pointer, so the pointer must not be NULL then.     *)
(***************************************************************************)
VictimListed == main = "waitpid" => victim \in DOMAIN processes
PointerSet == \A p \in Procs : pc[p] \in {"hash", "compare"} => ptr[p] # NULL

TypeInv == TypeOK /\ VictimListed /\ PointerSet

ProcessEntry == [pid : Procs, type : Roles]

\* Removing an entry of a table leaves a table one entry shorter.
LEMMA RemoveEntry ==
  ASSUME NEW t \in Seq(ProcessEntry), NEW i \in DOMAIN t
  PROVE  RemoveAt(t, i) \in Seq(ProcessEntry) /\ Len(RemoveAt(t, i)) = Len(t) - 1
<1> DEFINE before == SubSeq(t, 1, i - 1)
           after == SubSeq(t, i + 1, Len(t))
<1>0. i \in 1 .. Len(t) /\ Len(t) \in Nat
  OBVIOUS
<1>1. before \in Seq(ProcessEntry) /\ Len(before) = i - 1
  <2>1. \A k \in 1 .. i - 1 : t[k] \in ProcessEntry
    <3> SUFFICES ASSUME NEW k \in 1 .. i - 1 PROVE t[k] \in ProcessEntry
      OBVIOUS
    <3>1. k \in 1 .. Len(t)
      BY <1>0
    <3>2. QED
      BY <3>1
  <2>2. before \in Seq(ProcessEntry)
    BY <1>0, <2>1
  <2>3. Len(before) = i - 1
    BY <1>0
  <2>4. QED
    BY <2>2, <2>3
<1>2. after \in Seq(ProcessEntry) /\ Len(after) = Len(t) - i
  <2>1. \A k \in i + 1 .. Len(t) : t[k] \in ProcessEntry
    <3> SUFFICES ASSUME NEW k \in i + 1 .. Len(t) PROVE t[k] \in ProcessEntry
      OBVIOUS
    <3>1. k \in 1 .. Len(t)
      BY <1>0
    <3>2. QED
      BY <3>1
  <2>2. after \in Seq(ProcessEntry)
    BY <1>0, <2>1
  <2>3. Len(after) = Len(t) - i
    BY <1>0
  <2>4. QED
    BY <2>2, <2>3
<1>3. RemoveAt(t, i) = before \o after
  BY DEF RemoveAt
<1> HIDE DEF before, after
<1>4. before \o after \in Seq(ProcessEntry)
  BY <1>1, <1>2
<1>5. Len(before \o after) = Len(before) + Len(after)
  BY <1>1, <1>2, ConcatProperties
<1>6. Len(before \o after) = Len(t) - 1
  BY <1>0, <1>1, <1>2, <1>5
<1>7. QED
  BY <1>3, <1>4, <1>6

\* An entry of a table names a process.
LEMMA EntryType ==
  ASSUME NEW t \in Seq(ProcessEntry), NEW i \in DOMAIN t
  PROVE  t[i] \in ProcessEntry /\ t[i].pid \in Procs
<1>1. i \in 1 .. Len(t)
  OBVIOUS
<1>2. t[i] \in ProcessEntry
  BY <1>1, ElementOfSeq
<1>3. QED
  BY <1>2 DEF ProcessEntry

\* The initial state has the right types.
LEMMA InitType == Init => TypeInv
<1>1. QED
  BY EmptyQueueType, QueueSizeAssumption, IntAssumption, SemAssumption, TableAssumption
  DEF Init, TypeInv, TypeOK, VictimListed, PointerSet, Roles, Producer, Consumer, Labels, Semaphores,
      EL_COUNT, FREE_SPACE, QUEUE_ACCESS, Contents, View, NoView, Slots, NULL, CInt

\* A statement of a child preserves the types.
LEMMA ChildType ==
  ASSUME TypeInv, NEW p \in Procs, Child(p)
  PROVE  TypeInv'
<1> USE DEF TypeInv, TypeOK, VictimListed, PointerSet, parentVars, Goto
<1>0. NoView \in View /\ Blank \in Contents /\ NULL \in Slots \cup {NULL} /\ Messages \subseteq Contents
  BY QueueSizeAssumption, IntAssumption DEF NoView, View, Slots, CInt, Contents
<1>1. CASE InstallHandler(p)
  BY <1>1 DEF InstallHandler, Labels
<1>2. CASE TestFlag(p)
  BY <1>2 DEF TestFlag, Labels
<1>3. ASSUME NEW s \in Semaphores, NEW a \in Labels, NEW b \in Labels \ {"hash", "compare"},
             NEW c \in Labels \ {"hash", "compare"},
             CallWait(p, s, a, b, c) \/ WakeUp(p, s, b, c)
      PROVE  TypeInv'
  <2>1. sem' \in [Semaphores -> 0 .. SEMVMX]
    BY <1>3, SemAssumption DEF CallWait, WakeUp
  <2>2. pc' \in [Procs -> Labels]
    BY <1>3 DEF CallWait, WakeUp
  <2>3. QED
    BY <1>3, <2>1, <2>2 DEF CallWait, WakeUp
<1>4. Own(p) \in Semaphores /\ Other(p) \in Semaphores /\ QUEUE_ACCESS \in Semaphores
  BY DEF Own, Other, Semaphores
<1>5. CASE WaitOwn(p) \/ WakeOwn(p)
  BY <1>3, <1>4, <1>5 DEF WaitOwn, WakeOwn, Labels
<1>6. CASE WaitAccess(p) \/ WakeAccess(p)
  BY <1>3, <1>4, <1>6 DEF WaitAccess, WakeAccess, Labels
<1>7. CASE BeginEnqueue(p)
  <2>1. CASE Full(queue)
    BY <1>7, <2>1 DEF BeginEnqueue, Labels
  <2>2. CASE ~Full(queue)
    <3>1. PICK m \in Messages : /\ queue' = CopyBody(queue, m)
                                /\ msg' = [msg EXCEPT ![p] = m]
                                /\ seen' = [seen EXCEPT ![p] = ProducerView(queue)]
                                /\ pc' = [pc EXCEPT ![p] = "update"]
      BY <1>7, <2>2 DEF BeginEnqueue
    <3>2. queue' \in Queue
      BY <1>0, <3>1, StoreType
    <3>3. ProducerView(queue) \in View
      BY ViewType
    <3>4. seen' \in [Procs -> View]
      BY <3>1, <3>3
    <3>5. QED
      BY <1>0, <1>7, <3>1, <3>2, <3>4 DEF BeginEnqueue, Labels
  <2>3. QED
    BY <2>1, <2>2
<1>8. CASE EndEnqueue(p)
  <2>1. PICK v \in Mixed(seen[p], ProducerView(queue)) :
          queue' = StoreEnqueue(queue, seen[p].pos, msg[p], v)
    BY <1>8 DEF EndEnqueue
  <2>2. v \in View /\ seen[p].pos \in Slots
    BY ViewType DEF View
  <2>3. queue' \in Queue
    BY <2>1, <2>2, StoreType
  <2>4. QED
    BY <1>0, <1>8, <2>3 DEF EndEnqueue, Labels
<1>9. CASE BeginDequeue(p)
  <2>1. ConsumerView(queue) \in View
    BY ViewType
  <2>2. seen' \in [Procs -> View]
    BY <1>9, <2>1 DEF BeginDequeue
  <2>3. pc' \in [Procs -> Labels]
    BY <1>9 DEF BeginDequeue, Labels
  <2>4. QED
    BY <1>9, <2>2, <2>3 DEF BeginDequeue
<1>10. CASE EndDequeue(p)
  <2>1. PICK v \in Mixed(seen[p], ConsumerView(queue)) : queue' = StoreDequeue(queue, v)
    BY <1>10 DEF EndDequeue
  <2>2. v \in View /\ seen[p].pos \in Slots
    BY ViewType DEF View
  <2>3. queue' \in Queue
    BY <2>1, <2>2, <1>0, StoreType
  <2>4. ptr' \in [Procs -> Slots \cup {NULL}]
    BY <1>10, <2>2 DEF EndDequeue
  <2>5. QED
    BY <1>0, <1>10, <2>3, <2>4 DEF EndDequeue, Labels
<1>11. ASSUME NEW s \in Semaphores, Signal(s)
       PROVE  sem' \in [Semaphores -> 0 .. SEMVMX]
  BY <1>11, SemAssumption DEF Signal
<1>12. CASE SignalAccess(p)
  BY <1>4, <1>11, <1>12 DEF SignalAccess, Labels
<1>13. CASE SignalOther(p)
  <2>1. sem' \in [Semaphores -> 0 .. SEMVMX]
    BY <1>4, <1>11, <1>13 DEF SignalOther
  <2>2. pc' \in [Procs -> Labels]
    BY <1>13 DEF SignalOther, Labels
  <2>3. QED
    BY <1>13, <2>1, <2>2 DEF SignalOther
<1>14. CASE CalculateHash(p)
  <2>1. ptr[p] \in Slots
    BY <1>14 DEF CalculateHash, At
  <2>2. queue.buffer[ptr[p]].body \in Contents
    BY <2>1 DEF Queue, Slot
  <2>3. QED
    BY <1>14, <2>2 DEF CalculateHash, At, Labels
<1>15. CASE CompareHash(p)
  BY <1>0, <1>15 DEF CompareHash, Labels
<1>16. QED
  BY <1>1, <1>2, <1>5, <1>6, <1>7, <1>8, <1>9, <1>10, <1>12, <1>13, <1>14, <1>15 DEF Child

\* A step of the parent preserves the types.
LEMMA ParentType ==
  ASSUME TypeInv,
         \/ CreateProcess("+", Consumer) \/ CreateProcess("*", Producer)
         \/ \E i \in 1 .. MAX_PROCESSES_COUNT : KillProcess(i)
         \/ ReapVictim \/ Quit \/ Exit \/ Fail
         \/ \E p \in Procs : Terminate(p) \/ ReapAny(p)
  PROVE  TypeInv'
<1> USE DEF TypeInv, TypeOK, VictimListed, PointerSet, parentVars, childVars, MayRead
<1>0. processes \in Seq(ProcessEntry)
  BY DEF ProcessEntry
<1>1. ASSUME NEW command, NEW r \in Roles, CreateProcess(command, r)
      PROVE  TypeInv'
  <2>1. PICK p \in Procs :
          /\ processes' = Append(processes, [pid |-> p, type |-> r])
          /\ status' = [status EXCEPT ![p] = "running"]
          /\ role' = [role EXCEPT ![p] = r]
          /\ pc' = [pc EXCEPT ![p] = "start"]
          /\ terminate_flag' = [terminate_flag EXCEPT ![p] = FALSE]
          /\ msg' = [msg EXCEPT ![p] = Blank]
          /\ seen' = [seen EXCEPT ![p] = NoView]
          /\ ptr' = [ptr EXCEPT ![p] = NULL]
    BY <1>1 DEF CreateProcess
  <2>2. /\ processes' \in Seq([pid : Procs, type : Roles])
        /\ Len(processes') <= MAX_PROCESSES_COUNT
    BY <1>1, <2>1, TableAssumption DEF CreateProcess
  <2>3. NoView \in View /\ Blank \in Contents
    BY QueueSizeAssumption, IntAssumption DEF NoView, View, Slots, CInt, Contents
  <2>4. pc' \in [Procs -> Labels] /\ status' \in [Procs -> {"none", "running", "zombie"}]
    BY <2>1 DEF Labels
  <2>5. /\ role' \in [Procs -> Roles] /\ terminate_flag' \in [Procs -> BOOLEAN]
        /\ msg' \in [Procs -> Contents] /\ seen' \in [Procs -> View]
        /\ ptr' \in [Procs -> Slots \cup {NULL}]
    BY <2>1, <2>3
  <2>6. \A q \in Procs : pc'[q] \in {"hash", "compare"} => ptr'[q] # NULL
    BY <2>1
  <2>7. UNCHANGED <<main, victim, ipc, sem, queue>> /\ main # "waitpid"
    BY <1>1 DEF CreateProcess
  <2>8. QED
    BY <2>2, <2>4, <2>5, <2>6, <2>7
<1>2. ASSUME NEW i \in 1 .. MAX_PROCESSES_COUNT, KillProcess(i)
      PROVE  TypeInv'
  <2> DEFINE p == processes[i].pid
  <2>1. p \in Procs
    BY <1>2, <1>0, EntryType DEF KillProcess
  <2>2. AfterInterrupt(pc[p]) \in Labels
    BY <2>1 DEF AfterInterrupt, Labels
  <2>3. AfterInterrupt(pc[p]) \in {"hash", "compare"} => AfterInterrupt(pc[p]) = pc[p]
    BY <2>1 DEF AfterInterrupt
  <2>0. Interrupt(p)
    BY <1>2 DEF KillProcess
  <2> HIDE DEF p
  <2>4. /\ status' \in [Procs -> {"none", "running", "zombie"}]
        /\ pc' \in [Procs -> Labels]
        /\ terminate_flag' \in [Procs -> BOOLEAN]
    <3>1. CASE pc[p] = "start"
      BY <2>0, <2>1, <3>1 DEF Interrupt
    <3>2. CASE pc[p] # "start"
      BY <2>0, <2>1, <2>2, <3>2 DEF Interrupt, Goto
    <3>3. QED
      BY <3>1, <3>2
  <2>5. \A q \in Procs : pc'[q] \in {"hash", "compare"} => ptr'[q] # NULL
    BY <1>2, <2>0, <2>1, <2>3 DEF KillProcess, Interrupt, Goto, childVars
  <2>6. QED
    BY <1>2, <2>4, <2>5 DEF KillProcess
<1>3. CASE ReapVictim
  <2>1. victim \in DOMAIN processes
    BY <1>3 DEF ReapVictim
  <2>2. processes[victim].pid \in Procs
    BY <1>0, <2>1, EntryType
  <2>3. processes' \in Seq(ProcessEntry) /\ Len(processes') = Len(processes) - 1
    BY <1>0, <1>3, <2>1, RemoveEntry DEF ReapVictim
  <2>4. Len(processes') <= MAX_PROCESSES_COUNT
    BY <2>3, TableAssumption
  <2>5. status' \in [Procs -> {"none", "running", "zombie"}]
    BY <1>3, <2>2 DEF ReapVictim
  <2>6. QED
    BY <1>3, <2>3, <2>4, <2>5, TableAssumption DEF ReapVictim, ProcessEntry
<1>4. CASE Quit \/ Exit \/ Fail
  BY <1>4 DEF Quit, Exit, Fail, RemoveIpc
<1>5. ASSUME NEW p \in Procs, Terminate(p) \/ ReapAny(p)
      PROVE  TypeInv'
  BY <1>5 DEF Terminate, ReapAny
<1>6. Consumer \in Roles /\ Producer \in Roles
  BY DEF Roles
<1>7. QED
  BY <1>1, <1>2, <1>3, <1>4, <1>5, <1>6

\* Nothing changes in a stuttering step.
LEMMA StutterType == TypeInv /\ UNCHANGED vars => TypeInv'
BY DEF vars, TypeInv, TypeOK, VictimListed, PointerSet

\* Whatever the user types and however the children interleave, every variable
\* of the program keeps its type: head and tail stay inside the ring, no
\* semaphore leaves its range, and kill_process() and the consumers only follow
\* indices that exist, even after SIGUSR1 has broken the semaphore protocol.
THEOREM TypeCorrect == Spec => [](TypeOK /\ VictimListed /\ PointerSet)
<1>1. Init => TypeInv
  BY InitType
<1>2. TypeInv /\ [Next]_vars => TypeInv'
  BY ChildType, ParentType, StutterType DEF Next
<1>3. QED
  BY <1>1, <1>2, PTL DEF Spec, TypeInv

-----------------------------------------------------------------------------
(***************************************************************************)
(* The semaphore protocol, as long as nobody is killed with SIGUSR1.       *)
(*                                                                         *)
(* None of the properties is inductive alone.  The count of EL_COUNT_SEM   *)
(* is right only if each change of the ring is atomic, which rests on      *)
(* mutual exclusion (the fields a child has loaded are still the current   *)
(* ones when it stores them back); mutual exclusion in turn needs to know  *)
(* that no new child appears in the middle of the ring.                    *)
(***************************************************************************)

\* Nothing is ever signalled: no flag is set and the parent never waits for a victim.
NoSignal == main # "waitpid" /\ \A p \in Procs : ~terminate_flag[p]

\* A process id that may be handed out again holds nothing.
Fresh == main = "command" => \A p \in Procs : status[p] # "running" => pc[p] = "start"

\* QUEUE_ACCESS_SEM is down exactly while one child is inside.
AccessHeld ==
  \/ sem[QUEUE_ACCESS] = 1 /\ \A p \in Procs : ~InRing(p)
  \/ sem[QUEUE_ACCESS] = 0 /\ \E p \in Procs : \A q \in Procs : InRing(q) <=> q = p

\* What the child inside the ring has loaded is what the ring holds.
SeenCurrent ==
  \A p \in Procs : pc[p] = "update" =>
    seen[p] = IF role[p] = Producer THEN ProducerView(queue) ELSE ConsumerView(queue)

SyncInv ==
  /\ TypeInv /\ NoSignal /\ Fresh /\ AccessHeld /\ SeenCurrent
  /\ RingConsistent /\ SemaphoresCountQueue

Holding == {"wait_access", "sleep_access", "inside", "update"}
Owing == {"signal_access", "signal_other"}
One(b) == IF b THEN 1 ELSE 0

\* The sets that are counted are finite.
LEMMA CountType ==
  \A r \in Roles : /\ IsFiniteSet(Unspent(r)) /\ Cardinality(Unspent(r)) \in Nat
                   /\ IsFiniteSet(Unsignalled(r)) /\ Cardinality(Unsignalled(r)) \in Nat
<1>1. \A r : Unspent(r) \subseteq Procs /\ Unsignalled(r) \subseteq Procs
  BY DEF Unspent, Unsignalled
<1>2. QED
  BY <1>1, ProcsAssumption, FS_Subset, FS_CardinalityType

\* Moving one member in or out of a finite set.
LEMMA CountMember ==
  ASSUME NEW S, IsFiniteSet(S), NEW x, NEW T, T = S \cup {x} \/ T = S \ {x}
  PROVE  Cardinality(T) = Cardinality(S) - One(x \in S) + One(x \in T)
<1>1. Cardinality(S) \in Nat
  BY FS_CardinalityType
<1>2. CASE T = S \cup {x}
  <2>1. x \in T
    BY <1>2
  <2>2. Cardinality(T) = IF x \in S THEN Cardinality(S) ELSE Cardinality(S) + 1
    BY <1>2, FS_AddElement
  <2>3. QED
    BY <1>1, <2>1, <2>2 DEF One
<1>3. CASE T = S \ {x}
  <2>1. x \notin T
    BY <1>3
  <2>2. Cardinality(T) = IF x \in S THEN Cardinality(S) - 1 ELSE Cardinality(S)
    BY <1>3, FS_RemoveElement
  <2>3. QED
    BY <1>1, <2>1, <2>2 DEF One
<1>4. QED
  BY <1>2, <1>3

\* How the counts change when p moves to label l.
LEMMA CountMove ==
  ASSUME TypeInv, NEW p \in Procs, NEW l \in Labels,
         pc' = [pc EXCEPT ![p] = l], UNCHANGED role
  PROVE  \A r \in Roles :
           /\ Cardinality(Unspent(r)') = Cardinality(Unspent(r))
                - One(role[p] = r /\ pc[p] \in Holding) + One(role[p] = r /\ l \in Holding)
           /\ Cardinality(Unsignalled(r)') = Cardinality(Unsignalled(r))
                - One(role[p] = r /\ pc[p] \in Owing) + One(role[p] = r /\ l \in Owing)
<1> SUFFICES ASSUME NEW r \in Roles
             PROVE  /\ Cardinality(Unspent(r)') = Cardinality(Unspent(r))
                         - One(role[p] = r /\ pc[p] \in Holding) + One(role[p] = r /\ l \in Holding)
                    /\ Cardinality(Unsignalled(r)') = Cardinality(Unsignalled(r))
                         - One(role[p] = r /\ pc[p] \in Owing) + One(role[p] = r /\ l \in Owing)
  OBVIOUS
<1>1. /\ p \in Unspent(r) <=> role[p] = r /\ pc[p] \in Holding
      /\ p \in Unspent(r)' <=> role[p] = r /\ l \in Holding
      /\ p \in Unsignalled(r) <=> role[p] = r /\ pc[p] \in Owing
      /\ p \in Unsignalled(r)' <=> role[p] = r /\ l \in Owing
  BY DEF Unspent, Unsignalled, Holding, Owing, TypeInv, TypeOK
<1>2. Unspent(r)' = Unspent(r) \cup {p} \/ Unspent(r)' = Unspent(r) \ {p}
  BY DEF Unspent, TypeInv, TypeOK
<1>3. Unsignalled(r)' = Unsignalled(r) \cup {p} \/ Unsignalled(r)' = Unsignalled(r) \ {p}
  BY DEF Unsignalled, TypeInv, TypeOK
<1>4. QED
  BY <1>1, <1>2, <1>3, CountType, CountMember

\* One slot further, counted from either end.
LEMMA AheadNext ==
  ASSUME NEW s \in Slots, NEW n \in 0 .. QUEUE_SIZE - 1
  PROVE  Ahead(s, n + 1) = NextSlot(Ahead(s, n)) /\ Ahead(NextSlot(s), n) = Ahead(s, n + 1)
BY QueueSizeAssumption DEF Slots, Ahead, NextSlot

\* In a protocol state a child finds what its own semaphore promised it, and a
\* child that has yet to signal leaves room for its token.
LEMMA TokensCover ==
  ASSUME SyncInv, NEW p \in Procs
  PROVE  /\ role[p] = Producer /\ pc[p] \in Holding => queue.free_space > 0
         /\ role[p] = Consumer /\ pc[p] \in Holding => queue.count > 0
         /\ role[p] = Producer /\ pc[p] \in Owing => sem[EL_COUNT] < SEMVMX
         /\ role[p] = Consumer /\ pc[p] \in Owing => sem[FREE_SPACE] < SEMVMX
<1>1. \A r \in Roles : /\ Cardinality(Unspent(r)) \in Nat /\ Cardinality(Unsignalled(r)) \in Nat
                       /\ p \in Unspent(r) => Cardinality(Unspent(r)) >= 1
                       /\ p \in Unsignalled(r) => Cardinality(Unsignalled(r)) >= 1
  <2>1. ASSUME NEW S, IsFiniteSet(S), p \in S, Cardinality(S) \in Nat
        PROVE  Cardinality(S) >= 1
    BY <2>1, FS_EmptySet
  <2>2. QED
    BY <2>1, CountType
<1>2. /\ role[p] = Producer /\ pc[p] \in Holding => p \in Unspent(Producer)
      /\ role[p] = Consumer /\ pc[p] \in Holding => p \in Unspent(Consumer)
      /\ role[p] = Producer /\ pc[p] \in Owing => p \in Unsignalled(Producer)
      /\ role[p] = Consumer /\ pc[p] \in Owing => p \in Unsignalled(Consumer)
  BY DEF Unspent, Unsignalled, Holding, Owing
<1>3. Producer \in Roles /\ Consumer \in Roles
  BY DEF Roles
<1>4. /\ sem[EL_COUNT] \in 0 .. SEMVMX /\ sem[FREE_SPACE] \in 0 .. SEMVMX
      /\ queue.count \in 0 .. QUEUE_SIZE /\ queue.free_space \in 0 .. QUEUE_SIZE
  BY QueueSizeAssumption DEF SyncInv, TypeInv, TypeOK, RingConsistent, Semaphores
<1>5. /\ queue.free_space = sem[FREE_SPACE] + Cardinality(Unspent(Producer))
                                            + Cardinality(Unsignalled(Consumer))
      /\ queue.count = sem[EL_COUNT] + Cardinality(Unspent(Consumer))
                                     + Cardinality(Unsignalled(Producer))
  BY DEF SyncInv, SemaphoresCountQueue
<1>6. QED
  BY <1>1, <1>2, <1>3, <1>4, <1>5, SemAssumption, QueueSizeAssumption

\* The statements that move between labels of the same kind disturb nothing.
LEMMA SyncQuiet ==
  ASSUME SyncInv, NEW p \in Procs, NEW l \in Labels,
         TypeInv', pc' = [pc EXCEPT ![p] = l], UNCHANGED <<main, sem, status, role, terminate_flag>>,
         queue'.head = queue.head, queue'.tail = queue.tail,
         queue'.count = queue.count, queue'.free_space = queue.free_space,
         status[p] = "running",
         pc[p] \in Holding <=> l \in Holding, pc[p] \in Owing <=> l \in Owing,
         pc[p] \in {"inside", "update", "signal_access"} <=> l \in {"inside", "update", "signal_access"},
         \A q \in Procs \ {p} : seen'[q] = seen[q],
         l = "update" => seen'[p] = IF role[p] = Producer THEN ProducerView(queue) ELSE ConsumerView(queue)
  PROVE  SyncInv'
<1> USE DEF SyncInv
<1>1. NoSignal' /\ Fresh'
  BY DEF NoSignal, Fresh, TypeInv, TypeOK
<1>2. AccessHeld'
  <2>1. \A q \in Procs : InRing(q)' <=> InRing(q)
    BY DEF InRing, TypeInv, TypeOK
  <2>2. QED
    BY <2>1 DEF AccessHeld
<1>3. SeenCurrent'
  BY DEF SeenCurrent, TypeInv, TypeOK, ProducerView, ConsumerView
<1>4. RingConsistent'
  BY DEF RingConsistent
<1>5. SemaphoresCountQueue'
  <2>1. \A r : Unspent(r)' = Unspent(r) /\ Unsignalled(r)' = Unsignalled(r)
    BY DEF Unspent, Unsignalled, Holding, Owing, TypeInv, TypeOK
  <2>2. QED
    BY <2>1 DEF SemaphoresCountQueue, Roles
<1>6. QED
  BY <1>1, <1>2, <1>3, <1>4, <1>5

\* A token of p's own semaphore is taken.
LEMMA SyncTakeOwn ==
  ASSUME SyncInv, NEW p \in Procs, TypeInv', status[p] = "running",
         pc[p] \in {"wait_own", "sleep_own"}, pc' = [pc EXCEPT ![p] = "wait_access"],
         sem[Own(p)] > 0, sem' = [sem EXCEPT ![Own(p)] = @ - 1],
         UNCHANGED <<main, queue, status, role, terminate_flag, seen>>
  PROVE  SyncInv'
<1> USE DEF SyncInv
<1>1. NoSignal' /\ Fresh'
  BY DEF NoSignal, Fresh, TypeInv, TypeOK
<1>2. AccessHeld'
  <2>1. \A q \in Procs : InRing(q)' <=> InRing(q)
    BY DEF InRing, TypeInv, TypeOK
  <2>2. sem'[QUEUE_ACCESS] = sem[QUEUE_ACCESS]
    BY DEF TypeInv, TypeOK, Own, Semaphores, QUEUE_ACCESS, EL_COUNT, FREE_SPACE
  <2>3. QED
    BY <2>1, <2>2 DEF AccessHeld
<1>3. SeenCurrent'
  BY DEF SeenCurrent, TypeInv, TypeOK
<1>4. RingConsistent'
  BY DEF RingConsistent
<1>5. SemaphoresCountQueue'
  <2>1. UNCHANGED role /\ "wait_access" \in Labels
    BY DEF Labels
  <2>2. \A r \in Roles :
          /\ Cardinality(Unspent(r)') = Cardinality(Unspent(r)) + One(role[p] = r)
          /\ Cardinality(Unsignalled(r)') = Cardinality(Unsignalled(r))
    <3>1. \A r \in Roles :
           /\ Cardinality(Unspent(r)') = Cardinality(Unspent(r))
                - One(role[p] = r /\ pc[p] \in Holding) + One(role[p] = r /\ "wait_access" \in Holding)
           /\ Cardinality(Unsignalled(r)') = Cardinality(Unsignalled(r))
                - One(role[p] = r /\ pc[p] \in Owing) + One(role[p] = r /\ "wait_access" \in Owing)
      BY <2>1, CountMove
    <3>2. QED
      BY <3>1, CountType DEF One, Holding, Owing
  <2>3. /\ role[p] = Producer \/ role[p] = Consumer
        /\ Producer \in Roles /\ Consumer \in Roles /\ Producer # Consumer
    BY DEF TypeInv, TypeOK, Roles, Producer, Consumer
  <2>4. /\ sem'[FREE_SPACE] = sem[FREE_SPACE] - One(role[p] = Producer)
        /\ sem'[EL_COUNT] = sem[EL_COUNT] - One(role[p] = Consumer)
        /\ sem[FREE_SPACE] \in Nat /\ sem[EL_COUNT] \in Nat
    BY <2>3 DEF TypeInv, TypeOK, Own, Semaphores, EL_COUNT, FREE_SPACE, QUEUE_ACCESS, One
  <2>5. QED
    BY <2>2, <2>3, <2>4, CountType DEF SemaphoresCountQueue, One
<1>6. QED
  BY <1>1, <1>2, <1>3, <1>4, <1>5

\* The token of QUEUE_ACCESS_SEM is taken: p is alone inside.
LEMMA SyncTakeAccess ==
  ASSUME SyncInv, NEW p \in Procs, TypeInv', status[p] = "running",
         pc[p] \in {"wait_access", "sleep_access"}, pc' = [pc EXCEPT ![p] = "inside"],
         sem[QUEUE_ACCESS] > 0, sem' = [sem EXCEPT ![QUEUE_ACCESS] = @ - 1],
         UNCHANGED <<main, queue, status, role, terminate_flag, seen>>
  PROVE  SyncInv'
<1> USE DEF SyncInv
<1>1. NoSignal' /\ Fresh'
  BY DEF NoSignal, Fresh, TypeInv, TypeOK
<1>2. AccessHeld'
  <2>1. sem[QUEUE_ACCESS] = 1 /\ \A q \in Procs : ~InRing(q)
    BY DEF AccessHeld
  <2>2. sem'[QUEUE_ACCESS] = 0
    BY <2>1 DEF TypeInv, TypeOK, Semaphores
  <2>3. \A q \in Procs : InRing(q)' <=> q = p
    BY <2>1 DEF InRing, TypeInv, TypeOK
  <2>4. QED
    BY <2>2, <2>3 DEF AccessHeld
<1>3. SeenCurrent'
  BY DEF SeenCurrent, TypeInv, TypeOK
<1>4. RingConsistent'
  BY DEF RingConsistent
<1>5. SemaphoresCountQueue'
  <2>1. \A r : Unspent(r)' = Unspent(r) /\ Unsignalled(r)' = Unsignalled(r)
    BY DEF Unspent, Unsignalled, TypeInv, TypeOK
  <2>2. sem'[FREE_SPACE] = sem[FREE_SPACE] /\ sem'[EL_COUNT] = sem[EL_COUNT]
    BY DEF TypeInv, TypeOK, Semaphores, EL_COUNT, FREE_SPACE, QUEUE_ACCESS
  <2>3. QED
    BY <2>1, <2>2 DEF SemaphoresCountQueue
<1>6. QED
  BY <1>1, <1>2, <1>3, <1>4, <1>5

\* p leaves the ring and gives the token back.
LEMMA SyncSignalAccess ==
  ASSUME SyncInv, NEW p \in Procs, TypeInv', SignalAccess(p)
  PROVE  SyncInv'
<1> USE DEF SyncInv, SignalAccess, At, Goto
<1>1. NoSignal' /\ Fresh'
  BY DEF NoSignal, Fresh, TypeInv, TypeOK, parentVars
<1>2. sem[QUEUE_ACCESS] = 0 /\ \A q \in Procs : InRing(q) <=> q = p
  BY DEF AccessHeld, InRing
<1>3. sem' = [sem EXCEPT ![QUEUE_ACCESS] = @ + 1]
  BY <1>2, SemAssumption, QueueSizeAssumption DEF Signal
<1>4. AccessHeld'
  <2>1. sem'[QUEUE_ACCESS] = 1
    BY <1>2, <1>3 DEF TypeInv, TypeOK, Semaphores
  <2>2. \A q \in Procs : ~InRing(q)'
    BY <1>2 DEF InRing, TypeInv, TypeOK
  <2>3. QED
    BY <2>1, <2>2 DEF AccessHeld
<1>5. SeenCurrent'
  BY DEF SeenCurrent, TypeInv, TypeOK
<1>6. RingConsistent'
  BY DEF RingConsistent
<1>7. SemaphoresCountQueue'
  <2>1. \A r : Unspent(r)' = Unspent(r) /\ Unsignalled(r)' = Unsignalled(r)
    BY DEF Unspent, Unsignalled, TypeInv, TypeOK
  <2>2. sem'[FREE_SPACE] = sem[FREE_SPACE] /\ sem'[EL_COUNT] = sem[EL_COUNT]
    BY <1>3 DEF TypeInv, TypeOK, Semaphores, EL_COUNT, FREE_SPACE, QUEUE_ACCESS
  <2>3. QED
    BY <2>1, <2>2 DEF SemaphoresCountQueue
<1>8. QED
  BY <1>1, <1>4, <1>5, <1>6, <1>7

\* The other side gets its token.
LEMMA SyncSignalOther ==
  ASSUME SyncInv, NEW p \in Procs, TypeInv', SignalOther(p)
  PROVE  SyncInv'
<1> USE DEF SyncInv, SignalOther, At, Goto
<1> DEFINE l == IF ptr[p] = NULL THEN "top" ELSE "hash"
<1>0. pc[p] = "signal_other" /\ l \in Labels /\ pc' = [pc EXCEPT ![p] = l] /\ l \in {"top", "hash"}
  BY DEF Labels
<1> HIDE DEF l
<1>1. NoSignal' /\ Fresh'
  BY <1>0 DEF NoSignal, Fresh, TypeInv, TypeOK, parentVars
<1>2. /\ role[p] = Producer \/ role[p] = Consumer
      /\ Producer \in Roles /\ Consumer \in Roles /\ Producer # Consumer
  BY DEF TypeInv, TypeOK, Roles, Producer, Consumer
<1>3. sem[Other(p)] < SEMVMX
  BY <1>0, <1>2, TokensCover DEF Other, Owing
<1>4. sem' = [sem EXCEPT ![Other(p)] = @ + 1]
  BY <1>3 DEF Signal
<1>5. AccessHeld'
  <2>1. \A q \in Procs : InRing(q)' <=> InRing(q)
    BY <1>0 DEF InRing, TypeInv, TypeOK
  <2>2. sem'[QUEUE_ACCESS] = sem[QUEUE_ACCESS]
    BY <1>4 DEF TypeInv, TypeOK, Other, Semaphores, QUEUE_ACCESS, EL_COUNT, FREE_SPACE
  <2>3. QED
    BY <2>1, <2>2 DEF AccessHeld
<1>6. SeenCurrent'
  BY <1>0 DEF SeenCurrent, TypeInv, TypeOK
<1>7. RingConsistent'
  BY DEF RingConsistent
<1>8. SemaphoresCountQueue'
  <2>1. UNCHANGED role
    OBVIOUS
  <2>2. \A r \in Roles :
          /\ Cardinality(Unspent(r)') = Cardinality(Unspent(r))
          /\ Cardinality(Unsignalled(r)') = Cardinality(Unsignalled(r)) - One(role[p] = r)
    <3>1. \A r \in Roles :
           /\ Cardinality(Unspent(r)') = Cardinality(Unspent(r))
                - One(role[p] = r /\ pc[p] \in Holding) + One(role[p] = r /\ l \in Holding)
           /\ Cardinality(Unsignalled(r)') = Cardinality(Unsignalled(r))
                - One(role[p] = r /\ pc[p] \in Owing) + One(role[p] = r /\ l \in Owing)
      BY <1>0, <2>1, CountMove
    <3>2. QED
      BY <3>1, <1>0, <2>1, CountType DEF One, Holding, Owing
  <2>3. /\ sem'[FREE_SPACE] = sem[FREE_SPACE] + One(role[p] = Consumer)
        /\ sem'[EL_COUNT] = sem[EL_COUNT] + One(role[p] = Producer)
        /\ sem[FREE_SPACE] \in Nat /\ sem[EL_COUNT] \in Nat
    BY <1>2, <1>4 DEF TypeInv, TypeOK, Other, Semaphores, EL_COUNT, FREE_SPACE, QUEUE_ACCESS, One
  <2>4. QED
    BY <1>2, <2>2, <2>3, CountType DEF SemaphoresCountQueue, One
<1>9. QED
  BY <1>1, <1>5, <1>6, <1>7, <1>8

\* An update of the ring by the child inside, that moves the counters by n.
LEMMA SyncUpdate ==
  ASSUME SyncInv, NEW p \in Procs, TypeInv', status[p] = "running",
         pc[p] = "update", pc' = [pc EXCEPT ![p] = "signal_access"],
         UNCHANGED <<main, sem, status, role, terminate_flag>>,
         \A q \in Procs \ {p} : seen'[q] = seen[q],
         RingConsistent',
         queue'.count = queue.count + One(role[p] = Producer) - One(role[p] = Consumer)
  PROVE  SyncInv'
<1> USE DEF SyncInv
<1>1. NoSignal' /\ Fresh'
  BY DEF NoSignal, Fresh, TypeInv, TypeOK
<1>2. AccessHeld' /\ \A q \in Procs : InRing(q) <=> q = p
  <2>1. \A q \in Procs : InRing(q)' <=> InRing(q)
    BY DEF InRing, TypeInv, TypeOK
  <2>2. InRing(p)
    BY DEF InRing
  <2>3. QED
    BY <2>1, <2>2 DEF AccessHeld
<1>3. SeenCurrent'
  BY <1>2 DEF SeenCurrent, InRing, TypeInv, TypeOK
<1>4. SemaphoresCountQueue'
  <2>0. /\ role[p] = Producer \/ role[p] = Consumer
        /\ Producer \in Roles /\ Consumer \in Roles /\ Producer # Consumer
    BY DEF TypeInv, TypeOK, Roles, Producer, Consumer
  <2>1. /\ UNCHANGED role /\ "signal_access" \in Labels
    BY DEF Labels
  <2>2. \A r \in Roles :
          /\ Cardinality(Unspent(r)') = Cardinality(Unspent(r)) - One(role[p] = r)
          /\ Cardinality(Unsignalled(r)') = Cardinality(Unsignalled(r)) + One(role[p] = r)
    <3>1. \A r \in Roles :
           /\ Cardinality(Unspent(r)') = Cardinality(Unspent(r))
                - One(role[p] = r /\ pc[p] \in Holding) + One(role[p] = r /\ "signal_access" \in Holding)
           /\ Cardinality(Unsignalled(r)') = Cardinality(Unsignalled(r))
                - One(role[p] = r /\ pc[p] \in Owing) + One(role[p] = r /\ "signal_access" \in Owing)
      BY <2>1, CountMove
    <3>2. QED
      BY <3>1, <2>1, CountType DEF One, Holding, Owing
  <2>3. /\ sem[FREE_SPACE] \in Nat /\ sem[EL_COUNT] \in Nat
        /\ queue.count \in Int /\ queue.free_space = QUEUE_SIZE - queue.count
        /\ queue'.free_space = QUEUE_SIZE - queue'.count
    BY DEF TypeInv, TypeOK, Semaphores, RingConsistent
  <2>4. QED
    BY <2>0, <2>2, <2>3, CountType, QueueSizeAssumption DEF SemaphoresCountQueue, One
<1>5. QED
  BY <1>1, <1>2, <1>3, <1>4

\* Every statement of a child keeps the protocol invariant.
LEMMA SyncChild ==
  ASSUME SyncInv, NEW p \in Procs, Child(p)
  PROVE  SyncInv'
<1> USE DEF At, Goto
<1>1. TypeInv /\ TypeInv'
  BY ChildType DEF SyncInv
<1>2. status[p] = "running" /\ main' = main
  BY DEF Child, InstallHandler, TestFlag, WaitOwn, WakeOwn, WaitAccess, WakeAccess, CallWait, WakeUp,
         BeginEnqueue, EndEnqueue, BeginDequeue, EndDequeue, SignalAccess, SignalOther,
         CalculateHash, CompareHash, parentVars
<1>3. CASE InstallHandler(p)
  BY <1>1, <1>2, <1>3, SyncQuiet DEF InstallHandler, Labels, Holding, Owing
<1>4. CASE TestFlag(p)
  <2>1. ~terminate_flag[p]
    BY DEF SyncInv, NoSignal
  <2>2. QED
    BY <1>1, <1>2, <1>4, <2>1, SyncQuiet DEF TestFlag, Labels, Holding, Owing
<1>5. CASE WaitOwn(p)
  <2>1. CASE sem[Own(p)] > 0
    BY <1>1, <1>2, <1>5, <2>1, SyncTakeOwn DEF WaitOwn, CallWait
  <2>2. CASE ~(sem[Own(p)] > 0)
    BY <1>1, <1>2, <1>5, <2>2, SyncQuiet DEF WaitOwn, CallWait, Labels, Holding, Owing
  <2>3. QED
    BY <2>1, <2>2
<1>6. CASE WakeOwn(p)
  BY <1>1, <1>2, <1>6, SyncTakeOwn DEF WakeOwn, WakeUp
<1>7. CASE WaitAccess(p)
  <2>1. CASE sem[QUEUE_ACCESS] > 0
    BY <1>1, <1>2, <1>7, <2>1, SyncTakeAccess DEF WaitAccess, CallWait
  <2>2. CASE ~(sem[QUEUE_ACCESS] > 0)
    BY <1>1, <1>2, <1>7, <2>2, SyncQuiet DEF WaitAccess, CallWait, Labels, Holding, Owing
  <2>3. QED
    BY <2>1, <2>2
<1>8. CASE WakeAccess(p)
  BY <1>1, <1>2, <1>8, SyncTakeAccess DEF WakeAccess, WakeUp
<1>9. CASE BeginEnqueue(p)
  <2>1. ~Full(queue)
    BY <1>9, TokensCover DEF BeginEnqueue, Full, Holding
  <2>2. PICK m \in Messages : /\ queue' = CopyBody(queue, m)
                              /\ seen' = [seen EXCEPT ![p] = ProducerView(queue)]
                              /\ pc' = [pc EXCEPT ![p] = "update"]
    BY <1>9, <2>1 DEF BeginEnqueue
  <2>3. /\ queue'.head = queue.head /\ queue'.tail = queue.tail
        /\ queue'.count = queue.count /\ queue'.free_space = queue.free_space
    BY <1>1, <2>2 DEF CopyBody, Queue, TypeInv, TypeOK
  <2>4. seen'[p] = ProducerView(queue) /\ \A q \in Procs \ {p} : seen'[q] = seen[q]
    BY <1>1, <2>2 DEF TypeInv, TypeOK
  <2>5. QED
    BY <1>1, <1>2, <1>9, <2>2, <2>3, <2>4, SyncQuiet DEF BeginEnqueue, Labels, Holding, Owing
<1>10. CASE BeginDequeue(p)
  <2>1. ~Empty(queue)
    BY <1>10, TokensCover DEF BeginDequeue, Empty, Holding, Consumer
  <2>2. seen'[p] = ConsumerView(queue) /\ \A q \in Procs \ {p} : seen'[q] = seen[q]
    BY <1>1, <1>10, <2>1 DEF BeginDequeue, TypeInv, TypeOK
  <2>3. QED
    BY <1>1, <1>2, <1>10, <2>1, <2>2, SyncQuiet
    DEF BeginDequeue, Labels, Holding, Owing, Producer, Consumer
<1>11. CASE EndEnqueue(p)
  <2>1. seen[p] = ProducerView(queue)
    BY <1>11 DEF EndEnqueue, SyncInv, SeenCurrent
  <2>2. PICK v \in Mixed(seen[p], ProducerView(queue)) :
          queue' = StoreEnqueue(queue, seen[p].pos, msg[p], v)
    BY <1>11 DEF EndEnqueue
  <2>3. v.pos = queue.tail /\ v.count = queue.count /\ v.free_space = queue.free_space
    BY <2>1 DEF Mixed, ProducerView
  <2>4. queue.free_space > 0
    BY <1>11, TokensCover DEF EndEnqueue, Holding
  <2>5. /\ queue.count \in 0 .. QUEUE_SIZE - 1 /\ queue.head \in Slots
        /\ queue.tail = Ahead(queue.head, queue.count)
        /\ queue.free_space = QUEUE_SIZE - queue.count
    BY <1>1, <2>4, QueueSizeAssumption DEF SyncInv, RingConsistent, TypeInv, TypeOK, Queue
  <2>6. /\ queue'.head = queue.head /\ queue'.tail = NextSlot(queue.tail)
        /\ queue'.count = queue.count + 1 /\ queue'.free_space = queue.free_space - 1
    BY <1>1, <2>2, <2>3, <2>5, IntAssumption, QueueSizeAssumption
    DEF StoreEnqueue, Inc, Dec, TypeInv, TypeOK, Queue
  <2>7. RingConsistent'
    BY <2>5, <2>6, AheadNext, QueueSizeAssumption DEF RingConsistent
  <2>8. queue'.count = queue.count + One(role[p] = Producer) - One(role[p] = Consumer)
    BY <1>11, <2>5, <2>6 DEF EndEnqueue, One, Producer, Consumer
  <2>9. \A q \in Procs \ {p} : seen'[q] = seen[q]
    BY <1>1, <1>11 DEF EndEnqueue, TypeInv, TypeOK
  <2>10. QED
    BY <1>1, <1>2, <1>11, <2>7, <2>8, <2>9, SyncUpdate DEF EndEnqueue
<1>12. CASE EndDequeue(p)
  <2>1. seen[p] = ConsumerView(queue)
    BY <1>12 DEF EndDequeue, SyncInv, SeenCurrent, Producer, Consumer
  <2>2. PICK v \in Mixed(seen[p], ConsumerView(queue)) : queue' = StoreDequeue(queue, v)
    BY <1>12 DEF EndDequeue
  <2>3. v.pos = queue.head /\ v.count = queue.count /\ v.free_space = queue.free_space
    BY <2>1 DEF Mixed, ConsumerView
  <2>4. queue.count > 0
    BY <1>12, TokensCover DEF EndDequeue, Holding
  <2>5. /\ queue.count \in 1 .. QUEUE_SIZE /\ queue.head \in Slots
        /\ queue.tail = Ahead(queue.head, queue.count)
        /\ queue.free_space = QUEUE_SIZE - queue.count
    BY <1>1, <2>4, QueueSizeAssumption DEF SyncInv, RingConsistent, TypeInv, TypeOK, Queue
  <2>6. /\ queue'.head = NextSlot(queue.head) /\ queue'.tail = queue.tail
        /\ queue'.count = queue.count - 1 /\ queue'.free_space = queue.free_space + 1
    BY <1>1, <2>2, <2>3, <2>5, IntAssumption, QueueSizeAssumption
    DEF StoreDequeue, Inc, Dec, TypeInv, TypeOK, Queue
  <2>7. RingConsistent'
    <3>1. queue.count - 1 \in 0 .. QUEUE_SIZE - 1 /\ (queue.count - 1) + 1 = queue.count
      BY <2>5, QueueSizeAssumption
    <3>2. Ahead(NextSlot(queue.head), queue.count - 1) = Ahead(queue.head, queue.count)
      BY <2>5, <3>1, AheadNext
    <3>3. QED
      BY <2>5, <2>6, <3>1, <3>2, QueueSizeAssumption DEF RingConsistent
  <2>8. queue'.count = queue.count + One(role[p] = Producer) - One(role[p] = Consumer)
    BY <1>12, <2>5, <2>6 DEF EndDequeue, One, Producer, Consumer
  <2>9. \A q \in Procs \ {p} : seen'[q] = seen[q]
    BY <1>1, <1>12 DEF EndDequeue, TypeInv, TypeOK
  <2>10. QED
    BY <1>1, <1>2, <1>12, <2>7, <2>8, <2>9, SyncUpdate DEF EndDequeue
<1>13. CASE SignalAccess(p)
  BY <1>1, <1>13, SyncSignalAccess
<1>14. CASE SignalOther(p)
  BY <1>1, <1>14, SyncSignalOther
<1>15. CASE CalculateHash(p)
  BY <1>1, <1>2, <1>15, SyncQuiet DEF CalculateHash, Labels, Holding, Owing
<1>16. CASE CompareHash(p)
  BY <1>1, <1>2, <1>16, SyncQuiet DEF CompareHash, Labels, Holding, Owing
<1>17. QED
  BY <1>3, <1>4, <1>5, <1>6, <1>7, <1>8, <1>9, <1>10, <1>11, <1>12, <1>13, <1>14, <1>15, <1>16 DEF Child

\* A step that leaves the children's place and the ring alone keeps the invariant.
LEMMA SyncFrame ==
  ASSUME SyncInv, TypeInv', NoSignal', Fresh', UNCHANGED <<sem, queue>>,
         \A p \in Procs : \/ pc'[p] = pc[p] /\ role'[p] = role[p] /\ seen'[p] = seen[p]
                          \/ pc[p] = "start" /\ pc'[p] = "start"
  PROVE  SyncInv'
<1> USE DEF SyncInv
<1>1. AccessHeld'
  <2>1. \A p \in Procs : InRing(p)' <=> InRing(p)
    BY DEF InRing
  <2>2. QED
    BY <2>1 DEF AccessHeld
<1>2. SeenCurrent' /\ RingConsistent'
  BY DEF SeenCurrent, RingConsistent
<1>3. SemaphoresCountQueue'
  <2>1. \A r : Unspent(r)' = Unspent(r) /\ Unsignalled(r)' = Unsignalled(r)
    BY DEF Unspent, Unsignalled
  <2>2. QED
    BY <2>1 DEF SemaphoresCountQueue
<1>4. QED
  BY <1>1, <1>2, <1>3

\* Every step of the parent keeps the protocol invariant, if it kills nobody.
LEMMA SyncParent ==
  ASSUME "k" \notin Commands, SyncInv,
         \/ CreateProcess("+", Consumer) \/ CreateProcess("*", Producer)
         \/ \E i \in 1 .. MAX_PROCESSES_COUNT : KillProcess(i)
         \/ ReapVictim \/ Quit \/ Exit \/ Fail
         \/ \E p \in Procs : Terminate(p) \/ ReapAny(p)
  PROVE  SyncInv'
<1>1. TypeInv /\ TypeInv' /\ NoSignal /\ Fresh
  BY ParentType DEF SyncInv
<1>2. ASSUME NEW command, NEW r \in Roles, CreateProcess(command, r)
      PROVE  SyncInv'
  <2>1. PICK p \in Procs :
          /\ status[p] = "none"
          /\ status' = [status EXCEPT ![p] = "running"]
          /\ role' = [role EXCEPT ![p] = r]
          /\ pc' = [pc EXCEPT ![p] = "start"]
          /\ terminate_flag' = [terminate_flag EXCEPT ![p] = FALSE]
          /\ seen' = [seen EXCEPT ![p] = NoView]
    BY <1>2 DEF CreateProcess
  <2>2. main = "command" /\ UNCHANGED <<main, sem, queue>>
    BY <1>2 DEF CreateProcess, MayRead
  <2>3. pc[p] = "start"
    BY <1>1, <2>1, <2>2 DEF Fresh
  <2>4. NoSignal' /\ Fresh'
    BY <1>1, <2>1, <2>2 DEF NoSignal, Fresh, TypeInv, TypeOK
  <2>5. \A q \in Procs : \/ pc'[q] = pc[q] /\ role'[q] = role[q] /\ seen'[q] = seen[q]
                         \/ pc[q] = "start" /\ pc'[q] = "start"
    BY <1>1, <2>1, <2>3 DEF TypeInv, TypeOK
  <2>6. QED
    BY <1>1, <2>2, <2>4, <2>5, SyncFrame
<1>3. ASSUME NEW i \in 1 .. MAX_PROCESSES_COUNT, KillProcess(i)
      PROVE  SyncInv'
  BY <1>3 DEF KillProcess, MayRead
<1>4. CASE ReapVictim
  BY <1>1, <1>4 DEF ReapVictim, NoSignal
<1>5. CASE Quit \/ Exit \/ Fail
  <2>1. /\ UNCHANGED <<sem, queue, pc, role, seen, terminate_flag, status>>
        /\ main' \in {"shutdown", "done", "failed"}
    BY <1>5 DEF Quit, Exit, Fail, childVars
  <2>2. QED
    BY <1>1, <2>1, SyncFrame DEF NoSignal, Fresh
<1>6. ASSUME NEW p \in Procs, Terminate(p) \/ ReapAny(p)
      PROVE  SyncInv'
  <2>1. /\ UNCHANGED <<sem, queue, pc, role, seen, terminate_flag, main>>
        /\ main = "shutdown"
    BY <1>6 DEF Terminate, ReapAny, childVars, parentVars
  <2>2. QED
    BY <1>1, <2>1, SyncFrame DEF NoSignal, Fresh
<1>7. Consumer \in Roles /\ Producer \in Roles
  BY DEF Roles
<1>8. QED
  BY <1>2, <1>3, <1>4, <1>5, <1>6, <1>7

\* The protocol invariant holds when the parent enters its command loop.
LEMMA SyncInit == Init => SyncInv
<1> SUFFICES ASSUME Init PROVE SyncInv
  OBVIOUS
<1>1. TypeInv
  BY InitType
<1>2. NoSignal /\ Fresh /\ SeenCurrent
  BY DEF Init, NoSignal, Fresh, SeenCurrent
<1>3. AccessHeld
  BY DEF Init, AccessHeld, InRing, Semaphores, EL_COUNT, FREE_SPACE, QUEUE_ACCESS
<1>4. RingConsistent
  BY QueueSizeAssumption DEF Init, RingConsistent, EmptyQueue, Ahead
<1>5. SemaphoresCountQueue
  <2>1. \A r : Unspent(r) = {} /\ Unsignalled(r) = {}
    BY DEF Init, Unspent, Unsignalled
  <2>2. Cardinality({}) = 0
    BY FS_EmptySet
  <2>3. sem[FREE_SPACE] = QUEUE_SIZE /\ sem[EL_COUNT] = 0
    BY DEF Init, Semaphores, EL_COUNT, FREE_SPACE, QUEUE_ACCESS
  <2>4. queue.free_space = QUEUE_SIZE /\ queue.count = 0
    BY DEF Init, EmptyQueue
  <2>5. \A r : Cardinality(Unspent(r)) = 0 /\ Cardinality(Unsignalled(r)) = 0
    BY <2>1, <2>2
  <2>6. QED
    BY <2>3, <2>4, <2>5, QueueSizeAssumption DEF SemaphoresCountQueue
<1>6. QED
  BY <1>1, <1>2, <1>3, <1>4, <1>5 DEF SyncInv

\* What the protocol invariant promises.
LEMMA SyncImplies == SyncInv => MutualExclusion /\ NeverRefused
<1> SUFFICES ASSUME SyncInv PROVE MutualExclusion /\ NeverRefused
  OBVIOUS
<1>1. MutualExclusion
  BY DEF SyncInv, AccessHeld, MutualExclusion
<1>2. ASSUME NEW p \in Procs, At(p, "inside")
      PROVE  IF role[p] = Producer THEN ~Full(queue) ELSE ~Empty(queue)
  <2>1. role[p] = Producer \/ role[p] = Consumer
    BY DEF SyncInv, TypeInv, TypeOK, Roles
  <2>2. QED
    BY <1>2, <2>1, TokensCover DEF At, Holding, Full, Empty
<1>3. QED
  BY <1>1, <1>2 DEF NeverRefused

\* The invariant holds for good.
LEMMA SyncInvariant ==
  ASSUME "k" \notin Commands
  PROVE  Spec => []SyncInv
<1>1. Init => SyncInv
  BY SyncInit
<1>2. SyncInv /\ [Next]_vars => SyncInv'
  <2>1. ASSUME SyncInv, UNCHANGED vars PROVE SyncInv'
    <3>1. TypeInv' /\ NoSignal' /\ Fresh'
      BY <2>1, StutterType DEF SyncInv, vars, NoSignal, Fresh
    <3>2. QED
      BY <2>1, <3>1, SyncFrame DEF vars
  <2>2. QED
    BY <2>1, SyncChild, SyncParent DEF Next
<1>3. QED
  BY <1>1, <1>2, PTL DEF Spec

\* The semaphores protect the ring: as long as no child is killed with SIGUSR1,
\* at most one child is between wait_semaphore(QUEUE_ACCESS_SEM) and its signal,
\* for any number of children, any ring size and wherever SIGTERM ends them.
THEOREM RingProtected ==
  ASSUME "k" \notin Commands
  PROVE  Spec => []MutualExclusion
BY SyncInvariant, SyncImplies, PTL

\* The ring and its semaphores agree: count, free_space, head and tail fit
\* together, and the counting semaphores count what is in the ring up to the
\* children that are in between.
THEOREM CountsAgree ==
  ASSUME "k" \notin Commands
  PROVE  Spec => [](RingConsistent /\ SemaphoresCountQueue)
<1>1. SyncInv => RingConsistent /\ SemaphoresCountQueue
  BY DEF SyncInv
<1>2. QED
  BY <1>1, SyncInvariant, PTL

\* enqueue() and dequeue() are never refused, so no message that a producer
\* reports as added has been dropped.
THEOREM NothingRefused ==
  ASSUME "k" \notin Commands
  PROVE  Spec => []NeverRefused
BY SyncInvariant, SyncImplies, PTL

-----------------------------------------------------------------------------
(***************************************************************************)
(* The ring implements the bounded FIFO.  The messages inside are the      *)
(* count slots from head on; the slot at tail, which a producer fills in   *)
(* two halves, is not among them until the fields are stored.              *)
(***************************************************************************)

\* Between its two halves a producer has a message in the slot at tail.
HalfWritten ==
  \A p \in Procs : pc[p] = "update" /\ role[p] = Producer =>
    queue.buffer[queue.tail].body \in Messages

FifoInv == SyncInv /\ HalfWritten

\* The slots counted from head are slots, and distinct from the one at tail.
LEMMA AheadSlots ==
  ASSUME NEW s \in Slots, NEW n \in 0 .. QUEUE_SIZE - 1
  PROVE  /\ Ahead(s, n) \in Slots
         /\ \A i \in 0 .. n - 1 : Ahead(s, i) # Ahead(s, n)
BY QueueSizeAssumption DEF Slots, Ahead

\* The content is a sequence of count parts of messages.
LEMMA ContentType ==
  ASSUME NEW q \in Queue, q.count \in 0 .. QUEUE_SIZE
  PROVE  /\ Content(q) \in Seq(Contents)
         /\ Len(Content(q)) = q.count
         /\ \A i \in 1 .. q.count : Content(q)[i] = q.buffer[Ahead(q.head, i - 1)].body
<1>1. \A i \in 1 .. q.count : q.buffer[Ahead(q.head, i - 1)].body \in Contents
  <2>1. \A i \in 1 .. q.count : Ahead(q.head, i - 1) \in Slots
    BY AheadSlots, QueueSizeAssumption DEF Queue
  <2>2. QED
    BY <2>1 DEF Queue, Slot
<1>2. q.count \in Nat
  BY QueueSizeAssumption
<1>3. QED
  BY <1>1, <1>2 DEF Content

\* Half a message in the slot at tail does not show.
LEMMA ContentCopy ==
  ASSUME NEW q \in Queue, q.count \in 0 .. QUEUE_SIZE - 1, q.tail = Ahead(q.head, q.count),
         NEW m \in Contents
  PROVE  Content(CopyBody(q, m)) = Content(q)
<1>1. CopyBody(q, m).count = q.count /\ CopyBody(q, m).head = q.head
  BY DEF CopyBody, Queue
<1>2. ASSUME NEW i \in 1 .. q.count
      PROVE  CopyBody(q, m).buffer[Ahead(q.head, i - 1)].body = q.buffer[Ahead(q.head, i - 1)].body
  <2>1. Ahead(q.head, i - 1) \in Slots /\ Ahead(q.head, i - 1) # q.tail
    BY AheadSlots, QueueSizeAssumption DEF Queue
  <2>2. QED
    BY <2>1 DEF CopyBody, Queue, Slot
<1>3. QED
  BY <1>1, <1>2 DEF Content

\* Storing the fields after an enqueue appends the message at tail.
LEMMA ContentStoreEnqueue ==
  ASSUME NEW q \in Queue, q.count \in 0 .. QUEUE_SIZE - 1, q.tail = Ahead(q.head, q.count),
         NEW at \in Slots, NEW m \in Contents, NEW v \in View, v.count = q.count
  PROVE  Content(StoreEnqueue(q, at, m, v)) = Append(Content(q), q.buffer[q.tail].body)
<1> DEFINE r == StoreEnqueue(q, at, m, v)
<1>0. r \in Queue
  BY StoreType
<1>1. r.count = q.count + 1 /\ r.head = q.head
  BY IntAssumption, QueueSizeAssumption DEF StoreEnqueue, Queue, Inc
<1>2. \A s \in Slots : r.buffer[s].body = q.buffer[s].body
  BY DEF StoreEnqueue, Queue, Slot
<1> HIDE DEF r
<1>3. \A i \in 1 .. q.count + 1 : Ahead(q.head, i - 1) \in Slots
  BY AheadSlots, QueueSizeAssumption DEF Queue
<1>4. Content(q) \in Seq(Contents) /\ Len(Content(q)) = q.count
      /\ \A i \in 1 .. q.count : Content(q)[i] = q.buffer[Ahead(q.head, i - 1)].body
  BY ContentType, QueueSizeAssumption
<1>5. Content(r) \in Seq(Contents) /\ Len(Content(r)) = q.count + 1
      /\ \A i \in 1 .. q.count + 1 : Content(r)[i] = q.buffer[Ahead(q.head, i - 1)].body
  <2>1. r.count \in 0 .. QUEUE_SIZE
    BY <1>1, QueueSizeAssumption
  <2>2. /\ Content(r) \in Seq(Contents)
        /\ Len(Content(r)) = r.count
        /\ \A i \in 1 .. r.count : Content(r)[i] = r.buffer[Ahead(r.head, i - 1)].body
    BY <1>0, <2>1, ContentType
  <2>3. Content(r) \in Seq(Contents) /\ Len(Content(r)) = q.count + 1
    BY <1>1, <2>2
  <2>4. ASSUME NEW i \in 1 .. q.count + 1
        PROVE  Content(r)[i] = q.buffer[Ahead(q.head, i - 1)].body
    <3>1. Content(r)[i] = r.buffer[Ahead(q.head, i - 1)].body
      BY <1>1, <2>2
    <3>2. Ahead(q.head, i - 1) \in Slots
      BY <1>3
    <3>3. QED
      BY <1>2, <3>1, <3>2
  <2>5. QED
    BY <2>3, <2>4
<1>6. q.buffer[q.tail].body \in Contents
  BY DEF Queue, Slot
<1>7. Content(r) = Append(Content(q), q.buffer[q.tail].body)
  <2>1. Append(Content(q), q.buffer[q.tail].body) \in Seq(Contents)
        /\ Len(Append(Content(q), q.buffer[q.tail].body)) = q.count + 1
    BY <1>4, <1>6
  <2>2. ASSUME NEW i \in 1 .. q.count + 1
        PROVE  Append(Content(q), q.buffer[q.tail].body)[i] = Content(r)[i]
    BY <1>4, <1>5, QueueSizeAssumption
  <2>3. QED
    BY <1>5, <2>1, <2>2, SeqEqual
<1>8. QED
  BY <1>7 DEF r

\* Storing the fields after a dequeue drops the message at head.
LEMMA ContentStoreDequeue ==
  ASSUME NEW q \in Queue, q.count \in 1 .. QUEUE_SIZE,
         NEW v \in View, v.pos = q.head, v.count = q.count
  PROVE  Content(StoreDequeue(q, v)) = Tail(Content(q))
<1> DEFINE r == StoreDequeue(q, v)
<1>0. r \in Queue
  BY StoreType
<1>1. r.count = q.count - 1 /\ r.head = NextSlot(q.head) /\ r.buffer = q.buffer
  BY IntAssumption, QueueSizeAssumption DEF StoreDequeue, Queue, Dec
<1> HIDE DEF r
<1>2. \A i \in 1 .. q.count - 1 : Ahead(NextSlot(q.head), i - 1) = Ahead(q.head, i)
  BY AheadNext, QueueSizeAssumption DEF Queue
<1>3. Content(q) \in Seq(Contents) /\ Len(Content(q)) = q.count
      /\ \A i \in 1 .. q.count : Content(q)[i] = q.buffer[Ahead(q.head, i - 1)].body
  BY ContentType, QueueSizeAssumption
<1>4. Content(r) \in Seq(Contents) /\ Len(Content(r)) = q.count - 1
      /\ \A i \in 1 .. q.count - 1 : Content(r)[i] = q.buffer[Ahead(q.head, i)].body
  <2>1. r.count \in 0 .. QUEUE_SIZE
    BY <1>1, QueueSizeAssumption
  <2>2. /\ Content(r) \in Seq(Contents)
        /\ Len(Content(r)) = r.count
        /\ \A i \in 1 .. r.count : Content(r)[i] = r.buffer[Ahead(r.head, i - 1)].body
    BY <1>0, <2>1, ContentType
  <2>3. QED
    BY <1>1, <1>2, <2>2
<1>5. Tail(Content(q)) \in Seq(Contents) /\ Len(Tail(Content(q))) = q.count - 1
  BY <1>3, QueueSizeAssumption
<1>6. \A i \in 1 .. q.count - 1 : Tail(Content(q))[i] = Content(r)[i]
  BY <1>3, <1>4, QueueSizeAssumption
<1>7. QED
  BY <1>4, <1>5, <1>6, SeqEqual DEF r

\* In a protocol state the ring holds between none and QUEUE_SIZE messages, and
\* the child that updates it acts on the fields as they are.
LEMMA UpdateFacts ==
  ASSUME SyncInv, NEW p \in Procs, pc[p] = "update"
  PROVE  /\ queue \in Queue /\ queue.tail = Ahead(queue.head, queue.count)
         /\ role[p] = Producer => queue.count \in 0 .. QUEUE_SIZE - 1
         /\ role[p] = Producer => seen[p] = ProducerView(queue)
         /\ role[p] = Consumer => queue.count \in 1 .. QUEUE_SIZE
         /\ role[p] = Consumer => seen[p] = ConsumerView(queue)
         /\ seen[p] \in View /\ msg[p] \in Contents
<1>1. /\ queue \in Queue /\ queue.count \in 0 .. QUEUE_SIZE
      /\ queue.free_space = QUEUE_SIZE - queue.count
      /\ queue.tail = Ahead(queue.head, queue.count)
      /\ seen[p] \in View /\ msg[p] \in Contents
  BY DEF SyncInv, TypeInv, TypeOK, RingConsistent
<1>2. /\ role[p] = Producer => queue.free_space > 0
      /\ role[p] = Consumer => queue.count > 0
  BY TokensCover DEF Holding
<1>3. /\ role[p] = Producer => seen[p] = ProducerView(queue)
      /\ role[p] = Consumer => seen[p] = ConsumerView(queue)
  BY DEF SyncInv, SeenCurrent, Producer, Consumer
<1>4. QED
  BY <1>1, <1>2, <1>3, QueueSizeAssumption

\* A statement of a child appends a message, drops the oldest, or neither.
LEMMA FifoChild ==
  ASSUME FifoInv, NEW p \in Procs, Child(p)
  PROVE  HalfWritten' /\ [Fifo!Next]_FifoContent
<1> USE DEF At, Goto, FifoInv
<1>0. TypeInv /\ queue \in Queue
  BY DEF SyncInv, TypeInv, TypeOK
<1>1. CASE BeginEnqueue(p)
  <2>1. ~Full(queue)
    BY <1>1, TokensCover DEF BeginEnqueue, Full, Holding
  <2>2. PICK m \in Messages : queue' = CopyBody(queue, m)
    BY <1>1, <2>1 DEF BeginEnqueue
  <2>3. queue.free_space > 0
    BY <1>1, TokensCover DEF BeginEnqueue, Holding
  <2>4. queue.count \in 0 .. QUEUE_SIZE - 1 /\ queue.tail = Ahead(queue.head, queue.count)
    BY <2>3, QueueSizeAssumption DEF SyncInv, RingConsistent
  <2>5. m \in Contents
    BY DEF Contents
  <2>6. FifoContent' = FifoContent
    BY <1>0, <2>2, <2>4, <2>5, ContentCopy DEF FifoContent
  <2>7. queue'.buffer[queue'.tail].body = m
    BY <1>0, <2>2 DEF CopyBody, Queue, Slot
  <2>8. QED
    BY <2>6, <2>7 DEF HalfWritten
<1>2. CASE EndEnqueue(p)
  <2>1. PICK v \in Mixed(seen[p], ProducerView(queue)) :
          queue' = StoreEnqueue(queue, seen[p].pos, msg[p], v)
    BY <1>2 DEF EndEnqueue
  <2>2. pc[p] = "update" /\ role[p] = Producer
    BY <1>2 DEF EndEnqueue
  <2>3. /\ queue.count \in 0 .. QUEUE_SIZE - 1 /\ queue.tail = Ahead(queue.head, queue.count)
        /\ seen[p] = ProducerView(queue) /\ msg[p] \in Contents /\ seen[p] \in View
    BY <2>2, UpdateFacts
  <2>4. v \in View /\ v.count = queue.count /\ seen[p].pos \in Slots
    BY <1>0, <2>1, <2>3 DEF Mixed, ProducerView, View, Queue
  <2>5. FifoContent' = Append(FifoContent, queue.buffer[queue.tail].body)
    BY <1>0, <2>1, <2>3, <2>4, ContentStoreEnqueue DEF FifoContent
  <2>6. queue.buffer[queue.tail].body \in Messages
    BY <2>2 DEF HalfWritten
  <2>7. Len(FifoContent) < QUEUE_SIZE
    BY <1>0, <2>3, ContentType, QueueSizeAssumption DEF FifoContent
  <2>8. Fifo!Next
    BY <2>5, <2>6, <2>7 DEF Fifo!Next, Fifo!Put
  <2>9. HalfWritten'
    <3>1. \A q \in Procs : InRing(q) <=> q = p
      BY <2>2 DEF SyncInv, AccessHeld, InRing
    <3>2. \A q \in Procs : pc'[q] # "update"
      BY <1>0, <1>2, <3>1 DEF EndEnqueue, InRing, TypeInv, TypeOK
    <3>3. QED
      BY <3>2 DEF HalfWritten
  <2>10. QED
    BY <2>8, <2>9
<1>3. CASE EndDequeue(p)
  <2>1. PICK v \in Mixed(seen[p], ConsumerView(queue)) : queue' = StoreDequeue(queue, v)
    BY <1>3 DEF EndDequeue
  <2>2. pc[p] = "update" /\ role[p] = Consumer
    BY <1>3 DEF EndDequeue
  <2>3. /\ queue.count \in 1 .. QUEUE_SIZE
        /\ seen[p] = ConsumerView(queue) /\ seen[p] \in View
    BY <2>2, UpdateFacts
  <2>4. v \in View /\ v.count = queue.count /\ v.pos = queue.head
    BY <1>0, <2>1, <2>3 DEF Mixed, ConsumerView, View, Queue
  <2>5. FifoContent' = Tail(FifoContent)
    BY <1>0, <2>1, <2>3, <2>4, ContentStoreDequeue DEF FifoContent
  <2>6. FifoContent # <<>>
    BY <1>0, <2>3, ContentType, QueueSizeAssumption DEF FifoContent
  <2>7. Fifo!Next
    BY <2>5, <2>6 DEF Fifo!Next, Fifo!Get
  <2>8. HalfWritten'
    <3>1. \A q \in Procs : InRing(q) <=> q = p
      BY <2>2 DEF SyncInv, AccessHeld, InRing
    <3>2. \A q \in Procs : pc'[q] # "update"
      BY <1>0, <1>3, <3>1 DEF EndDequeue, InRing, TypeInv, TypeOK
    <3>3. QED
      BY <3>2 DEF HalfWritten
  <2>9. QED
    BY <2>7, <2>8
<1>4. CASE ~BeginEnqueue(p) /\ ~EndEnqueue(p) /\ ~EndDequeue(p)
  <2>1. /\ UNCHANGED <<queue, role>>
        /\ \A q \in Procs : pc'[q] = "update" => pc[q] = "update" \/ role[q] = Consumer
    BY <1>0, <1>4 DEF TypeInv, TypeOK, Child, InstallHandler, TestFlag, WaitOwn, WakeOwn, WaitAccess,
       WakeAccess, CallWait, WakeUp, BeginDequeue, SignalAccess, SignalOther, CalculateHash, CompareHash
  <2>2. QED
    BY <2>1 DEF HalfWritten, FifoContent, Producer, Consumer
<1>5. QED
  BY <1>1, <1>2, <1>3, <1>4

\* The parent does not touch the ring.
LEMMA FifoParent ==
  ASSUME "k" \notin Commands, FifoInv,
         \/ CreateProcess("+", Consumer) \/ CreateProcess("*", Producer)
         \/ \E i \in 1 .. MAX_PROCESSES_COUNT : KillProcess(i)
         \/ ReapVictim \/ Quit \/ Exit \/ Fail
         \/ \E p \in Procs : Terminate(p) \/ ReapAny(p)
  PROVE  HalfWritten' /\ UNCHANGED FifoContent
<1>1. UNCHANGED queue
  BY DEF CreateProcess, KillProcess, ReapVictim, Quit, Exit, Fail, Terminate, ReapAny, childVars
<1>2. \A q \in Procs : pc'[q] = "update" => pc[q] = "update" /\ role'[q] = role[q]
  BY DEF CreateProcess, KillProcess, ReapVictim, Quit, Exit, Fail, Terminate, ReapAny, childVars,
         parentVars, MayRead, FifoInv, SyncInv, NoSignal, TypeInv, TypeOK
<1>3. QED
  BY <1>1, <1>2 DEF FifoInv, HalfWritten, FifoContent

\* Whatever the children do, the shared ring behaves like a FIFO of at most
\* QUEUE_SIZE messages: each message that enters leaves once and in order.
THEOREM RingIsFifo ==
  ASSUME "k" \notin Commands
  PROVE  Spec => FifoOrder
<1>1. Init => FifoInv /\ Fifo!Init
  <2>1. Init => SyncInv /\ HalfWritten
    BY SyncInit DEF Init, HalfWritten
  <2>2. ASSUME Init PROVE FifoContent = <<>>
    <3>1. queue.count = 0
      BY <2>2 DEF Init, EmptyQueue
    <3>2. QED
      BY <3>1 DEF FifoContent, Content
  <2>3. QED
    BY <2>1, <2>2 DEF FifoInv, Fifo!Init
<1>2. FifoInv /\ [Next]_vars => HalfWritten' /\ [Fifo!Next]_FifoContent
  <2>1. ASSUME FifoInv, UNCHANGED vars PROVE HalfWritten' /\ UNCHANGED FifoContent
    BY <2>1 DEF vars, FifoInv, HalfWritten, FifoContent
  <2>2. QED
    BY <2>1, FifoChild, FifoParent DEF Next
<1>3. Spec => []SyncInv
  BY SyncInvariant
<1>4. QED
  BY <1>1, <1>2, <1>3, PTL DEF Spec, FifoInv, FifoOrder, Fifo!Spec
-----------------------------------------------------------------------------
(***************************************************************************)
(* The parent's book-keeping, kills included.  The entries of processes[]  *)
(* name different children, and exactly those that have not been reaped;   *)
(* both have to be known together, for a process id may be handed out      *)
(* again only when no entry names it any more.                             *)
(***************************************************************************)
Keeping == main \in {"command", "waitpid", "failed"}

Listed ==
  Keeping =>
    /\ \A p \in Procs : status[p] # "none" <=> \E i \in DOMAIN processes : processes[i].pid = p
    /\ \A i, j \in DOMAIN processes : processes[i].pid = processes[j].pid => i = j
    /\ \A i \in DOMAIN processes : processes[i].type = role[processes[i].pid]

\* SIGTERM goes to the entries; a child without one would be waited for for ever.
Reached ==
  main = "shutdown" =>
    \A p \in Procs : status[p] # "none" => \E i \in DOMAIN processes : processes[i].pid = p

TableInv == TypeInv /\ Listed /\ Reached

\* What is left at each place when an entry is removed.
LEMMA RemoveEntryAt ==
  ASSUME NEW t \in Seq(ProcessEntry), NEW i \in DOMAIN t
  PROVE  \A j \in 1 .. Len(t) - 1 : RemoveAt(t, i)[j] = IF j < i THEN t[j] ELSE t[j + 1]
<1> DEFINE before == SubSeq(t, 1, i - 1)
           after == SubSeq(t, i + 1, Len(t))
<1>1. /\ before \in Seq(ProcessEntry) /\ Len(before) = i - 1
      /\ \A j \in 1 .. i - 1 : before[j] = t[j]
  OBVIOUS
<1>2. /\ after \in Seq(ProcessEntry) /\ Len(after) = Len(t) - i
      /\ \A j \in 1 .. Len(t) - i : after[j] = t[i + j]
  OBVIOUS
<1>3. RemoveAt(t, i) = before \o after
  BY DEF RemoveAt
<1>4. Len(t) \in Nat /\ i \in 1 .. Len(t)
  OBVIOUS
<1> HIDE DEF before, after
<1> SUFFICES ASSUME NEW j \in 1 .. Len(t) - 1
             PROVE  (before \o after)[j] = IF j < i THEN t[j] ELSE t[j + 1]
  BY <1>3
<1>5. (before \o after)[j] = IF j <= i - 1 THEN before[j] ELSE after[j - (i - 1)]
  <2>1. Len(before) + Len(after) = Len(t) - 1 /\ j \in 1 .. Len(before) + Len(after)
    BY <1>1, <1>2, <1>4
  <2>2. (before \o after)[j] = IF j <= Len(before) THEN before[j] ELSE after[j - Len(before)]
    BY <1>1, <1>2, <2>1, ConcatProperties
  <2>3. QED
    BY <1>1, <2>2
<1>6. CASE j < i
  BY <1>1, <1>4, <1>5, <1>6
<1>7. CASE ~(j < i)
  <2>1. j - (i - 1) \in 1 .. Len(t) - i /\ i + (j - (i - 1)) = j + 1
    BY <1>4, <1>7
  <2>2. after[j - (i - 1)] = t[i + (j - (i - 1))]
    BY <1>2, <2>1
  <2>3. QED
    BY <1>4, <1>5, <1>7, <2>1, <2>2
<1>8. QED
  BY <1>6, <1>7

\* A statement of a child reaps nobody and writes no entry.
LEMMA TableChild ==
  ASSUME TableInv, NEW p \in Procs, Child(p)
  PROVE  TableInv'
<1>1. TypeInv'
  BY ChildType DEF TableInv
<1>2. /\ status[p] = "running" /\ UNCHANGED <<main, processes, ipc, role>>
      /\ UNCHANGED status \/ status' = [status EXCEPT ![p] = "zombie"]
  BY DEF Child, InstallHandler, TestFlag, WaitOwn, WakeOwn, WaitAccess, WakeAccess, CallWait, WakeUp,
         BeginEnqueue, EndEnqueue, BeginDequeue, EndDequeue, SignalAccess, SignalOther,
         CalculateHash, CompareHash, parentVars, At
<1>3. \A q \in Procs : status'[q] # "none" <=> status[q] # "none"
  BY <1>2 DEF TableInv, TypeInv, TypeOK
<1>4. Listed'
  BY <1>2, <1>3 DEF TableInv, Listed, Keeping
<1>5. Reached'
  BY <1>2, <1>3 DEF TableInv, Reached
<1>6. QED
  BY <1>1, <1>4, <1>5 DEF TableInv

\* A new child gets an entry, and its process id had none.
LEMMA TableCreate ==
  ASSUME TableInv, NEW command, NEW r \in Roles, CreateProcess(command, r)
  PROVE  Listed'
<1> USE DEF TableInv, TypeInv, TypeOK
<1>1. PICK p \in Procs :
        /\ status[p] = "none"
        /\ processes' = Append(processes, [pid |-> p, type |-> r])
        /\ status' = [status EXCEPT ![p] = "running"]
        /\ role' = [role EXCEPT ![p] = r]
  BY DEF CreateProcess
<1>2. processes \in Seq(ProcessEntry) /\ Len(processes) \in Nat
  BY DEF ProcessEntry
<1>3. Keeping
  BY DEF CreateProcess, MayRead, Keeping
<1>4. \A i \in DOMAIN processes : processes[i].pid # p /\ processes[i].pid \in Procs
  BY <1>1, <1>2, <1>3, EntryType DEF Listed
<1>5. /\ DOMAIN processes' = 1 .. Len(processes) + 1
      /\ processes'[Len(processes) + 1] = [pid |-> p, type |-> r]
      /\ \A i \in 1 .. Len(processes) : processes'[i] = processes[i]
      /\ DOMAIN processes = 1 .. Len(processes)
  BY <1>1, <1>2
<1>6. \A i \in DOMAIN processes' : i \in DOMAIN processes \/ i = Len(processes) + 1
  BY <1>2, <1>5
<1>7. ASSUME NEW q \in Procs
      PROVE  status'[q] # "none" <=> \E i \in DOMAIN processes' : processes'[i].pid = q
  <2>1. CASE q = p
    <3>1. Len(processes) + 1 \in DOMAIN processes' /\ processes'[Len(processes) + 1].pid = q
      BY <1>2, <1>5, <2>1
    <3>2. status'[q] # "none"
      BY <1>1, <2>1
    <3>3. QED
      BY <3>1, <3>2
  <2>2. CASE q # p
    <3>1. status'[q] = status[q]
      BY <1>1, <2>2
    <3>2. (\E i \in DOMAIN processes' : processes'[i].pid = q)
            <=> \E i \in DOMAIN processes : processes[i].pid = q
      <4>1. processes'[Len(processes) + 1].pid # q
        BY <1>5, <2>2
      <4>2. \A i \in DOMAIN processes : i \in DOMAIN processes' /\ processes'[i] = processes[i]
        BY <1>2, <1>5
      <4>3. QED
        BY <1>6, <4>1, <4>2
    <3>3. QED
      BY <1>3, <3>1, <3>2 DEF Listed
  <2>3. QED
    BY <2>1, <2>2
<1>8. ASSUME NEW i \in DOMAIN processes', NEW j \in DOMAIN processes',
             processes'[i].pid = processes'[j].pid
      PROVE  i = j
  BY <1>3, <1>4, <1>5, <1>6, <1>8 DEF Listed
<1>9. ASSUME NEW i \in DOMAIN processes'
      PROVE  processes'[i].type = role'[processes'[i].pid]
  <2>1. CASE i = Len(processes) + 1
    BY <1>1, <1>5, <2>1
  <2>2. CASE i \in DOMAIN processes
    BY <1>1, <1>3, <1>4, <1>5, <2>2 DEF Listed
  <2>3. QED
    BY <1>6, <2>1, <2>2
<1>10. QED
  BY <1>7, <1>8, <1>9 DEF Listed

\* The entry of a reaped child goes, the others move down together with their kinds.
LEMMA TableReap ==
  ASSUME TableInv, ReapVictim
  PROVE  Listed'
<1> USE DEF TableInv, TypeInv, TypeOK
<1>1. processes \in Seq(ProcessEntry) /\ Len(processes) \in Nat /\ Keeping
  BY DEF ProcessEntry, ReapVictim, Keeping
<1>2. victim \in DOMAIN processes /\ victim \in 1 .. Len(processes)
  BY <1>1 DEF ReapVictim, VictimListed
<1> DEFINE place(j) == IF j < victim THEN j ELSE j + 1
<1>3. /\ processes' \in Seq(ProcessEntry)
      /\ Len(processes') = Len(processes) - 1
      /\ \A j \in 1 .. Len(processes) - 1 : processes'[j] = processes[place(j)]
  BY <1>1, <1>2, RemoveEntry, RemoveEntryAt DEF ReapVictim
<1>4. \A j \in DOMAIN processes' : /\ j \in 1 .. Len(processes) - 1
                                   /\ place(j) \in DOMAIN processes /\ place(j) # victim
                                   /\ processes'[j] = processes[place(j)]
  BY <1>1, <1>2, <1>3
<1>5. \A i \in DOMAIN processes : i # victim => \E j \in DOMAIN processes' : place(j) = i
  <2> SUFFICES ASSUME NEW i \in DOMAIN processes, i # victim
               PROVE  \E j \in DOMAIN processes' : place(j) = i
    OBVIOUS
  <2>1. CASE i < victim
    <3>1. i \in DOMAIN processes' /\ place(i) = i
      BY <1>1, <1>2, <1>3, <2>1
    <3>2. QED
      BY <3>1
  <2>2. CASE ~(i < victim)
    <3>1. i - 1 \in DOMAIN processes' /\ place(i - 1) = i
      BY <1>1, <1>2, <1>3, <2>2
    <3>2. QED
      BY <3>1
  <2>3. QED
    BY <2>1, <2>2
<1>6. \A i, j \in DOMAIN processes' : place(i) = place(j) => i = j
  BY <1>3
<1> HIDE DEF place
<1>7. processes[victim].pid \in Procs
  BY <1>1, <1>2, EntryType
<1>8. /\ UNCHANGED role
      /\ status' = [status EXCEPT ![processes[victim].pid] = "none"]
  BY DEF ReapVictim, childVars
<1>9. ASSUME NEW q \in Procs
      PROVE  status'[q] # "none" <=> \E i \in DOMAIN processes' : processes'[i].pid = q
  <2>1. CASE q = processes[victim].pid
    <3>1. status'[q] = "none"
      BY <1>8, <2>1
    <3>2. \A i \in DOMAIN processes' : processes'[i].pid # q
      BY <1>1, <1>2, <1>4, <2>1 DEF Listed
    <3>3. QED
      BY <3>1, <3>2
  <2>2. CASE q # processes[victim].pid
    <3>1. status'[q] = status[q]
      BY <1>8, <2>2
    <3>2. ASSUME NEW i \in DOMAIN processes, processes[i].pid = q
          PROVE  \E j \in DOMAIN processes' : processes'[j].pid = q
      BY <1>4, <1>5, <2>2, <3>2
    <3>3. ASSUME NEW j \in DOMAIN processes', processes'[j].pid = q
          PROVE  \E i \in DOMAIN processes : processes[i].pid = q
      BY <1>4, <3>3
    <3>4. QED
      BY <1>1, <3>1, <3>2, <3>3 DEF Listed
  <2>3. QED
    BY <2>1, <2>2
<1>10. \A i, j \in DOMAIN processes' : processes'[i].pid = processes'[j].pid => i = j
  BY <1>1, <1>4, <1>6 DEF Listed
<1>11. \A i \in DOMAIN processes' : processes'[i].type = role'[processes'[i].pid]
  BY <1>1, <1>4, <1>8 DEF Listed
<1>12. QED
  BY <1>9, <1>10, <1>11 DEF Listed

\* Every step of the parent keeps table and children together.
LEMMA TableParent ==
  ASSUME TableInv,
         \/ CreateProcess("+", Consumer) \/ CreateProcess("*", Producer)
         \/ \E i \in 1 .. MAX_PROCESSES_COUNT : KillProcess(i)
         \/ ReapVictim \/ Quit \/ Exit \/ Fail
         \/ \E p \in Procs : Terminate(p) \/ ReapAny(p)
  PROVE  TableInv'
<1> USE DEF TableInv
<1>0. TypeInv'
  BY ParentType
<1>1. Consumer \in Roles /\ Producer \in Roles
  BY DEF Roles
<1>2. ASSUME NEW command, NEW r \in Roles, CreateProcess(command, r)
      PROVE  TableInv'
  <2>1. Listed'
    BY <1>2, TableCreate
  <2>2. Reached'
    BY <1>2 DEF Reached, CreateProcess, MayRead
  <2>3. QED
    BY <1>0, <2>1, <2>2
<1>3. ASSUME NEW i \in 1 .. MAX_PROCESSES_COUNT, KillProcess(i)
      PROVE  TableInv'
  <2>1. i \in DOMAIN processes /\ processes \in Seq(ProcessEntry)
    BY <1>3 DEF KillProcess, TypeInv, TypeOK, ProcessEntry
  <2>2. processes[i].pid \in Procs
    BY <2>1, EntryType
  <2>3. /\ Keeping /\ status[processes[i].pid] # "none"
        /\ main = "command" /\ UNCHANGED <<processes, ipc, role>>
    BY <1>3, <2>1, <2>2 DEF KillProcess, MayRead, Keeping, Listed, childVars
  <2>4. \A q \in Procs : status'[q] # "none" <=> status[q] # "none"
    BY <1>3, <2>2, <2>3 DEF KillProcess, Interrupt, TypeInv, TypeOK
  <2>5. Listed'
    BY <2>3, <2>4 DEF Listed
  <2>6. Reached'
    BY <1>3 DEF Reached, KillProcess
  <2>7. QED
    BY <1>0, <2>5, <2>6
<1>4. CASE ReapVictim
  <2>1. Reached'
    BY <1>4 DEF Reached, ReapVictim
  <2>2. QED
    BY <1>0, <1>4, <2>1, TableReap
<1>5. CASE Quit
  BY <1>0, <1>5 DEF Quit, Listed, Keeping, Reached, MayRead
<1>6. CASE Exit
  BY <1>0, <1>6 DEF Exit, Listed, Keeping, Reached, RemoveIpc
<1>7. CASE Fail
  BY <1>0, <1>7 DEF Fail, Listed, Keeping, Reached, MayRead, childVars
<1>8. ASSUME NEW p \in Procs, Terminate(p) \/ ReapAny(p)
      PROVE  TableInv'
  <2>1. /\ main = "shutdown" /\ UNCHANGED <<main, processes, role>>
        /\ \A q \in Procs : status'[q] # "none" => status[q] # "none"
    BY <1>8 DEF Terminate, ReapAny, parentVars, childVars, TypeInv, TypeOK
  <2>2. Listed' /\ Reached'
    BY <2>1 DEF Listed, Keeping, Reached
  <2>3. QED
    BY <1>0, <2>2
<1>9. QED
  BY <1>1, <1>2, <1>3, <1>4, <1>5, <1>6, <1>7, <1>8

\* The invariant holds for good.
LEMMA TableInvariant == Spec => []TableInv
<1>1. Init => TableInv
  BY InitType DEF Init, TableInv, Listed, Reached, Keeping
<1>2. TableInv /\ [Next]_vars => TableInv'
  <2>1. ASSUME TableInv, UNCHANGED vars PROVE TableInv'
    BY <2>1, StutterType DEF TableInv, vars, Listed, Reached, Keeping
  <2>2. QED
    BY <2>1, TableChild, TableParent DEF Next
<1>3. QED
  BY <1>1, <1>2, PTL DEF Spec

\* A table with an entry for each child not yet reaped has as many.
LEMMA TableImplies == TableInv => TableMatchesChildren
<1> SUFFICES ASSUME TableInv, Keeping
             PROVE  /\ Pids = {p \in Procs : status[p] # "none"}
                    /\ Cardinality(Pids) = Len(processes)
                    /\ \A i \in DOMAIN processes : processes[i].type = role[processes[i].pid]
  BY DEF TableMatchesChildren, Keeping
<1> USE DEF TableInv
<1>1. processes \in Seq(ProcessEntry) /\ Len(processes) \in Nat
  BY DEF TypeInv, TypeOK, ProcessEntry
<1>2. \A i \in DOMAIN processes : processes[i].pid \in Procs
  BY <1>1, EntryType
<1>3. Pids = {p \in Procs : status[p] # "none"}
  BY <1>2 DEF Pids, Listed
<1>4. Cardinality(Pids) = Len(processes)
  <2> DEFINE pidOf == [i \in 1 .. Len(processes) |-> processes[i].pid]
  <2>1. DOMAIN processes = 1 .. Len(processes)
    BY <1>1
  <2>2. pidOf \in Bijection(1 .. Len(processes), Pids)
    BY <2>1 DEF Bijection, Injection, Surjection, IsInjective, Pids, Listed
  <2>3. IsFiniteSet(1 .. Len(processes)) /\ Cardinality(1 .. Len(processes)) = Len(processes)
    BY <1>1, FS_Interval
  <2>4. ExistsBijection(1 .. Len(processes), Pids)
    BY <2>2 DEF ExistsBijection
  <2>5. QED
    BY <2>3, <2>4, FS_Bijection
<1>5. QED
  BY <1>3, <1>4 DEF Listed

\* processes[] names every child not yet reaped exactly once, with its kind, after
\* any sequence of creations and kills, for any number of children.
THEOREM TableKept == Spec => []TableMatchesChildren
BY TableInvariant, TableImplies, PTL

\* Whatever was created and killed before, each child that the shutdown waits for has an
\* entry, and is sent SIGTERM.
THEOREM ShutdownReachesAll ==
  Spec => [](main = "shutdown" => {p \in Procs : status[p] # "none"} \subseteq Pids)
<1>1. TableInv => (main = "shutdown" => {p \in Procs : status[p] # "none"} \subseteq Pids)
  BY DEF TableInv, Reached, Pids
<1>2. QED
  BY <1>1, TableInvariant, PTL

-----------------------------------------------------------------------------
(***************************************************************************)
(* What SIGUSR1 may do to the semaphores.  A child that leaves semop()     *)
(* with EINTR goes on without a token, so tokens may be minted; a signal   *)
(* past SEMVMX is dropped, but then the semaphore covers the ring alone.   *)
(* A child that has ended outside the shutdown held nothing, which is why  *)
(* its process id may be given to a new child.                             *)
(***************************************************************************)
Engaged == {p \in Procs : pc[p] \in Holding \cup Owing}
AtRest == Keeping => \A p \in Procs : status[p] # "running" => pc[p] \in {"start", "top"}
Covered == sem[FREE_SPACE] + sem[EL_COUNT] + Cardinality(Engaged) >= QUEUE_SIZE

TokenInv == TypeInv /\ AtRest /\ Covered

\* Every child is of one of the two kinds.
LEMMA EngagedAll ==
  ASSUME TypeInv
  PROVE  UNION {Unspent(r) \cup Unsignalled(r) : r \in Roles} = Engaged
BY DEF Unspent, Unsignalled, Engaged, Holding, Owing, TypeInv, TypeOK

LEMMA EngagedType == IsFiniteSet(Engaged) /\ Cardinality(Engaged) \in Nat
<1>1. Engaged \subseteq Procs
  BY DEF Engaged
<1>2. QED
  BY <1>1, ProcsAssumption, FS_Subset, FS_CardinalityType

\* p moves to label l and the two semaphores change by no more than that is worth.
LEMMA CoveredMove ==
  ASSUME TokenInv, TypeInv', NEW p \in Procs, NEW l \in Labels, pc' = [pc EXCEPT ![p] = l],
         \/ sem'[FREE_SPACE] + sem'[EL_COUNT] + One(l \in Holding \cup Owing)
              >= sem[FREE_SPACE] + sem[EL_COUNT] + One(pc[p] \in Holding \cup Owing)
         \/ sem'[FREE_SPACE] + sem'[EL_COUNT] >= QUEUE_SIZE
  PROVE  Covered'
<1>1. /\ sem[FREE_SPACE] \in Nat /\ sem[EL_COUNT] \in Nat
      /\ sem'[FREE_SPACE] \in Nat /\ sem'[EL_COUNT] \in Nat
  BY DEF Semaphores, TokenInv, TypeInv, TypeOK
<1>2. /\ p \in Engaged <=> pc[p] \in Holding \cup Owing
      /\ p \in Engaged' <=> l \in Holding \cup Owing
      /\ Engaged' = Engaged \cup {p} \/ Engaged' = Engaged \ {p}
  BY DEF Engaged, TokenInv, TypeInv, TypeOK
<1>3. Cardinality(Engaged') = Cardinality(Engaged) - One(p \in Engaged) + One(p \in Engaged')
  BY <1>2, EngagedType, CountMember
<1>4. Cardinality(Engaged') \in Nat
  <2>1. IsFiniteSet(Engaged')
    BY <1>2, EngagedType, FS_AddElement, FS_RemoveElement
  <2>2. QED
    BY <2>1, FS_CardinalityType
<1>5. QED
  BY <1>1, <1>2, <1>3, <1>4, EngagedType, QueueSizeAssumption DEF TokenInv, Covered, One

\* A child that has not ended may stand anywhere.
LEMMA AtRestMove ==
  ASSUME TokenInv, TypeInv', NEW p \in Procs, status[p] = "running",
         UNCHANGED <<main, status>>, \A q \in Procs \ {p} : pc'[q] = pc[q]
  PROVE  AtRest'
BY DEF TokenInv, AtRest, Keeping, TypeInv, TypeOK

\* Every statement of a child leaves the ring covered.
LEMMA TokenChild ==
  ASSUME TokenInv, NEW p \in Procs, Child(p)
  PROVE  TokenInv'
<1> USE DEF At, Goto
<1>1. TypeInv /\ TypeInv'
  BY ChildType DEF TokenInv
<1>0. /\ sem[FREE_SPACE] \in Nat /\ sem[EL_COUNT] \in Nat
      /\ sem'[FREE_SPACE] \in Nat /\ sem'[EL_COUNT] \in Nat
  BY <1>1 DEF TypeInv, TypeOK, Semaphores
<1>2. status[p] = "running" /\ UNCHANGED main /\ role[p] \in Roles
  BY <1>1 DEF Child, InstallHandler, TestFlag, WaitOwn, WakeOwn, WaitAccess, WakeAccess, CallWait, WakeUp,
         BeginEnqueue, EndEnqueue, BeginDequeue, EndDequeue, SignalAccess, SignalOther,
         CalculateHash, CompareHash, parentVars, TypeInv, TypeOK
<1>3. CASE TestFlag(p)
  <2>1. CASE terminate_flag[p]
    <3>1. pc' = pc /\ sem' = sem /\ \A q \in Procs : q # p => status'[q] = status[q]
      BY <1>1, <1>3, <2>1 DEF TestFlag, TypeInv, TypeOK
    <3>2. pc[p] = "top"
      BY <1>3 DEF TestFlag
    <3>3. AtRest'
      BY <1>2, <3>1, <3>2 DEF TokenInv, AtRest, Keeping
    <3>4. Covered'
      BY <3>1 DEF TokenInv, Covered, Engaged
    <3>5. QED
      BY <1>1, <3>3, <3>4 DEF TokenInv
  <2>2. CASE ~terminate_flag[p]
    <3>1. pc' = [pc EXCEPT ![p] = "wait_own"] /\ pc[p] = "top" /\ UNCHANGED <<sem, status>>
      BY <1>3, <2>2 DEF TestFlag
    <3>2. AtRest'
      BY <1>1, <1>2, <3>1, AtRestMove DEF TypeInv, TypeOK
    <3>3. "wait_own" \in Labels
          /\ sem'[FREE_SPACE] + sem'[EL_COUNT] + One("wait_own" \in Holding \cup Owing)
                 >= sem[FREE_SPACE] + sem[EL_COUNT] + One(pc[p] \in Holding \cup Owing)
      BY <1>0, <3>1 DEF Labels, Holding, Owing, One
    <3>4. Covered'
      BY <1>1, <3>1, <3>3, CoveredMove
    <3>5. QED
      BY <1>1, <3>2, <3>4 DEF TokenInv
  <2>3. QED
    BY <2>1, <2>2
<1>4. ASSUME NEW l \in Labels, pc' = [pc EXCEPT ![p] = l], UNCHANGED status,
             pc[p] \in Holding \cup Owing <=> l \in Holding \cup Owing,
             sem'[FREE_SPACE] = sem[FREE_SPACE] /\ sem'[EL_COUNT] = sem[EL_COUNT]
      PROVE  TokenInv'
  <2>1. AtRest'
    BY <1>1, <1>2, <1>4, AtRestMove DEF TypeInv, TypeOK
  <2>2. sem'[FREE_SPACE] + sem'[EL_COUNT] + One(l \in Holding \cup Owing)
          >= sem[FREE_SPACE] + sem[EL_COUNT] + One(pc[p] \in Holding \cup Owing)
    BY <1>4, <1>0 DEF One
  <2>3. Covered'
    BY <1>1, <1>4, <2>2, CoveredMove
  <2>4. QED
    BY <1>1, <2>1, <2>3 DEF TokenInv
<1>5. ASSUME sem[Own(p)] > 0, sem' = [sem EXCEPT ![Own(p)] = @ - 1], UNCHANGED status,
             pc[p] \in {"wait_own", "sleep_own"}, pc' = [pc EXCEPT ![p] = "wait_access"]
      PROVE  TokenInv'
  <2>1. AtRest'
    BY <1>1, <1>2, <1>5, AtRestMove DEF TypeInv, TypeOK
  <2>2. sem'[FREE_SPACE] + sem'[EL_COUNT] + 1 = sem[FREE_SPACE] + sem[EL_COUNT]
    BY <1>1, <1>2, <1>5 DEF Own, TypeInv, TypeOK, Semaphores, EL_COUNT, FREE_SPACE, QUEUE_ACCESS
  <2>3. "wait_access" \in Labels
        /\ sem'[FREE_SPACE] + sem'[EL_COUNT] + One("wait_access" \in Holding \cup Owing)
               >= sem[FREE_SPACE] + sem[EL_COUNT] + One(pc[p] \in Holding \cup Owing)
    BY <1>0, <1>5, <2>2 DEF Labels, Holding, Owing, One
  <2>4. Covered'
    BY <1>1, <1>5, <2>3, CoveredMove
  <2>5. QED
    BY <1>1, <2>1, <2>4 DEF TokenInv
<1>6. ASSUME sem' = [sem EXCEPT ![QUEUE_ACCESS] = sem'[QUEUE_ACCESS]]
      PROVE  sem'[FREE_SPACE] = sem[FREE_SPACE] /\ sem'[EL_COUNT] = sem[EL_COUNT]
  BY <1>1, <1>6 DEF TypeInv, TypeOK, Semaphores, EL_COUNT, FREE_SPACE, QUEUE_ACCESS
<1>7. CASE WaitOwn(p)
  <2>1. CASE sem[Own(p)] > 0
    BY <1>5, <1>7, <2>1 DEF WaitOwn, CallWait
  <2>2. CASE ~(sem[Own(p)] > 0)
    BY <1>4, <1>7, <2>2 DEF WaitOwn, CallWait, Labels, Holding, Owing
  <2>3. QED
    BY <2>1, <2>2
<1>8. CASE WakeOwn(p)
  BY <1>5, <1>8 DEF WakeOwn, WakeUp
<1>9. CASE WaitAccess(p) \/ WakeAccess(p) \/ SignalAccess(p)
  <2>1. sem'[FREE_SPACE] = sem[FREE_SPACE] /\ sem'[EL_COUNT] = sem[EL_COUNT]
    BY <1>1, <1>9 DEF WaitAccess, WakeAccess, CallWait, WakeUp, SignalAccess, Signal,
                      TypeInv, TypeOK, Semaphores, EL_COUNT, FREE_SPACE, QUEUE_ACCESS
  <2>2. PICK l \in {"inside", "sleep_access", "signal_other"} : pc' = [pc EXCEPT ![p] = l]
    BY <1>9 DEF WaitAccess, WakeAccess, CallWait, WakeUp, SignalAccess
  <2>3. pc[p] \in {"wait_access", "sleep_access", "signal_access"} /\ UNCHANGED status
    BY <1>9 DEF WaitAccess, WakeAccess, CallWait, WakeUp, SignalAccess
  <2>4. QED
    BY <1>4, <2>1, <2>2, <2>3 DEF Labels, Holding, Owing
<1>10. CASE BeginEnqueue(p) \/ BeginDequeue(p)
  <2>1. PICK l \in {"signal_access", "update"} : pc' = [pc EXCEPT ![p] = l]
    BY <1>10 DEF BeginEnqueue, BeginDequeue
  <2>2. pc[p] = "inside" /\ UNCHANGED <<sem, status>>
    BY <1>10 DEF BeginEnqueue, BeginDequeue
  <2>3. QED
    BY <1>4, <2>1, <2>2 DEF Labels, Holding, Owing
<1>11. CASE EndEnqueue(p) \/ EndDequeue(p)
  <2>1. pc[p] = "update" /\ pc' = [pc EXCEPT ![p] = "signal_access"] /\ UNCHANGED <<sem, status>>
    BY <1>11 DEF EndEnqueue, EndDequeue
  <2>2. QED
    BY <1>4, <2>1 DEF Labels, Holding, Owing
<1>12. CASE SignalOther(p)
  <2>1. PICK l \in {"top", "hash"} : pc' = [pc EXCEPT ![p] = l]
    BY <1>12 DEF SignalOther
  <2>2. pc[p] = "signal_other" /\ UNCHANGED status /\ Signal(Other(p))
    BY <1>12 DEF SignalOther
  <2>3. AtRest'
    BY <1>1, <1>2, <2>1, <2>2, AtRestMove DEF TypeInv, TypeOK
  <2>4. Other(p) = FREE_SPACE \/ Other(p) = EL_COUNT
    BY DEF Other
  <2>5. CASE sem[Other(p)] < SEMVMX
    <3>1. sem'[FREE_SPACE] + sem'[EL_COUNT] = sem[FREE_SPACE] + sem[EL_COUNT] + 1
      BY <1>1, <2>2, <2>4, <2>5 DEF Signal, TypeInv, TypeOK, Semaphores, EL_COUNT, FREE_SPACE, QUEUE_ACCESS
    <3>2. l \in Labels
          /\ sem'[FREE_SPACE] + sem'[EL_COUNT] + One(l \in Holding \cup Owing)
                 >= sem[FREE_SPACE] + sem[EL_COUNT] + One(pc[p] \in Holding \cup Owing)
      BY <1>0, <2>1, <2>2, <3>1 DEF Labels, Holding, Owing, One
    <3>3. Covered'
      BY <1>1, <2>1, <3>2, CoveredMove
    <3>4. QED
      BY <1>1, <2>3, <3>3 DEF TokenInv
  <2>6. CASE ~(sem[Other(p)] < SEMVMX)
    <3>1. sem'[FREE_SPACE] + sem'[EL_COUNT] >= QUEUE_SIZE
      BY <1>1, <2>2, <2>4, <2>6, SemAssumption, QueueSizeAssumption
      DEF Signal, TypeInv, TypeOK, Semaphores
    <3>2. Covered'
      BY <1>1, <2>1, <3>1, CoveredMove DEF Labels
    <3>3. QED
      BY <1>1, <2>3, <3>2 DEF TokenInv
  <2>7. QED
    BY <2>5, <2>6
<1>13. CASE InstallHandler(p) \/ CalculateHash(p) \/ CompareHash(p)
  <2>1. PICK l \in {"top", "compare"} : pc' = [pc EXCEPT ![p] = l]
    BY <1>13 DEF InstallHandler, CalculateHash, CompareHash
  <2>2. pc[p] \in {"start", "hash", "compare"} /\ UNCHANGED <<sem, status>>
    BY <1>13 DEF InstallHandler, CalculateHash, CompareHash
  <2>3. QED
    BY <1>4, <2>1, <2>2 DEF Labels, Holding, Owing
<1>14. QED
  BY <1>3, <1>7, <1>8, <1>9, <1>10, <1>11, <1>12, <1>13 DEF Child

\* A step of the parent that leaves the semaphores and the place of every child alone,
\* or sends a child at rest to its start, leaves the ring covered.
LEMMA TokenFrame ==
  ASSUME TokenInv, TypeInv', UNCHANGED sem,
         \A p \in Procs : \/ pc'[p] = pc[p]
                          \/ pc[p] \in {"start", "top"} /\ pc'[p] = "start"
  PROVE  Covered'
<1>1. Engaged' = Engaged
  BY DEF Engaged, Holding, Owing
<1>2. QED
  BY <1>1 DEF TokenInv, Covered

\* Every step of the parent leaves the ring covered, SIGUSR1 included.
LEMMA TokenParent ==
  ASSUME TokenInv,
         \/ CreateProcess("+", Consumer) \/ CreateProcess("*", Producer)
         \/ \E i \in 1 .. MAX_PROCESSES_COUNT : KillProcess(i)
         \/ ReapVictim \/ Quit \/ Exit \/ Fail
         \/ \E p \in Procs : Terminate(p) \/ ReapAny(p)
  PROVE  TokenInv'
<1>1. TypeInv /\ TypeInv' /\ AtRest
  BY ParentType DEF TokenInv
<1>2. ASSUME NEW command, NEW r \in Roles, CreateProcess(command, r)
      PROVE  TokenInv'
  <2>1. PICK p \in Procs :
          /\ status[p] = "none"
          /\ status' = [status EXCEPT ![p] = "running"]
          /\ pc' = [pc EXCEPT ![p] = "start"]
    BY <1>2 DEF CreateProcess
  <2>2. Keeping /\ UNCHANGED <<main, sem>>
    BY <1>2 DEF CreateProcess, MayRead, Keeping
  <2>3. \A q \in Procs : \/ pc'[q] = pc[q]
                         \/ pc[q] \in {"start", "top"} /\ pc'[q] = "start"
    BY <1>1, <2>1, <2>2 DEF AtRest, TypeInv, TypeOK
  <2>4. Covered'
    BY <1>1, <2>2, <2>3, TokenFrame
  <2>5. AtRest'
    BY <1>1, <2>1, <2>2 DEF AtRest, Keeping, TypeInv, TypeOK
  <2>6. QED
    BY <1>1, <2>4, <2>5 DEF TokenInv
<1>3. ASSUME NEW i \in 1 .. MAX_PROCESSES_COUNT, KillProcess(i)
      PROVE  TokenInv'
  <2> DEFINE p == processes[i].pid
             l == IF pc[p] = "start" THEN "start" ELSE AfterInterrupt(pc[p])
  <2>1. p \in Procs /\ Keeping /\ UNCHANGED sem
    BY <1>1, <1>3, EntryType DEF KillProcess, MayRead, Keeping, TypeInv, TypeOK, ProcessEntry, childVars
  <2>2. Interrupt(p)
    BY <1>3 DEF KillProcess
  <2> HIDE DEF p
  <2>3. pc' = [pc EXCEPT ![p] = l]
    BY <1>1, <2>1, <2>2 DEF Interrupt, Goto, TypeInv, TypeOK
  <2>4. l \in Labels /\ (pc[p] \in Holding \cup Owing => l \in Holding \cup Owing)
    BY <1>1, <2>1 DEF AfterInterrupt, Holding, Owing, Labels, TypeInv, TypeOK
  <2>5. status[p] # "running" => l = pc[p]
    BY <1>1, <2>1 DEF AtRest, AfterInterrupt
  <2> HIDE DEF l
  <2>6. Covered'
    <3>1. sem[FREE_SPACE] \in Nat /\ sem[EL_COUNT] \in Nat
      BY <1>1 DEF TypeInv, TypeOK, Semaphores
    <3>2. sem'[FREE_SPACE] + sem'[EL_COUNT] + One(l \in Holding \cup Owing)
            >= sem[FREE_SPACE] + sem[EL_COUNT] + One(pc[p] \in Holding \cup Owing)
      BY <2>1, <2>4, <3>1 DEF One
    <3>3. QED
      BY <1>1, <2>1, <2>3, <2>4, <3>2, CoveredMove
  <2>7. AtRest'
    <3>1. CASE pc[p] = "start"
      <4>1. UNCHANGED pc /\ status' = [status EXCEPT ![p] = "zombie"]
        BY <2>2, <3>1 DEF Interrupt
      <4>2. QED
        BY <1>1, <2>1, <3>1, <4>1 DEF AtRest, TypeInv, TypeOK
    <3>2. CASE pc[p] # "start"
      <4>1. UNCHANGED status
        BY <2>2, <3>2 DEF Interrupt
      <4>2. QED
        BY <1>1, <2>1, <2>3, <2>5, <4>1 DEF AtRest, TypeInv, TypeOK
    <3>3. QED
      BY <3>1, <3>2
  <2>8. QED
    BY <1>1, <2>6, <2>7 DEF TokenInv
<1>4. CASE ReapVictim
  <2>1. Keeping /\ UNCHANGED <<sem, pc>>
    BY <1>4 DEF ReapVictim, Keeping, childVars
  <2>2. /\ status[processes[victim].pid] = "zombie"
        /\ status' = [status EXCEPT ![processes[victim].pid] = "none"]
    BY <1>4 DEF ReapVictim
  <2>3. AtRest'
    BY <1>1, <2>1, <2>2 DEF AtRest, TypeInv, TypeOK
  <2>4. QED
    BY <1>1, <2>1, <2>3, TokenFrame DEF TokenInv
<1>5. CASE Quit \/ Exit \/ Fail
  <2>1. UNCHANGED <<sem, pc, status>> /\ (Keeping' => Keeping)
    BY <1>5 DEF Quit, Exit, Fail, childVars, Keeping, MayRead
  <2>2. QED
    BY <1>1, <2>1, TokenFrame DEF TokenInv, AtRest
<1>6. ASSUME NEW p \in Procs, Terminate(p) \/ ReapAny(p)
      PROVE  TokenInv'
  <2>1. UNCHANGED <<sem, pc>> /\ ~Keeping'
    BY <1>6 DEF Terminate, ReapAny, childVars, parentVars, Keeping
  <2>2. QED
    BY <1>1, <2>1, TokenFrame DEF TokenInv, AtRest
<1>7. Consumer \in Roles /\ Producer \in Roles
  BY DEF Roles
<1>8. QED
  BY <1>2, <1>3, <1>4, <1>5, <1>6, <1>7

\* The ring is covered when the parent enters its command loop.
LEMMA TokenInit == Init => TokenInv
<1> SUFFICES ASSUME Init PROVE AtRest /\ Covered
  BY InitType DEF TokenInv
<1>1. AtRest
  BY DEF Init, AtRest
<1>2. sem[FREE_SPACE] = QUEUE_SIZE /\ sem[EL_COUNT] = 0
  BY DEF Init, Semaphores, EL_COUNT, FREE_SPACE, QUEUE_ACCESS
<1>3. Covered
  BY <1>2, EngagedType, QueueSizeAssumption DEF Covered
<1>4. QED
  BY <1>1, <1>3

\* Children killed with SIGUSR1 may mint tokens but lose none: together with the
\* children that hold or owe one, the counting semaphores cover the ring for good.
THEOREM TokensKept == Spec => []TokensNeverLost
<1>1. TokenInv => TokensNeverLost
  BY EngagedAll DEF TokenInv, Covered, TokensNeverLost
<1>2. TokenInv /\ [Next]_vars => TokenInv'
  <2>1. ASSUME TokenInv, UNCHANGED vars PROVE TokenInv'
    BY <2>1, StutterType DEF TokenInv, vars, AtRest, Keeping, Covered, Engaged
  <2>2. QED
    BY <2>1, TokenChild, TokenParent DEF Next
<1>3. QED
  BY <1>1, <1>2, TokenInit, PTL DEF Spec

-----------------------------------------------------------------------------
(***************************************************************************)
(* Messages are whole, as long as nobody is killed with SIGUSR1.  enqueue()*)
(* writes the hash of the message whose body it wrote before, to the slot  *)
(* that is still the one at tail; no other child is inside to point at it. *)
(***************************************************************************)
Writing(p) == pc[p] = "update" /\ role[p] = Producer
WritesOwn ==
  \A p \in Procs : Writing(p) => msg[p] \in Messages /\ queue.buffer[queue.tail].body = msg[p]
OnlyConsumersPoint == \A p \in Procs : role[p] = Producer => ptr[p] = NULL

WholeInv == WritesOwn /\ OnlyConsumersPoint /\ MessagesWhole

\* A step that leaves ring, messages and pointers alone, and brings nobody to the
\* labels that speak of them, keeps the messages whole.
LEMMA WholeFrame ==
  ASSUME WholeInv, UNCHANGED queue,
         \A p \in Procs : \/ role'[p] = role[p] /\ ptr'[p] = ptr[p]
                          \/ ptr'[p] = NULL,
         \A p \in Procs : Writing(p)' => Writing(p) /\ msg'[p] = msg[p],
         \A p \in Procs : pc'[p] = "signal_access" /\ ptr'[p] # NULL =>
                            pc[p] = "signal_access" /\ ptr'[p] = ptr[p]
  PROVE  WholeInv'
<1>1. WritesOwn'
  BY DEF WholeInv, WritesOwn
<1>2. OnlyConsumersPoint'
  BY DEF WholeInv, OnlyConsumersPoint
<1>3. MessagesWhole'
  BY DEF WholeInv, MessagesWhole
<1>4. QED
  BY <1>1, <1>2, <1>3 DEF WholeInv

\* The child inside the ring is alone there.
LEMMA AloneInside ==
  ASSUME SyncInv, NEW p \in Procs, InRing(p)
  PROVE  \A q \in Procs : InRing(q) <=> q = p
BY DEF SyncInv, AccessHeld

\* The first half of a message goes to a slot nobody looks at.
LEMMA WholeBeginEnqueue ==
  ASSUME SyncInv, WholeInv, NEW p \in Procs, BeginEnqueue(p)
  PROVE  WholeInv'
<1> USE DEF At, Goto, WholeInv
<1>1. TypeInv /\ pc[p] = "inside" /\ role[p] = Producer
  BY DEF SyncInv, BeginEnqueue
<1>2. queue.free_space > 0
  BY <1>1, TokensCover DEF Holding
<1>3. PICK m \in Messages : /\ queue' = CopyBody(queue, m)
                            /\ msg' = [msg EXCEPT ![p] = m]
                            /\ pc' = [pc EXCEPT ![p] = "update"]
  BY <1>2 DEF BeginEnqueue, Full
<1>4. UNCHANGED <<role, ptr>>
  BY DEF BeginEnqueue
<1>5. /\ queue \in Queue /\ queue.count \in 0 .. QUEUE_SIZE - 1 /\ queue.head \in Slots
      /\ queue.tail = Ahead(queue.head, queue.count)
  BY <1>1, <1>2, QueueSizeAssumption DEF SyncInv, RingConsistent, TypeInv, TypeOK, Queue
<1>6. /\ queue'.head = queue.head /\ queue'.tail = queue.tail /\ queue'.count = queue.count
      /\ queue'.buffer[queue.tail].body = m
      /\ \A s \in Slots \ {queue.tail} : queue'.buffer[s] = queue.buffer[s]
  BY <1>3, <1>5 DEF CopyBody, Queue, Slot
<1>7. \A q \in Procs : InRing(q) <=> q = p
  BY <1>1, AloneInside DEF InRing
<1>8. \A q \in Procs \ {p} : pc'[q] = pc[q] /\ ~InRing(q)
  BY <1>1, <1>3, <1>7 DEF TypeInv, TypeOK
<1>9. pc'[p] = "update" /\ msg'[p] = m
  BY <1>1, <1>3 DEF TypeInv, TypeOK
<1>10. WritesOwn'
  BY <1>6, <1>8, <1>9 DEF WritesOwn, Writing, InRing
<1>11. OnlyConsumersPoint'
  BY <1>4 DEF OnlyConsumersPoint
<1>12. MessagesWhole'
  <2>1. ASSUME NEW i \in 1 .. queue.count
        PROVE  Whole(queue'.buffer[Ahead(queue.head, i - 1)])
    <3>1. Ahead(queue.head, i - 1) \in Slots \ {queue.tail}
      BY <1>5, AheadSlots, QueueSizeAssumption
    <3>2. QED
      BY <1>6, <3>1 DEF MessagesWhole
  <2>2. \A q \in Procs : pc'[q] # "signal_access"
    BY <1>8, <1>9 DEF InRing
  <2>3. QED
    BY <1>6, <2>1, <2>2 DEF MessagesWhole
<1>13. QED
  BY <1>10, <1>11, <1>12

\* The second half makes the message at tail a whole one, and the ring longer by it.
LEMMA WholeEndEnqueue ==
  ASSUME SyncInv, WholeInv, NEW p \in Procs, EndEnqueue(p)
  PROVE  WholeInv'
<1> USE DEF At, Goto, WholeInv
<1>1. TypeInv /\ pc[p] = "update" /\ role[p] = Producer
  BY DEF SyncInv, EndEnqueue
<1>2. PICK v \in Mixed(seen[p], ProducerView(queue)) :
        queue' = StoreEnqueue(queue, seen[p].pos, msg[p], v)
  BY DEF EndEnqueue
<1>3. /\ queue \in Queue /\ queue.tail = Ahead(queue.head, queue.count)
      /\ queue.count \in 0 .. QUEUE_SIZE - 1 /\ seen[p] = ProducerView(queue)
      /\ queue.head \in Slots /\ queue.tail \in Slots
  BY <1>1, UpdateFacts DEF Queue
<1>4. seen[p].pos = queue.tail /\ v.count = queue.count
  BY <1>2, <1>3 DEF Mixed, ProducerView
<1>5. queue'.count = queue.count + 1
  BY <1>2, <1>3, <1>4, IntAssumption, QueueSizeAssumption DEF StoreEnqueue, Inc, Queue
<1>6. /\ queue'.head = queue.head
      /\ queue'.buffer[queue.tail] = [queue.buffer[queue.tail] EXCEPT !.hash = msg[p]]
      /\ \A s \in Slots \ {queue.tail} : queue'.buffer[s] = queue.buffer[s]
  BY <1>2, <1>3, <1>4 DEF StoreEnqueue, Queue
<1>7. Whole(queue'.buffer[queue.tail])
  <2>1. queue.buffer[queue.tail].body = msg[p] /\ msg[p] \in Messages
    BY <1>1 DEF WritesOwn, Writing
  <2>2. queue.buffer[queue.tail] \in Slot
    BY <1>3 DEF Queue
  <2>3. QED
    BY <1>6, <2>1, <2>2, MessagesAssumption DEF Whole, Slot
<1>8. \A q \in Procs : InRing(q) <=> q = p
  BY <1>1, AloneInside DEF InRing
<1>9. /\ \A q \in Procs \ {p} : pc'[q] = pc[q] /\ ~InRing(q)
      /\ pc'[p] = "signal_access" /\ UNCHANGED <<role, ptr>>
  BY <1>1, <1>8 DEF EndEnqueue, TypeInv, TypeOK
<1>10. ptr[p] = NULL
  BY <1>1 DEF OnlyConsumersPoint
<1>11. WritesOwn'
  BY <1>9 DEF WritesOwn, Writing, InRing
<1>12. OnlyConsumersPoint'
  BY <1>9 DEF OnlyConsumersPoint
<1>13. MessagesWhole'
  <2>1. ASSUME NEW i \in 1 .. queue.count + 1
        PROVE  Whole(queue'.buffer[Ahead(queue.head, i - 1)])
    <3>1. CASE i = queue.count + 1
      BY <1>3, <1>7, <3>1, QueueSizeAssumption
    <3>2. CASE i # queue.count + 1
      <4>1. i \in 1 .. queue.count
        BY <1>3, <3>2, QueueSizeAssumption
      <4>2. Ahead(queue.head, i - 1) \in Slots \ {queue.tail}
        BY <1>3, <4>1, AheadSlots, QueueSizeAssumption
      <4>3. QED
        BY <1>6, <4>1, <4>2 DEF MessagesWhole
    <3>3. QED
      BY <3>1, <3>2
  <2>2. \A q \in Procs : pc'[q] = "signal_access" => ptr'[q] = NULL
    BY <1>9, <1>10 DEF InRing
  <2>3. QED
    BY <1>5, <1>6, <2>1, <2>2 DEF MessagesWhole
<1>14. QED
  BY <1>11, <1>12, <1>13

\* The consumer inside gets a pointer to the oldest message, which was whole in the ring.
LEMMA WholeEndDequeue ==
  ASSUME SyncInv, WholeInv, NEW p \in Procs, EndDequeue(p)
  PROVE  WholeInv'
<1> USE DEF At, Goto, WholeInv
<1>1. TypeInv /\ pc[p] = "update" /\ role[p] = Consumer
  BY DEF SyncInv, EndDequeue
<1>2. PICK v \in Mixed(seen[p], ConsumerView(queue)) : queue' = StoreDequeue(queue, v)
  BY DEF EndDequeue
<1>3. /\ queue \in Queue /\ queue.count \in 1 .. QUEUE_SIZE /\ queue.head \in Slots
      /\ seen[p] = ConsumerView(queue)
  BY <1>1, UpdateFacts DEF Queue
<1>4. seen[p].pos = queue.head /\ v.pos = queue.head /\ v.count = queue.count
  BY <1>2, <1>3 DEF Mixed, ConsumerView
<1>5. /\ queue'.head = NextSlot(queue.head) /\ queue'.buffer = queue.buffer
      /\ queue'.count = queue.count - 1
  BY <1>2, <1>3, <1>4, IntAssumption, QueueSizeAssumption DEF StoreDequeue, Dec, Queue
<1>6. \A q \in Procs : InRing(q) <=> q = p
  BY <1>1, AloneInside DEF InRing
<1>7. /\ \A q \in Procs \ {p} : pc'[q] = pc[q] /\ ~InRing(q) /\ ptr'[q] = ptr[q]
      /\ pc'[p] = "signal_access" /\ ptr'[p] = queue.head /\ UNCHANGED role
  BY <1>1, <1>4, <1>6 DEF EndDequeue, TypeInv, TypeOK
<1>8. WritesOwn'
  BY <1>7 DEF WritesOwn, Writing, InRing
<1>9. OnlyConsumersPoint'
  BY <1>1, <1>7 DEF OnlyConsumersPoint, Producer, Consumer
<1>10. MessagesWhole'
  <2>1. ASSUME NEW i \in 1 .. queue.count - 1
        PROVE  Whole(queue.buffer[Ahead(NextSlot(queue.head), i - 1)])
    <3>1. Ahead(NextSlot(queue.head), i - 1) = Ahead(queue.head, (i + 1) - 1)
      BY <1>3, AheadNext, QueueSizeAssumption
    <3>2. i + 1 \in 1 .. queue.count
      BY <1>3, QueueSizeAssumption
    <3>3. QED
      BY <3>1, <3>2 DEF MessagesWhole
  <2>2. Whole(queue.buffer[queue.head])
    <3>1. Ahead(queue.head, 1 - 1) = queue.head /\ 1 \in 1 .. queue.count
      BY <1>3, QueueSizeAssumption DEF Ahead, Slots
    <3>2. QED
      BY <3>1 DEF MessagesWhole
  <2>3. \A q \in Procs : pc'[q] = "signal_access" => q = p
    BY <1>7 DEF InRing
  <2>4. QED
    BY <1>5, <1>7, <2>1, <2>2, <2>3 DEF MessagesWhole
<1>11. QED
  BY <1>8, <1>9, <1>10

\* Every statement of a child keeps the messages whole.
LEMMA WholeChild ==
  ASSUME SyncInv, WholeInv, NEW p \in Procs, Child(p)
  PROVE  WholeInv'
<1> USE DEF At, Goto
<1>1. TypeInv
  BY DEF SyncInv
<1>2. CASE BeginEnqueue(p)
  BY <1>2, WholeBeginEnqueue
<1>3. CASE EndEnqueue(p)
  BY <1>3, WholeEndEnqueue
<1>4. CASE EndDequeue(p)
  BY <1>4, WholeEndDequeue
<1>5. CASE BeginDequeue(p)
  <2>1. pc[p] = "inside" /\ role[p] = Consumer /\ queue.count > 0
    BY <1>5, TokensCover DEF BeginDequeue, Holding
  <2>2. pc' = [pc EXCEPT ![p] = "update"] /\ UNCHANGED <<queue, role, msg, ptr>>
    BY <1>5, <2>1 DEF BeginDequeue, Empty
  <2>3. \A q \in Procs : /\ Writing(q)' => Writing(q)
                         /\ pc'[q] = "signal_access" => pc[q] = "signal_access"
    BY <1>1, <2>1, <2>2 DEF Writing, Producer, Consumer, TypeInv, TypeOK
  <2>4. QED
    BY <2>2, <2>3, WholeFrame
<1>6. CASE ~BeginEnqueue(p) /\ ~EndEnqueue(p) /\ ~EndDequeue(p) /\ ~BeginDequeue(p)
  <2>1. UNCHANGED <<queue, role>>
    BY <1>6 DEF Child, InstallHandler, TestFlag, WaitOwn, WakeOwn, WaitAccess, WakeAccess, CallWait,
                WakeUp, SignalAccess, SignalOther, CalculateHash, CompareHash
  <2>2. \A q \in Procs : pc'[q] \in {"update", "signal_access"} => pc'[q] = pc[q] /\ q # p
    BY <1>1, <1>6 DEF Child, InstallHandler, TestFlag, WaitOwn, WakeOwn, WaitAccess, WakeAccess,
                CallWait, WakeUp, SignalAccess, SignalOther, CalculateHash, CompareHash, TypeInv, TypeOK
  <2>3. \A q \in Procs : ptr'[q] = ptr[q] \/ ptr'[q] = NULL
    BY <1>1, <1>6 DEF Child, InstallHandler, TestFlag, WaitOwn, WakeOwn, WaitAccess, WakeAccess,
                CallWait, WakeUp, SignalAccess, SignalOther, CalculateHash, CompareHash, TypeInv, TypeOK
  <2>4. \A q \in Procs \ {p} : msg'[q] = msg[q]
    BY <1>1, <1>6 DEF Child, InstallHandler, TestFlag, WaitOwn, WakeOwn, WaitAccess, WakeAccess,
                CallWait, WakeUp, SignalAccess, SignalOther, CalculateHash, CompareHash, TypeInv, TypeOK
  <2>5. QED
    BY <2>1, <2>2, <2>3, <2>4, WholeFrame DEF Writing
<1>7. QED
  BY <1>2, <1>3, <1>4, <1>5, <1>6

\* The parent touches neither the ring nor a child inside it.
LEMMA WholeParent ==
  ASSUME "k" \notin Commands, SyncInv, WholeInv,
         \/ CreateProcess("+", Consumer) \/ CreateProcess("*", Producer)
         \/ \E i \in 1 .. MAX_PROCESSES_COUNT : KillProcess(i)
         \/ ReapVictim \/ Quit \/ Exit \/ Fail
         \/ \E p \in Procs : Terminate(p) \/ ReapAny(p)
  PROVE  WholeInv'
<1>1. TypeInv
  BY DEF SyncInv
<1>2. ASSUME NEW command, NEW r \in Roles, CreateProcess(command, r)
      PROVE  WholeInv'
  <2>1. PICK p \in Procs : /\ role' = [role EXCEPT ![p] = r]
                           /\ pc' = [pc EXCEPT ![p] = "start"]
                           /\ msg' = [msg EXCEPT ![p] = Blank]
                           /\ ptr' = [ptr EXCEPT ![p] = NULL]
    BY <1>2 DEF CreateProcess
  <2>2. UNCHANGED queue
    BY <1>2 DEF CreateProcess
  <2>3. /\ pc'[p] = "start" /\ ptr'[p] = NULL
        /\ \A q \in Procs \ {p} : /\ role'[q] = role[q] /\ pc'[q] = pc[q]
                                  /\ msg'[q] = msg[q] /\ ptr'[q] = ptr[q]
    BY <1>1, <2>1 DEF TypeInv, TypeOK
  <2>4. QED
    BY <2>2, <2>3, WholeFrame DEF Writing
<1>3. ASSUME NEW i \in 1 .. MAX_PROCESSES_COUNT, KillProcess(i)
      PROVE  WholeInv'
  BY <1>3 DEF KillProcess, MayRead
<1>4. CASE ReapVictim \/ Quit \/ Exit \/ Fail \/ \E p \in Procs : Terminate(p) \/ ReapAny(p)
  <2>1. UNCHANGED <<queue, role, msg, ptr, pc>>
    BY <1>4 DEF ReapVictim, Quit, Exit, Fail, Terminate, ReapAny, childVars, SyncInv, NoSignal
  <2>2. QED
    BY <2>1, WholeFrame DEF Writing
<1>5. Consumer \in Roles /\ Producer \in Roles
  BY DEF Roles
<1>6. QED
  BY <1>2, <1>3, <1>4, <1>5

\* What a consumer is about to take, and what dequeue() has just handed it, carries its
\* own hash, for any number of children and any ring, when SIGUSR1 is not used.
THEOREM MessagesKept ==
  ASSUME "k" \notin Commands
  PROVE  Spec => []MessagesWhole
<1>1. Init => WholeInv
  BY DEF Init, WholeInv, WritesOwn, Writing, OnlyConsumersPoint, MessagesWhole, EmptyQueue
<1>2. SyncInv /\ WholeInv /\ [Next]_vars => WholeInv'
  <2>1. ASSUME WholeInv, UNCHANGED vars PROVE WholeInv'
    BY <2>1, WholeFrame DEF vars, Writing
  <2>2. QED
    BY <2>1, WholeChild, WholeParent DEF Next
<1>3. WholeInv => MessagesWhole
  BY DEF WholeInv
<1>4. Spec => []SyncInv
  BY SyncInvariant
<1>5. QED
  BY <1>1, <1>2, <1>3, <1>4, PTL DEF Spec
=============================================================================
