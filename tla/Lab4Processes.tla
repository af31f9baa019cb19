---------------------------- MODULE Lab4Processes ----------------------------
(***************************************************************************)
(* lab4/src/main.c: a parent that reads commands and forks producers and   *)
(* consumers; the children share the ring of Lab4Queue under three System  *)
(* V semaphores.                                                           *)
(*                                                                         *)
(* A child advances one statement at a time, so any two may interleave     *)
(* between two statements.  semop() is the delicate one: it takes a token, *)
(* or puts the caller to sleep; a sleeper is woken by a token or, with     *)
(* EINTR, by a signal, and wait_semaphore() does not look at the result.   *)
(***************************************************************************)
EXTENDS Lab4Queue, SequencesExt

CONSTANTS
  Procs,                 \* process ids the kernel hands out to the children
  MAX_PROCESSES_COUNT,   \* entries of processes[]
  SEMVMX,                \* largest value the kernel lets a semaphore have
  Commands               \* what the user may type; "eof" is the end of input

ASSUME ProcsAssumption == Procs # {} /\ IsFiniteSet(Procs)
ASSUME TableAssumption == MAX_PROCESSES_COUNT \in Nat \ {0}
ASSUME SemAssumption == SEMVMX \in Nat /\ QUEUE_SIZE <= SEMVMX
ASSUME CommandsAssumption == Commands \subseteq {"+", "*", "k", "q", "eof"}

EL_COUNT == "EL_COUNT_SEM"
FREE_SPACE == "FREE_SPACE_SEM"
QUEUE_ACCESS == "QUEUE_ACCESS_SEM"
Semaphores == {EL_COUNT, FREE_SPACE, QUEUE_ACCESS}

Producer == "producer"
Consumer == "consumer"
Roles == {Producer, Consumer}

VARIABLES
  main,            \* where the parent is
  victim,          \* index kill_process() was called with, 0 if none
  processes,       \* processes[] and processes_types[], up to processes_count
  ipc,             \* kernel objects that exist: "shm", "sem"
  sem,             \* values of the semaphores
  queue,           \* the shared segment
  status,          \* per child: "none", "running" or "zombie"
  role,            \* per child: which of the two bodies it runs
  pc,              \* per child: the statement it executes next
  terminate_flag,  \* per child: set by its SIGUSR1 handler
  msg,             \* per child: message being added, or body being checked
  seen,            \* per child: fields it has loaded inside the ring
  ptr              \* per consumer: slot dequeue() returned, or NULL

parentVars == <<main, victim, processes, ipc>>
vars == <<main, victim, processes, ipc, sem, queue, status, role, pc, terminate_flag, msg, seen, ptr>>

Labels == {"start", "top", "wait_own", "sleep_own", "wait_access", "sleep_access",
           "inside", "update", "signal_access", "signal_other", "hash", "compare"}

\* Seeded fault: a child gives back what it took.
FaultOther(p) == IF role[p] = Producer THEN FREE_SPACE ELSE EL_COUNT

\* The semaphore a child waits for first and the one it signals last.
Own(p) == IF role[p] = Producer THEN FREE_SPACE ELSE EL_COUNT
Other(p) == IF role[p] = Producer THEN EL_COUNT ELSE FREE_SPACE

NULL == -1

\* A view with nothing in it.
NoView == [pos |-> 0, count |-> 0, free_space |-> 0]

\* queue_init() and init_semaphores(), then the command loop.
Init ==
  /\ main = "command"
  /\ victim = 0
  /\ processes = <<>>
  /\ ipc = {"shm", "sem"}
  /\ sem = [s \in Semaphores |-> IF s = EL_COUNT THEN 0
                                 ELSE IF s = FREE_SPACE THEN QUEUE_SIZE ELSE 1]
  /\ queue = EmptyQueue
  /\ status = [p \in Procs |-> "none"]
  /\ role = [p \in Procs |-> Consumer]
  /\ pc = [p \in Procs |-> "start"]
  /\ terminate_flag = [p \in Procs |-> FALSE]
  /\ msg = [p \in Procs |-> Blank]
  /\ seen = [p \in Procs |-> NoView]
  /\ ptr = [p \in Procs |-> NULL]

-----------------------------------------------------------------------------
(***************************************************************************)
(* The children.                                                           *)
(***************************************************************************)
At(p, label) == status[p] = "running" /\ pc[p] = label
Goto(p, label) == pc' = [pc EXCEPT ![p] = label]

\* signal(SIGUSR1, termination_handler).
InstallHandler(p) ==
  /\ At(p, "start")
  /\ Goto(p, "top")
  /\ UNCHANGED <<parentVars, sem, queue, status, role, terminate_flag, msg, seen, ptr>>

\* while (!terminate_flag); the delay() before it holds nothing.
TestFlag(p) ==
  /\ At(p, "top")
  /\ IF terminate_flag[p]
       THEN status' = [status EXCEPT ![p] = "zombie"] /\ UNCHANGED pc
       ELSE Goto(p, "wait_own") /\ UNCHANGED status
  /\ UNCHANGED <<parentVars, sem, queue, role, terminate_flag, msg, seen, ptr>>

\* wait_semaphore(s) by p at `from': take a token and go to `to', or sleep.
CallWait(p, s, from, asleep, to) ==
  /\ At(p, from)
  /\ IF sem[s] > 0
       THEN sem' = [sem EXCEPT ![s] = @ - 1] /\ Goto(p, to)
       ELSE Goto(p, asleep) /\ UNCHANGED sem
  /\ UNCHANGED <<parentVars, queue, status, role, terminate_flag, msg, seen, ptr>>

\* The kernel gives a token to a process asleep in semop().
WakeUp(p, s, asleep, to) ==
  /\ At(p, asleep)
  /\ sem[s] > 0
  /\ sem' = [sem EXCEPT ![s] = @ - 1]
  /\ Goto(p, to)
  /\ UNCHANGED <<parentVars, queue, status, role, terminate_flag, msg, seen, ptr>>

\* Seeded fault: the ring is entered without its semaphore.
FaultWaitAccess(p) ==
  /\ At(p, "wait_access")
  /\ Goto(p, "inside")
  /\ UNCHANGED <<parentVars, sem, queue, status, role, terminate_flag, msg, seen, ptr>>

WaitOwn(p) == CallWait(p, Own(p), "wait_own", "sleep_own", "wait_access")
WaitAccess(p) == CallWait(p, QUEUE_ACCESS, "wait_access", "sleep_access", "inside")
WakeOwn(p) == WakeUp(p, Own(p), "sleep_own", "wait_access")
WakeAccess(p) == WakeUp(p, QUEUE_ACCESS, "sleep_access", "inside")

\* generate_message() and the first half of enqueue(), or its refusal.
BeginEnqueue(p) ==
  /\ At(p, "inside")
  /\ role[p] = Producer
  /\ IF Full(queue)
       THEN Goto(p, "signal_access") /\ UNCHANGED <<queue, msg, seen>>
       ELSE \E m \in Messages :
              /\ queue' = CopyBody(queue, m)
              /\ msg' = [msg EXCEPT ![p] = m]
              /\ seen' = [seen EXCEPT ![p] = ProducerView(queue)]
              /\ Goto(p, "update")
  /\ UNCHANGED <<parentVars, sem, status, role, terminate_flag, ptr>>

EndEnqueue(p) ==
  /\ At(p, "update")
  /\ role[p] = Producer
  /\ \E v \in Mixed(seen[p], ProducerView(queue)) :
       queue' = StoreEnqueue(queue, seen[p].pos, msg[p], v)
  /\ msg' = [msg EXCEPT ![p] = Blank]
  /\ seen' = [seen EXCEPT ![p] = NoView]
  /\ Goto(p, "signal_access")
  /\ UNCHANGED <<parentVars, sem, status, role, terminate_flag, ptr>>

\* dequeue(), which returns NULL from an empty ring.
BeginDequeue(p) ==
  /\ At(p, "inside")
  /\ role[p] = Consumer
  /\ IF Empty(queue)
       THEN Goto(p, "signal_access") /\ UNCHANGED seen
       ELSE seen' = [seen EXCEPT ![p] = ConsumerView(queue)] /\ Goto(p, "update")
  /\ UNCHANGED <<parentVars, sem, queue, status, role, terminate_flag, msg, ptr>>

EndDequeue(p) ==
  /\ At(p, "update")
  /\ role[p] = Consumer
  /\ \E v \in Mixed(seen[p], ConsumerView(queue)) : queue' = StoreDequeue(queue, v)
  /\ ptr' = [ptr EXCEPT ![p] = seen[p].pos]
  /\ seen' = [seen EXCEPT ![p] = NoView]
  /\ Goto(p, "signal_access")
  /\ UNCHANGED <<parentVars, sem, status, role, terminate_flag, msg>>

\* signal_semaphore(s); past SEMVMX semop() fails and nobody looks.
Signal(s) == sem' = IF sem[s] < SEMVMX THEN [sem EXCEPT ![s] = @ + 1] ELSE sem

SignalAccess(p) ==
  /\ At(p, "signal_access")
  /\ Signal(QUEUE_ACCESS)
  /\ Goto(p, "signal_other")
  /\ UNCHANGED <<parentVars, queue, status, role, terminate_flag, msg, seen, ptr>>

\* Seeded fault: the other side is not told.
FaultSignalOther(p) ==
  /\ At(p, "signal_other")
  /\ Goto(p, IF ptr[p] = NULL THEN "top" ELSE "hash")
  /\ UNCHANGED <<parentVars, sem, queue, status, role, terminate_flag, msg, seen, ptr>>

\* A consumer that got a message goes on to check it.
SignalOther(p) ==
  /\ At(p, "signal_other")
  /\ Signal(Other(p))
  /\ Goto(p, IF ptr[p] = NULL THEN "top" ELSE "hash")
  /\ UNCHANGED <<parentVars, queue, status, role, terminate_flag, msg, seen, ptr>>

\* calculate_hash(msg), on the slot itself and outside the semaphores.
CalculateHash(p) ==
  /\ At(p, "hash")
  /\ msg' = [msg EXCEPT ![p] = queue.buffer[ptr[p]].body]
  /\ Goto(p, "compare")
  /\ UNCHANGED <<parentVars, sem, queue, status, role, terminate_flag, seen, ptr>>

\* hash == msg->hash, which only decides what is printed.
CompareHash(p) ==
  /\ At(p, "compare")
  /\ msg' = [msg EXCEPT ![p] = Blank]
  /\ ptr' = [ptr EXCEPT ![p] = NULL]
  /\ Goto(p, "top")
  /\ UNCHANGED <<parentVars, sem, queue, status, role, terminate_flag, seen>>

Child(p) ==
  \/ InstallHandler(p) \/ TestFlag(p)
  \/ WaitOwn(p) \/ WakeOwn(p) \/ WaitAccess(p) \/ WakeAccess(p)
  \/ BeginEnqueue(p) \/ EndEnqueue(p) \/ BeginDequeue(p) \/ EndDequeue(p)
  \/ SignalAccess(p) \/ SignalOther(p) \/ CalculateHash(p) \/ CompareHash(p)

-----------------------------------------------------------------------------
(***************************************************************************)
(* The parent.                                                             *)
(***************************************************************************)
childVars == <<sem, queue, role, msg, seen, ptr>>

MayRead(command) == main = "command" /\ command \in Commands

Pids == {processes[i].pid : i \in DOMAIN processes}

\* create_process(): the child starts with a fresh copy of the locals.
CreateProcess(command, r) ==
  /\ MayRead(command)
  /\ Len(processes) < MAX_PROCESSES_COUNT
  /\ \E p \in Procs :
       /\ status[p] = "none"
       /\ processes' = Append(processes, [pid |-> p, type |-> r])
       /\ status' = [status EXCEPT ![p] = "running"]
       /\ role' = [role EXCEPT ![p] = r]
       /\ pc' = [pc EXCEPT ![p] = "start"]
       /\ terminate_flag' = [terminate_flag EXCEPT ![p] = FALSE]
       /\ msg' = [msg EXCEPT ![p] = Blank]
       /\ seen' = [seen EXCEPT ![p] = NoView]
       /\ ptr' = [ptr EXCEPT ![p] = NULL]
  /\ UNCHANGED <<main, victim, ipc, sem, queue>>

\* Where EINTR leaves a process that was asleep in semop().
AfterInterrupt(label) ==
  CASE label = "sleep_own" -> "wait_access"
    [] label = "sleep_access" -> "inside"
    [] OTHER -> label

\* Seeded fault: the handler forgets to set the flag.
FaultInterrupt(p) ==
  IF pc[p] = "start"
    THEN status' = [status EXCEPT ![p] = "zombie"] /\ UNCHANGED <<pc, terminate_flag>>
    ELSE Goto(p, AfterInterrupt(pc[p])) /\ UNCHANGED <<status, terminate_flag>>

\* SIGUSR1 reaches p: death by default before signal() has run, the handler after.
Interrupt(p) ==
  IF pc[p] = "start"
    THEN status' = [status EXCEPT ![p] = "zombie"] /\ UNCHANGED <<pc, terminate_flag>>
    ELSE /\ terminate_flag' = [terminate_flag EXCEPT ![p] = TRUE]
         /\ Goto(p, AfterInterrupt(pc[p]))
         /\ UNCHANGED status

\* kill_process(i - 1) up to waitpid(); an index out of range is refused.
KillProcess(i) ==
  /\ MayRead("k")
  /\ i \in DOMAIN processes
  /\ Interrupt(processes[i].pid)
  /\ victim' = i
  /\ main' = "waitpid"
  /\ UNCHANGED <<processes, ipc, childVars>>

\* Seeded fault: the count goes down, no entry moves.
FaultReapVictim ==
  /\ main = "waitpid"
  /\ status[processes[victim].pid] = "zombie"
  /\ status' = [status EXCEPT ![processes[victim].pid] = "none"]
  /\ processes' = Front(processes)
  /\ victim' = 0
  /\ main' = "command"
  /\ UNCHANGED <<ipc, childVars, pc, terminate_flag>>

\* waitpid() returns; the entries behind the victim move down.
ReapVictim ==
  /\ main = "waitpid"
  /\ status[processes[victim].pid] = "zombie"
  /\ status' = [status EXCEPT ![processes[victim].pid] = "none"]
  /\ processes' = RemoveAt(processes, victim)
  /\ victim' = 0
  /\ main' = "command"
  /\ UNCHANGED <<ipc, childVars, pc, terminate_flag>>

\* cleanup_and_exit(): SIGTERM to every process of the table ...
Quit ==
  /\ MayRead("q")
  /\ main' = "shutdown"
  /\ UNCHANGED <<victim, processes, ipc, childVars, status, pc, terminate_flag>>

\* ... which kills it wherever it is ...
Terminate(p) ==
  /\ main = "shutdown"
  /\ p \in Pids
  /\ status[p] = "running"
  /\ status' = [status EXCEPT ![p] = "zombie"]
  /\ UNCHANGED <<parentVars, childVars, pc, terminate_flag>>

\* ... while (wait(NULL) > 0) ...
ReapAny(p) ==
  /\ main = "shutdown"
  /\ status[p] = "zombie"
  /\ status' = [status EXCEPT ![p] = "none"]
  /\ UNCHANGED <<parentVars, childVars, pc, terminate_flag>>

\* ... and the semaphores are removed.  The segment is not: queue_destroy() is
\* called if (!queue), and the queue has been attached since queue_init().
RemoveIpc == ipc' = ipc \ {"sem"}

Exit ==
  /\ main = "shutdown"
  /\ \A p \in Procs : status[p] = "none"
  /\ main' = "done"
  /\ RemoveIpc
  /\ UNCHANGED <<victim, processes, childVars, status, pc, terminate_flag>>

\* exit(EXIT_FAILURE) at the end of the input or after a failed fork().
Fail ==
  /\ MayRead("eof")
  /\ main' = "failed"
  /\ UNCHANGED <<victim, processes, ipc, childVars, status, pc, terminate_flag>>

Next ==
  \/ CreateProcess("+", Consumer) \/ CreateProcess("*", Producer)
  \/ \E i \in 1 .. MAX_PROCESSES_COUNT : KillProcess(i)
  \/ ReapVictim \/ Quit \/ Exit \/ Fail
  \/ \E p \in Procs : Terminate(p) \/ ReapAny(p) \/ Child(p)

Spec == Init /\ [][Next]_vars

(***************************************************************************)
(* A running process is scheduled, signals arrive, wait() returns.  The    *)
(* kernel keeps the sleepers of a semaphore in a queue, so a token that    *)
(* keeps coming back reaches each of them.  The user owes nothing.         *)
(***************************************************************************)
Wake(p) == WakeOwn(p) \/ WakeAccess(p)

Fairness ==
  /\ \A p \in Procs :
       /\ WF_vars(Child(p)) /\ SF_vars(Wake(p))
       /\ WF_vars(Terminate(p)) /\ WF_vars(ReapAny(p))
  /\ WF_vars(ReapVictim) /\ WF_vars(Exit)

FairSpec == Spec /\ Fairness

-----------------------------------------------------------------------------
(***************************************************************************)
(* Properties.                                                             *)
(***************************************************************************)

\* The variables keep the types their C declarations and the kernel give them.
TypeOK ==
  /\ main \in {"command", "waitpid", "shutdown", "done", "failed"}
  /\ victim \in 0 .. MAX_PROCESSES_COUNT
  /\ processes \in Seq([pid : Procs, type : Roles])
  /\ Len(processes) <= MAX_PROCESSES_COUNT
  /\ ipc \subseteq {"shm", "sem"}
  /\ sem \in [Semaphores -> 0 .. SEMVMX]
  /\ queue \in Queue
  /\ status \in [Procs -> {"none", "running", "zombie"}]
  /\ role \in [Procs -> Roles]
  /\ pc \in [Procs -> Labels]
  /\ terminate_flag \in [Procs -> BOOLEAN]
  /\ msg \in [Procs -> Contents]
  /\ seen \in [Procs -> View]
  /\ ptr \in [Procs -> Slots \cup {NULL}]

\* Between wait_semaphore(QUEUE_ACCESS_SEM) and the matching signal.
InRing(p) == pc[p] \in {"inside", "update", "signal_access"}

\* At most one child works on the ring at a time, whatever the interleaving
\* of their semop() calls; a child killed inside by SIGTERM still counts.
MutualExclusion == \A p, q \in Procs : InRing(p) /\ InRing(q) => p = q

\* The fields print_queue_info() shows belong together: the messages and the
\* free slots fill the ring, and tail is count slots past head.
RingConsistent ==
  /\ queue.count \in 0 .. QUEUE_SIZE
  /\ queue.free_space = QUEUE_SIZE - queue.count
  /\ queue.tail = Ahead(queue.head, queue.count)

\* Children of a kind that hold a token of their own semaphore unspent, and
\* those that have changed the ring and not yet signalled the other side.
Unspent(r) == {p \in Procs : /\ role[p] = r
                             /\ pc[p] \in {"wait_access", "sleep_access", "inside", "update"}}
Unsignalled(r) == {p \in Procs : role[p] = r /\ pc[p] \in {"signal_access", "signal_other"}}

\* The two counting semaphores and the two counters of the ring tell the same
\* story at every moment, up to the children that are between the two.
SemaphoresCountQueue ==
  /\ queue.free_space = sem[FREE_SPACE] + Cardinality(Unspent(Producer))
                                        + Cardinality(Unsignalled(Consumer))
  /\ queue.count = sem[EL_COUNT] + Cardinality(Unspent(Consumer))
                                 + Cardinality(Unsignalled(Producer))

\* A child that got through its semaphores finds what it waited for, so that
\* "Queue is full!" and "Queue is empty!" are never printed and no message is
\* dropped while "Producer: Message added" is reported.
NeverRefused ==
  \A p \in Procs : At(p, "inside") =>
    IF role[p] = Producer THEN ~Full(queue) ELSE ~Empty(queue)

\* The ring implements a bounded FIFO of whole messages.
Content(q) == [i \in 1 .. q.count |-> q.buffer[Ahead(q.head, i - 1)].body]
FifoContent == Content(queue)
Fifo == INSTANCE BoundedFifo WITH Capacity <- QUEUE_SIZE, fifo <- FifoContent
FifoOrder == Fifo!Spec

\* A message that is in the ring carries its own hash, and so does the one a consumer
\* has a pointer to, until it signals QUEUE_ACCESS_SEM.  Not any longer: with the free
\* slot of another consumer a producer may be given this one's.
Whole(slot) == slot.hash = slot.body /\ slot.body # Blank
MessagesWhole ==
  /\ \A i \in 1 .. queue.count : Whole(queue.buffer[Ahead(queue.head, i - 1)])
  /\ \A p \in Procs :
       pc[p] = "signal_access" /\ ptr[p] # NULL => Whole(queue.buffer[ptr[p]])

\* processes[] lists every child not yet reaped exactly once, with its kind,
\* whatever was created and killed before.
TableMatchesChildren ==
  main \in {"command", "waitpid", "failed"} =>
    /\ Pids = {p \in Procs : status[p] # "none"}
    /\ Cardinality(Pids) = Len(processes)
    /\ \A i \in DOMAIN processes : processes[i].type = role[processes[i].pid]

\* Killing children with SIGUSR1 may mint tokens (EINTR is taken for success)
\* but never loses one: the places of the ring stay covered.
TokensNeverLost ==
  sem[FREE_SPACE] + sem[EL_COUNT]
    + Cardinality(UNION {Unspent(r) \cup Unsignalled(r) : r \in Roles}) >= QUEUE_SIZE

\* "k<n>: kill n process": kill_process() comes back to the command loop when a child
\* of the other kind is running, because that child keeps producing the tokens the
\* victim may be asleep for.
PartnerOfVictim(p) ==
  status[p] = "running" /\ victim # 0 /\ role[p] # processes[victim].type
KillReturnsWithPartner ==
  (main = "waitpid" /\ \E p \in Procs : PartnerOfVictim(p)) ~> main = "command"

\* A child asleep for a token goes on as long as a child of the other kind runs,
\* and a signal that was taken for a token does not change that.
Partner(p) == \E q \in Procs : status[q] = "running" /\ role[q] # role[p]
SleeperProceeds ==
  \A p \in Procs :
    (At(p, "sleep_own") /\ Partner(p)) ~> (~At(p, "sleep_own") \/ ~Partner(p))
=============================================================================
