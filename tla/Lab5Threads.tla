----------------------------- MODULE Lab5Threads -----------------------------
(***************************************************************************)
(* lab5/5.1/src/main.c: producers and consumers are threads of one         *)
(* process; the main thread creates and closes them, and changes the size  *)
(* of the ring, on the user's command.  Two POSIX semaphores count free    *)
(* slots and messages, a mutex protects the ring.                          *)
(*                                                                         *)
(* The code between pthread_mutex_lock(&queue_mutex) and the unlock is one *)
(* step up to the first printf(), where a thread that has been cancelled   *)
(* may end with the mutex in hand.  The working flags are only used under  *)
(* their own mutexes, in sections that never wait; each is one step.       *)
(***************************************************************************)
EXTENDS Lab5Queue, FiniteSets, Sequences

CONSTANTS
  MAX_PRODUCER_THREADS, MAX_CONSUMER_THREADS,
  MainThread, NoThread,
  Commands    \* what the user may type

ASSUME ThreadsAssumption == /\ MAX_PRODUCER_THREADS \in Nat
                            /\ MAX_CONSUMER_THREADS \in Nat
ASSUME CommandsAssumption == Commands \subseteq {"+", "*", "-", "_", "l", "r", "e", "q", "^C"}

Producer == "producer"
Consumer == "consumer"
Types == {Producer, Consumer}
Limit(type) == IF type = Producer THEN MAX_PRODUCER_THREADS ELSE MAX_CONSUMER_THREADS

\* producers[ind] and consumers[ind].
Threads == UNION {[type : {type}, ind : 0 .. Limit(type) - 1] : type \in Types}
Thread(type, ind) == [type |-> type, ind |-> ind]

ASSUME NoThreadAssumption == /\ NoThread \notin Threads
                             /\ MainThread \notin Threads \cup {NoThread}

VARIABLES
  main,           \* where the main thread is
  quitting,       \* is it inside cleanup_and_exit()?
  victim,         \* thread it joins in close_thread_by_ind()
  slot,           \* slot queue_print() has found a message in
  interrupted,    \* where the main thread was when SIGINT came
  forgotten,      \* thread it was joining then
  count,          \* producers_count and consumers_count
  working,        \* producers_working[] and consumers_working[]
  cancelled,      \* threads pthread_cancel() was called for
  pc,             \* per thread: the statement it executes next
  queue_mutex,    \* its owner
  free_space_sem, items_sem,
  queue

signalVars == <<interrupted, forgotten>>
mainVars == <<main, quitting, victim, slot, signalVars>>
tableVars == <<count, working, cancelled>>
sems == <<free_space_sem, items_sem>>
vars == <<mainVars, tableVars, pc, queue_mutex, sems, queue>>

Labels == {"none", "check", "wait", "lock", "print", "unlock", "post", "ended"}

MainLabels == {"command", "join", "print", "reduce", "reduce_lock", "expand", "expand_post",
               "done"}

\* message_queue_init() and sync_init(), then the command loop.
Init ==
  /\ main = "command"
  /\ quitting = FALSE
  /\ victim = NoThread
  /\ slot = 0
  /\ interrupted = "no"
  /\ forgotten = NoThread
  /\ count = [type \in Types |-> 0]
  /\ working = [t \in Threads |-> FALSE]
  /\ cancelled = {}
  /\ pc = [t \in Threads |-> "none"]
  /\ queue_mutex = NoThread
  /\ free_space_sem = QUEUE_BASE_SIZE
  /\ items_sem = 0
  /\ queue = EmptyQueue

-----------------------------------------------------------------------------
(***************************************************************************)
(* The threads.                                                            *)
(***************************************************************************)
Goto(t, label) == pc' = [pc EXCEPT ![t] = label]

\* The working flag, tested under its mutex.
CheckWorking(t) ==
  /\ pc[t] = "check"
  /\ Goto(t, IF working[t] THEN "wait" ELSE "ended")
  /\ UNCHANGED <<mainVars, tableVars, queue_mutex, sems, queue>>

\* Seeded fault: a consumer waits for a free slot too.
FaultTake(t) ==
  /\ free_space_sem > 0
  /\ free_space_sem' = free_space_sem - 1
  /\ UNCHANGED items_sem

\* sem_wait() on the semaphore of t, and sem_post() on the other one.
Take(t) ==
  IF t.type = Producer
    THEN free_space_sem > 0 /\ free_space_sem' = free_space_sem - 1 /\ UNCHANGED items_sem
    ELSE items_sem > 0 /\ items_sem' = items_sem - 1 /\ UNCHANGED free_space_sem
Give(t) ==
  IF t.type = Producer
    THEN items_sem' = items_sem + 1 /\ UNCHANGED free_space_sem
    ELSE free_space_sem' = free_space_sem + 1 /\ UNCHANGED items_sem

\* sleep() and sem_wait(); both end a cancelled thread.
SemWait(t) ==
  /\ pc[t] = "wait"
  /\ t \notin cancelled
  /\ Take(t)
  /\ Goto(t, "lock")
  /\ UNCHANGED <<mainVars, tableVars, queue_mutex, queue>>

\* pthread_mutex_lock(&queue_mutex), queue_generate_message() and queue_push().
LockPush(t) ==
  /\ pc[t] = "lock"
  /\ t.type = Producer
  /\ queue_mutex = NoThread
  /\ queue_mutex' = t
  /\ \E m \in Messages : queue' = Push(queue, m)
  /\ Goto(t, "print")
  /\ UNCHANGED <<mainVars, tableVars, sems>>

\* pthread_mutex_lock(&queue_mutex) and queue_pop(); nothing is printed about a
\* NULL that queue_pop() found in the ring.
LockPop(t) ==
  /\ pc[t] = "lock"
  /\ t.type = Consumer
  /\ queue_mutex = NoThread
  /\ queue_mutex' = t
  /\ queue' = Pop(queue)
  /\ \E data \in Popped(queue) :
       Goto(t, IF data = NULL /\ ~Empty(queue) THEN "unlock" ELSE "print")
  /\ UNCHANGED <<mainVars, tableVars, sems>>

\* The rest of the critical section and pthread_mutex_unlock(&queue_mutex).
Unlock(t) ==
  /\ pc[t] \in {"print", "unlock"}
  /\ queue_mutex' = NoThread
  /\ Goto(t, "post")
  /\ UNCHANGED <<mainVars, tableVars, sems, queue>>

\* Seeded fault: a producer gives its own token back.
FaultSemPost(t) ==
  /\ pc[t] = "post"
  /\ free_space_sem' = free_space_sem + 1
  /\ Goto(t, "check")
  /\ UNCHANGED <<mainVars, tableVars, queue_mutex, items_sem, queue>>

SemPost(t) ==
  /\ pc[t] = "post"
  /\ Give(t)
  /\ Goto(t, "check")
  /\ UNCHANGED <<mainVars, tableVars, queue_mutex, queue>>

\* A cancelled thread ends in sleep() or sem_wait(), or in the write() that
\* printf() or fflush() does for it; there it holds queue_mutex and keeps it.
ActOnCancel(t) ==
  /\ t \in cancelled
  /\ pc[t] \in {"wait", "print"}
  /\ Goto(t, "ended")
  /\ UNCHANGED <<mainVars, tableVars, queue_mutex, sems, queue>>

Step(t) ==
  \/ CheckWorking(t) \/ SemWait(t) \/ LockPush(t) \/ LockPop(t) \/ Unlock(t)
  \/ SemPost(t) \/ ActOnCancel(t)

-----------------------------------------------------------------------------
(***************************************************************************)
(* The main thread.                                                        *)
(***************************************************************************)
MayRead(command) == main = "command" /\ ~quitting /\ command \in Commands

\* Seeded fault: the index is taken from the counter without a look at the flags.
FaultFreeIndex(type) == IF count[type] = 0 THEN 0 ELSE count[type] - 1

\* The lowest index whose working flag is clear.
FreeIndex(type) ==
  CHOOSE i \in 0 .. Limit(type) - 1 :
    /\ ~working[Thread(type, i)]
    /\ \A j \in 0 .. i - 1 : working[Thread(type, j)]

\* create_thread(); a failed pthread_create() takes the flag back.
CreateThread(command, type) ==
  /\ MayRead(command)
  /\ count[type] < Limit(type)
  /\ LET t == Thread(type, FreeIndex(type))
     IN /\ working' = [working EXCEPT ![t] = TRUE]
        /\ Goto(t, "check")
  /\ count' = [count EXCEPT ![type] = @ + 1]
  /\ UNCHANGED <<mainVars, cancelled, queue_mutex, sems, queue>>

\* Seeded fault: nobody is ever cancelled.
FaultStuck(type) == FALSE

\* The test before pthread_cancel(): nobody is left to wake the thread up.  The
\* fields of the ring are read without queue_mutex.
Stuck(type) ==
  IF type = Producer THEN count[Consumer] = 0 /\ queue.len = queue.max_len
                     ELSE count[Producer] = 0 /\ queue.len = 0

\* close_thread_by_ind(count - 1, type) up to pthread_join(); a flag that is not
\* set is refused.
CloseThread(type) ==
  /\ count[type] > 0
  /\ LET t == Thread(type, count[type] - 1)
     IN /\ working[t]
        /\ cancelled' = IF Stuck(type) THEN cancelled \cup {t} ELSE cancelled
        /\ working' = [working EXCEPT ![t] = FALSE]
        /\ victim' = t
  /\ main' = "join"
  /\ UNCHANGED <<quitting, slot, signalVars, count, pc, queue_mutex, sems, queue>>

Close(command, type) == MayRead(command) /\ CloseThread(type)

\* pthread_join() returns.
Join ==
  /\ main = "join"
  /\ pc[victim] = "ended"
  /\ Goto(victim, "none")
  /\ cancelled' = cancelled \ {victim}
  /\ count' = [count EXCEPT ![victim.type] = @ - 1]
  /\ victim' = NoThread
  /\ main' = "command"
  /\ UNCHANGED <<quitting, slot, signalVars, working, queue_mutex, sems, queue>>

\* queue_print(), without queue_mutex: a slot is tested, then the message in it read.
PrintFind ==
  /\ MayRead("l")
  /\ \E i \in DOMAIN queue.messages : queue.messages[i] # NULL /\ slot' = i
  /\ main' = "print"
  /\ UNCHANGED <<quitting, victim, signalVars, tableVars, pc, queue_mutex, sems, queue>>

PrintRead ==
  /\ main = "print"
  /\ main' = "command"
  /\ slot' = 0
  /\ UNCHANGED <<quitting, victim, signalVars, tableVars, pc, queue_mutex, sems, queue>>

\* "r": a free slot is waited for, unless there is no consumer ...
ReduceAsk ==
  /\ MayRead("r")
  /\ count[Consumer] # 0
  /\ main' = "reduce"
  /\ UNCHANGED <<quitting, victim, slot, signalVars, tableVars, pc, queue_mutex, sems, queue>>

ReduceWait ==
  /\ main = "reduce"
  /\ free_space_sem > 0
  /\ free_space_sem' = free_space_sem - 1
  /\ main' = "reduce_lock"
  /\ UNCHANGED <<quitting, victim, slot, signalVars, tableVars, pc, queue_mutex, items_sem, queue>>

\* ... and then given up, under queue_mutex.
ReduceQueue ==
  /\ main = "reduce_lock"
  /\ queue_mutex = NoThread
  /\ queue' = Reduce(queue)
  /\ main' = "command"
  /\ UNCHANGED <<quitting, victim, slot, signalVars, tableVars, pc, queue_mutex, sems>>

\* "e": the ring gets a slot under queue_mutex, the semaphore a token after it.
\* MAX_LEN bounds the model, not the code.
ExpandAsk ==
  /\ MayRead("e")
  /\ queue.max_len < MAX_LEN
  /\ main' = "expand"
  /\ UNCHANGED <<quitting, victim, slot, signalVars, tableVars, pc, queue_mutex, sems, queue>>

ExpandQueue ==
  /\ main = "expand"
  /\ queue_mutex = NoThread
  /\ queue' \in Expanded(queue)
  /\ main' = "expand_post"
  /\ UNCHANGED <<quitting, victim, slot, signalVars, tableVars, pc, queue_mutex, sems>>

\* Seeded fault: the new slot is not announced.
FaultExpandPost ==
  /\ main = "expand_post"
  /\ main' = "command"
  /\ UNCHANGED <<quitting, victim, slot, signalVars, tableVars, pc, queue_mutex, sems, queue>>

ExpandPost ==
  /\ main = "expand_post"
  /\ free_space_sem' = free_space_sem + 1
  /\ main' = "command"
  /\ UNCHANGED <<quitting, victim, slot, signalVars, tableVars, pc, queue_mutex, items_sem, queue>>

\* cleanup_and_exit() on "q": close_all_threads(1), then close_all_threads(-1) ...
Quit ==
  /\ MayRead("q")
  /\ quitting' = TRUE
  /\ UNCHANGED <<main, victim, slot, signalVars, tableVars, pc, queue_mutex, sems, queue>>

\* What "r" or "e" has done to the ring under queue_mutex, and where that leaves it.
Resized == IF main = "expand" THEN {"expand_post"} \X Expanded(queue)
                              ELSE {"command"} \X {Reduce(queue)}

\* ... or in termination_handler(), which the kernel runs in the main thread.  It does
\* not come back to what it interrupted; inside queue_mutex, before or after the work,
\* it leaves the mutex locked.  The sections of the working flags and create_thread()
\* are one step here, too.
Interrupt ==
  /\ "^C" \in Commands
  /\ interrupted = "no"
  /\ main # "done"
  /\ quitting' = TRUE
  /\ main' = "command"
  /\ forgotten' = victim
  /\ victim' = NoThread
  /\ slot' = 0
  /\ \/ interrupted' = main /\ UNCHANGED <<queue_mutex, queue>>
     \/ /\ main \in {"reduce_lock", "expand"}
        /\ queue_mutex = NoThread
        /\ queue_mutex' = MainThread
        /\ \E left \in {<<main, queue>>} \cup Resized :
             interrupted' = left[1] /\ queue' = left[2]
  /\ UNCHANGED <<tableVars, pc, sems>>

\* The counter of a thread whose flag is clear already never goes down, and the loop
\* goes round for ever.
CloseAll ==
  /\ main = "command"
  /\ quitting
  /\ \/ CloseThread(Producer)
     \/ count[Producer] = 0 /\ CloseThread(Consumer)

\* ... and the end, with semaphores, mutexes and ring gone.
Exit ==
  /\ main = "command"
  /\ quitting
  /\ \A type \in Types : count[type] = 0
  /\ main' = "done"
  /\ UNCHANGED <<quitting, victim, slot, signalVars, tableVars, pc, queue_mutex, sems, queue>>

\* What the main thread does without being asked again.
Main ==
  \/ Join \/ PrintRead \/ ReduceWait \/ ReduceQueue \/ ExpandQueue \/ ExpandPost
  \/ CloseAll \/ Exit

Next ==
  \/ CreateThread("+", Producer) \/ CreateThread("*", Consumer)
  \/ Close("-", Producer) \/ Close("_", Consumer)
  \/ PrintFind \/ ReduceAsk \/ ExpandAsk \/ Quit \/ Interrupt
  \/ Main
  \/ \E t \in Threads : Step(t)

Spec == Init /\ [][Next]_vars

(***************************************************************************)
(* Every thread is scheduled.  A thread sleeps for seconds between two     *)
(* turns, so that one asleep on a semaphore or on the mutex gets it if it  *)
(* becomes free again and again.  printf() need not act on a cancellation. *)
(***************************************************************************)
Acquire(t) == SemWait(t) \/ LockPush(t) \/ LockPop(t)
MainAcquire == ReduceWait \/ ReduceQueue \/ ExpandQueue

Fairness ==
  /\ \A t \in Threads : WF_vars(Step(t)) /\ SF_vars(Acquire(t))
  /\ WF_vars(Main) /\ SF_vars(MainAcquire)

FairSpec == Spec /\ Fairness

-----------------------------------------------------------------------------
(***************************************************************************)
(* Properties.                                                             *)
(***************************************************************************)

\* The variables keep the types their C declarations give them.
TypeOK ==
  /\ main \in MainLabels
  /\ quitting \in BOOLEAN
  /\ victim \in Threads \cup {NoThread}
  /\ slot \in 0 .. MAX_LEN - 1
  /\ interrupted \in MainLabels \cup {"no"}
  /\ forgotten \in Threads \cup {NoThread}
  /\ count \in [Types -> Nat]
  /\ \A type \in Types : count[type] <= Limit(type)
  /\ working \in [Threads -> BOOLEAN]
  /\ cancelled \subseteq Threads
  /\ pc \in [Threads -> Labels]
  /\ queue_mutex \in Threads \cup {MainThread, NoThread}
  /\ free_space_sem \in 0 .. MAX_LEN
  /\ items_sem \in 0 .. MAX_LEN
  /\ queue \in Queue

\* Threads that hold a token of their own semaphore, and those that changed the
\* ring and have not posted the other one, a thread cancelled inside included.
InHand(type) == {t \in Threads : t.type = type /\ pc[t] = "lock"}
Unposted(type) == {t \in Threads : /\ t.type = type
                                   /\ pc[t] = "post" \/ queue_mutex = t}

\* A slot the main thread has taken or made and not accounted for yet, or never will.
InDebt(place) == place \in {"reduce_lock", "expand_post"}
MainSlots == IF InDebt(main) \/ InDebt(interrupted) THEN 1 ELSE 0

\* Every message of the ring is covered by one token of items_sem, by a consumer
\* that took it or by a producer that owes it, whatever is created, closed,
\* cancelled or resized.
ItemsAgree ==
  queue.len = items_sem + Cardinality(InHand(Consumer)) + Cardinality(Unposted(Producer))

\* Free slots of the ring that neither free_space_sem nor anybody accounts for.
FreeTokens == free_space_sem + Cardinality(InHand(Producer))
                + Cardinality(Unposted(Consumer)) + MainSlots
Slack == queue.max_len - queue.len - FreeTokens

\* No token exists for a slot the ring has not got.
FreeSpaceCovered == Slack >= 0

\* Nor does the ring get a free slot that no token is there for, except when "r" has
\* taken a token for the only slot, which queue_reduce() then keeps.
SlackKept == [][Slack' # Slack => main = "reduce_lock" /\ queue.max_len = 1]_vars

\* A thread that got through its semaphore finds what it waited for: "cannot push
\* message, queue is full" and "cannot pop message, queue is empty" stay unprinted.
NeverRefused ==
  \A t \in Threads : pc[t] = "lock" =>
    IF t.type = Producer THEN ~Full(queue) ELSE ~Empty(queue)

\* The threads are those of the first count entries, and their flags are set, but for
\* one that is being joined, or was when SIGINT came: the index count - 1 names a thread,
\* and the search for a free entry ends inside the array.
TableMatchesThreads ==
  \A t \in Threads :
    /\ pc[t] # "none" <=> t.ind < count[t.type]
    /\ working[t] <=> t.ind < count[t.type] /\ t \notin {victim, forgotten}

\* A step of a FIFO: nothing, one message at the end, or one from the front.
FifoStep(before, after) ==
  \/ after = before
  \/ \E m \in Messages : after = Append(before, m)
  \/ before # <<>> /\ after = Tail(before)

\* The steps after which head and tail may no longer belong together.
Emptied(q, r) == q.len = 1 /\ r.len = 0 /\ q.max_len > 1
CutOff(q, r) == r.max_len < q.max_len /\ ~Wrapped(q)

\* As long as the ring is not emptied, messages leave it in the order in which
\* they entered it, also while it grows, and while it shrinks by a slot in the middle.
OrderKept ==
  [][\/ ~Aligned(queue) \/ Emptied(queue, queue') \/ CutOff(queue, queue')
     \/ Aligned(queue') /\ FifoStep(Content(queue), Content(queue'))]_vars

\* "Queue: message was pushed": a consumer that holds a token pops a message.
PopFindsMessage == \A t \in Threads : pc[t] # "unlock"

\* Is queue_mutex held by a thread that has ended, or lost with SIGINT?
Abandoned ==
  \/ queue_mutex = MainThread
  \/ \E t \in Threads : queue_mutex = t /\ pc[t] \notin {"print", "unlock"}

\* Is a token lost, with SIGINT in "r" or "e", or to an "r" that met a ring of one slot?
TokenLost == main \in {"command", "join"} /\ MainSlots + Slack > 0

\* "- remove last added producer": close_thread_by_ind() comes back when a thread of
\* the other type works, queue_mutex is in living hands and no token is lost.  Without
\* that thread it need not: the ring may fill up between the test and the victim's
\* sem_wait().
PartnerOfVictim(t) == victim # NoThread /\ t.type # victim.type /\ working[t]
CloseReturnsWithPartner ==
  (main = "join" /\ ~Abandoned /\ ~TokenLost /\ \E t \in Threads : PartnerOfVictim(t))
    ~> main = "command"

\* "q" and SIGINT with at most one thread of each type end the program, wherever they
\* are and whatever was done before, unless queue_mutex or a token was lost before, or a
\* thread was being joined when SIGINT came.
OneOfEach == \A type \in Types : count[type] <= 1
QuitCompletes ==
  (main = "command" /\ quitting /\ OneOfEach /\ ~Abandoned /\ ~TokenLost)
    ~> (main = "done" \/ forgotten # NoThread)
=============================================================================
