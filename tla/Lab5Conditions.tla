--------------------------- MODULE Lab5Conditions ---------------------------
(***************************************************************************)
(* lab5/5.2/src/main.c: the program of Lab5Threads with two condition      *)
(* variables in place of the semaphores.  The ring is that of lab5/5.1,    *)
(* but may shrink to nothing; here only its two lengths matter.            *)
(*                                                                         *)
(* A thread unlocks queue_mutex at the top of its loop when it is told to  *)
(* close, and does not hold it there.  If another thread holds it, what    *)
(* follows is undefined; misused records this, and the model goes no       *)
(* further.  An unlock of a free mutex does nothing.                       *)
(*                                                                         *)
(* A thread that was cancelled is not joined and may go on beside a new    *)
(* thread with the same index; threads are therefore not their indices.    *)
(***************************************************************************)
EXTENDS Integers, FiniteSets

CONSTANTS
  Tids,              \* identities of threads, used again after the end of a thread
  MainThread, NoThread,
  Departed,          \* whoever will never unlock queue_mutex: a thread that has ended
                     \* with it in hand, or the main thread since SIGINT
  QUEUE_BASE_SIZE,   \* slots of a new ring (10 in queue.h)
  MAX_LEN,           \* bound of the model on the length of the ring
  MAX_PRODUCER_THREADS, MAX_CONSUMER_THREADS,
  Commands           \* what the user may type

ASSUME TidsAssumption == /\ IsFiniteSet(Tids)
                         /\ Tids \cap {MainThread, NoThread, Departed} = {}
                         /\ NoThread \notin {MainThread, Departed}
ASSUME LengthAssumption == QUEUE_BASE_SIZE \in Nat /\ MAX_LEN \in Nat /\ QUEUE_BASE_SIZE <= MAX_LEN
ASSUME LimitAssumption == MAX_PRODUCER_THREADS \in Nat /\ MAX_CONSUMER_THREADS \in Nat
ASSUME CommandsAssumption == Commands \subseteq {"+", "*", "-", "_", "r", "e", "q", "^C"}

Producer == "producer"
Consumer == "consumer"
Types == {Producer, Consumer}
Other(type) == IF type = Producer THEN Consumer ELSE Producer
Limit(type) == IF type = Producer THEN MAX_PRODUCER_THREADS ELSE MAX_CONSUMER_THREADS

\* Where producers[] and consumers[], and their working flags, have entries.
Entries == UNION {[type : {type}, ind : 0 .. Limit(type) - 1] : type \in Types}
Entry(type, ind) == [type |-> type, ind |-> ind]
NoEntry == Entry("none", 0)

VARIABLES
  main,         \* where the main thread is
  quitting,     \* is it inside cleanup_and_exit()?
  interrupted,  \* where it was when SIGINT came
  cut_wait,     \* what SIGINT cut off of its pthread_cond_wait(): nothing ("no"), the
                \* sleep, or the way out of it, when it no longer is one of the waiters
  victim,       \* thread it joins in close_thread_by_ind()
  count,        \* producers_count and consumers_count
  working,      \* producers[] and consumers[] where producers_working[] and
                \* consumers_working[] are set, NoThread where they are clear
  entry,        \* per thread: what it is, and its ind
  pc,           \* per thread: the statement it executes next
  cancelled,    \* those on their way that pthread_cancel() was called for
  queue_mutex,  \* its owner
  misused,      \* has an unlock opened the mutex of another thread?
  len, max_len  \* of the ring

mainVars == <<main, quitting, interrupted, cut_wait, victim>>
tableVars == <<count, working, entry>>
ring == <<len, max_len>>
vars == <<mainVars, tableVars, pc, cancelled, queue_mutex, misused, ring>>

Labels == {"none", "check", "close", "sleep", "lock", "act", "signal", "flag", "wait",
           "asleep", "woken", "ended"}

MainLabels == {"command", "broadcast", "join", "reduce", "reduce_asleep", "reduce_woken",
               "expand", "expand_signal", "done"}

\* message_queue_init() and sync_init(), then the command loop.
Init ==
  /\ main = "command"
  /\ quitting = FALSE
  /\ interrupted = "no"
  /\ cut_wait = "no"
  /\ victim = NoThread
  /\ count = [type \in Types |-> 0]
  /\ working = [e \in Entries |-> NoThread]
  /\ entry = [t \in Tids |-> NoEntry]
  /\ pc = [t \in Tids |-> "none"]
  /\ cancelled = {}
  /\ queue_mutex = NoThread
  /\ misused = FALSE
  /\ len = 0
  /\ max_len = QUEUE_BASE_SIZE

\* queue_is_full() and queue_is_empty(): what a thread of a type waits for to end.
Blocked(type) == IF type = Producer THEN len = max_len ELSE len = 0

-----------------------------------------------------------------------------
(***************************************************************************)
(* Mutex and conditions.                                                   *)
(***************************************************************************)
Goto(t, label) == pc' = [pc EXCEPT ![t] = label]

Type(t) == entry[t].type

\* A thread is no more: it was joined, or it has ended and nobody joins it.
Leave(t) ==
  /\ Goto(t, "none")
  /\ entry' = [entry EXCEPT ![t] = NoEntry]
  /\ cancelled' = cancelled \ {t}

\* pthread_mutex_lock(&queue_mutex) by t.
Lock(t) == queue_mutex = NoThread /\ queue_mutex' = t

\* Threads asleep on free_space_cond (producers) or items_cond (consumers); one that
\* was cancelled takes no signal any more.
Asleep(type) == {t \in Tids \ cancelled : pc[t] = "asleep" /\ Type(t) = type}

\* The main thread, reducing the ring, sleeps on free_space_cond as well, and does so
\* under termination_handler() if SIGINT came then.
MainWaits == main = "reduce_asleep" \/ cut_wait = "asleep"

\* Those that pthread_cond_signal() on the condition of a type may wake.
Waiters(type) ==
  Asleep(type) \cup IF type = Producer /\ MainWaits THEN {MainThread} ELSE {}

\* pthread_cond_signal() wakes one of them, if there is one.
MayWake(type, who) == IF Waiters(type) = {} THEN who = NoThread ELSE who \in Waiters(type)

\* The main thread as one of those woken: under the handler it takes the signal and does
\* nothing with it.
WakeMain(woken) ==
  /\ main' = IF woken /\ main = "reduce_asleep" THEN "reduce_woken" ELSE main
  /\ cut_wait' = IF woken /\ cut_wait = "asleep" THEN "woken" ELSE cut_wait

-----------------------------------------------------------------------------
(***************************************************************************)
(* The threads.                                                            *)
(***************************************************************************)

\* checkTermProducer() and checkTermConsumer() at the top of the loop ...
Check(t) ==
  /\ pc[t] = "check"
  /\ Goto(t, IF working[entry[t]] # NoThread THEN "sleep" ELSE "close")
  /\ UNCHANGED <<mainVars, tableVars, cancelled, queue_mutex, misused, ring>>

\* ... and inside the wait loop.
Flag(t) ==
  /\ pc[t] = "flag"
  /\ Goto(t, IF working[entry[t]] # NoThread THEN "wait" ELSE "close")
  /\ UNCHANGED <<mainVars, tableVars, cancelled, queue_mutex, misused, ring>>

\* Both unlock queue_mutex when the flag is clear.
Close(t) ==
  /\ pc[t] = "close"
  /\ queue_mutex' = NoThread
  /\ misused' = (queue_mutex \notin {NoThread, t})
  /\ IF t \in cancelled THEN Leave(t) ELSE Goto(t, "ended") /\ UNCHANGED <<entry, cancelled>>
  /\ UNCHANGED <<mainVars, count, working, ring>>

\* sleep().
Sleep(t) ==
  /\ pc[t] = "sleep"
  /\ t \notin cancelled
  /\ Goto(t, "lock")
  /\ UNCHANGED <<mainVars, tableVars, cancelled, queue_mutex, misused, ring>>

\* Seeded fault: if in place of while.
FaultEnter(t) ==
  /\ pc[t] \in {"lock", "woken"}
  /\ Lock(t)
  /\ Goto(t, IF Blocked(Type(t)) /\ pc[t] = "lock" THEN "flag" ELSE "act")
  /\ UNCHANGED <<mainVars, tableVars, cancelled, misused, ring>>

\* pthread_mutex_lock(), or the end of pthread_cond_wait(), and the test of the ring.
Enter(t) ==
  /\ pc[t] \in {"lock", "woken"}
  /\ Lock(t)
  /\ Goto(t, IF Blocked(Type(t)) THEN "flag" ELSE "act")
  /\ UNCHANGED <<mainVars, tableVars, cancelled, misused, ring>>

\* pthread_cond_wait() releases the mutex; it may also come back of itself.
Wait(t) ==
  /\ pc[t] = "wait"
  /\ queue_mutex' = NoThread
  /\ Goto(t, "asleep")
  /\ UNCHANGED <<mainVars, tableVars, cancelled, misused, ring>>

SpuriousWakeup(t) ==
  /\ t \in Asleep(Type(t))
  /\ Goto(t, "woken")
  /\ UNCHANGED <<mainVars, tableVars, cancelled, queue_mutex, misused, ring>>

\* queue_push() or queue_pop(), which refuse a full and an empty ring.
Act(t) ==
  /\ pc[t] = "act"
  /\ len' = IF Blocked(Type(t)) THEN len ELSE IF Type(t) = Producer THEN len + 1 ELSE len - 1
  /\ Goto(t, "signal")
  /\ UNCHANGED <<mainVars, tableVars, cancelled, queue_mutex, misused, max_len>>

\* Seeded fault: a thread signals the condition of its own type.
FaultSignal(t, who) ==
  /\ pc[t] = "signal"
  /\ MayWake(Type(t), who)
  /\ pc' = [u \in Tids |-> IF u = t THEN "check" ELSE IF u = who THEN "woken" ELSE pc[u]]
  /\ WakeMain(who = MainThread)
  /\ queue_mutex' = NoThread
  /\ UNCHANGED <<quitting, interrupted, victim, tableVars, cancelled, misused, ring>>

\* pthread_cond_signal() for the other type, and pthread_mutex_unlock().
Signal(t, who) ==
  /\ pc[t] = "signal"
  /\ MayWake(Other(Type(t)), who)
  /\ pc' = [u \in Tids |-> IF u = t THEN "check" ELSE IF u = who THEN "woken" ELSE pc[u]]
  /\ WakeMain(who = MainThread)
  /\ queue_mutex' = NoThread
  /\ UNCHANGED <<quitting, interrupted, victim, tableVars, cancelled, misused, ring>>

\* A cancelled thread ends in sleep(), in the printf() before the signal, with
\* queue_mutex in hand, or in pthread_cond_wait(), which takes queue_mutex first.
\* Nobody ever unlocks it again.
ActOnCancel(t) ==
  /\ t \in cancelled
  /\ \/ pc[t] = "sleep" /\ UNCHANGED queue_mutex
     \/ pc[t] = "signal" /\ queue_mutex' = Departed
     \/ pc[t] = "asleep" /\ queue_mutex = NoThread /\ queue_mutex' = Departed
  /\ Leave(t)
  /\ UNCHANGED <<mainVars, count, working, misused, ring>>

\* Neither after misuse nor after the end of the ring do the threads mean anything.
Running == ~misused /\ main # "done"

Step(t) ==
  /\ Running
  /\ \/ Check(t) \/ Flag(t) \/ Close(t) \/ Sleep(t) \/ Enter(t) \/ Wait(t) \/ Act(t)
     \/ \E who \in Tids \cup {MainThread, NoThread} : Signal(t, who)
     \/ ActOnCancel(t)

-----------------------------------------------------------------------------
(***************************************************************************)
(* The main thread.                                                        *)
(***************************************************************************)
MayRead(command) == main = "command" /\ ~quitting /\ command \in Commands

\* The lowest index whose working flag is clear.
FreeIndex(type) ==
  CHOOSE i \in 0 .. Limit(type) - 1 :
    /\ working[Entry(type, i)] = NoThread
    /\ \A j \in 0 .. i - 1 : working[Entry(type, j)] # NoThread

\* Identities that no thread has.
FreeTids == {t \in Tids : pc[t] = "none"}

\* create_thread(); which identity is free for the new thread makes no difference.
CreateThread(command, type) ==
  /\ MayRead(command)
  /\ count[type] < Limit(type)
  /\ FreeTids # {}
  /\ LET e == Entry(type, FreeIndex(type))
         t == CHOOSE t \in FreeTids : TRUE
     IN /\ working' = [working EXCEPT ![e] = t]
        /\ entry' = [entry EXCEPT ![t] = e]
        /\ Goto(t, "check")
  /\ count' = [count EXCEPT ![type] = @ + 1]
  /\ UNCHANGED <<mainVars, cancelled, queue_mutex, misused, ring>>

\* Seeded fault: nobody is ever cancelled.
FaultStuck(type) == FALSE

\* The test before pthread_cancel(): nobody is left to wake the thread up.  The
\* fields of the ring are read without queue_mutex.
Stuck(type) == count[Other(type)] = 0 /\ Blocked(type)

\* close_thread_by_ind(count - 1, type): the thread is cancelled and forgotten, or
\* told to close; a flag that is not set is refused.
CloseThread(type) ==
  /\ count[type] > 0
  /\ LET e == Entry(type, count[type] - 1)
     IN /\ working[e] # NoThread
        /\ working' = [working EXCEPT ![e] = NoThread]
        /\ IF Stuck(type)
             THEN /\ cancelled' = cancelled \cup {working[e]}
                  /\ count' = [count EXCEPT ![type] = @ - 1]
                  /\ UNCHANGED <<main, victim>>
             ELSE /\ victim' = working[e]
                  /\ main' = "broadcast"
                  /\ UNCHANGED <<cancelled, count>>
  /\ UNCHANGED <<quitting, interrupted, cut_wait, entry, pc, queue_mutex, misused, ring>>

CloseLast(command, type) == MayRead(command) /\ CloseThread(type)

\* Seeded fault: the other condition is broadcast.
FaultBroadcast ==
  /\ main = "broadcast"
  /\ pc' = [t \in Tids |-> IF t \in Asleep(Other(Type(victim))) THEN "woken" ELSE pc[t]]
  /\ cut_wait' = IF Type(victim) = Consumer /\ cut_wait = "asleep" THEN "woken" ELSE cut_wait
  /\ main' = "join"
  /\ UNCHANGED <<quitting, interrupted, victim, tableVars, cancelled, queue_mutex, misused, ring>>

\* pthread_cond_broadcast(), without queue_mutex: a thread between its look at the
\* flag and pthread_cond_wait() does not hear it.
Broadcast ==
  /\ main = "broadcast"
  /\ pc' = [t \in Tids |-> IF t \in Asleep(Type(victim)) THEN "woken" ELSE pc[t]]
  /\ cut_wait' = IF Type(victim) = Producer /\ cut_wait = "asleep" THEN "woken" ELSE cut_wait
  /\ main' = "join"
  /\ UNCHANGED <<quitting, interrupted, victim, tableVars, cancelled, queue_mutex, misused, ring>>

\* Seeded fault: the thread is not waited for.
FaultJoin ==
  /\ main = "join"
  /\ count' = [count EXCEPT ![Type(victim)] = @ - 1]
  /\ victim' = NoThread
  /\ main' = "command"
  /\ UNCHANGED <<quitting, interrupted, cut_wait, working, entry, pc, cancelled, queue_mutex,
                 misused, ring>>

\* pthread_join() returns.
Join ==
  /\ main = "join"
  /\ pc[victim] = "ended"
  /\ Leave(victim)
  /\ count' = [count EXCEPT ![Type(victim)] = @ - 1]
  /\ victim' = NoThread
  /\ main' = "command"
  /\ UNCHANGED <<quitting, interrupted, cut_wait, working, queue_mutex, misused, ring>>

MainOnly == UNCHANGED <<quitting, interrupted, cut_wait, victim, tableVars, pc, cancelled,
                        queue_mutex, misused>>

\* Seeded fault: nobody asks for a consumer.
FaultReduceAsk == MayRead("r") /\ main' = "reduce" /\ MainOnly /\ UNCHANGED ring

\* "r", refused without a consumer ...
ReduceAsk ==
  /\ MayRead("r")
  /\ count[Consumer] # 0
  /\ main' = "reduce"
  /\ MainOnly /\ UNCHANGED ring

\* ... waits on free_space_cond while the ring is full ...
ReduceWait ==
  /\ main \in {"reduce", "reduce_woken"}
  /\ queue_mutex = NoThread
  /\ len = max_len
  /\ main' = "reduce_asleep"
  /\ MainOnly /\ UNCHANGED ring

ReduceSpuriousWakeup ==
  /\ main = "reduce_asleep"
  /\ main' = "reduce_woken"
  /\ MainOnly /\ UNCHANGED ring

\* ... and calls queue_reduce().
ReduceQueue ==
  /\ main \in {"reduce", "reduce_woken"}
  /\ queue_mutex = NoThread
  /\ len # max_len
  /\ max_len' = IF max_len = 0 THEN max_len ELSE max_len - 1
  /\ main' = "command"
  /\ MainOnly /\ UNCHANGED len

\* "e": queue_expand() under queue_mutex, then a signal.  MAX_LEN bounds the model,
\* not the code.
ExpandAsk ==
  /\ MayRead("e")
  /\ max_len < MAX_LEN
  /\ main' = "expand"
  /\ MainOnly /\ UNCHANGED ring

ExpandQueue ==
  /\ main = "expand"
  /\ queue_mutex = NoThread
  /\ max_len' = max_len + 1
  /\ main' = "expand_signal"
  /\ MainOnly /\ UNCHANGED len

ExpandSignal(who) ==
  /\ main = "expand_signal"
  /\ MayWake(Producer, who)
  /\ pc' = [t \in Tids |-> IF t = who THEN "woken" ELSE pc[t]]
  /\ main' = "command"
  /\ UNCHANGED <<quitting, interrupted, cut_wait, victim, tableVars, cancelled, queue_mutex,
                 misused, ring>>

\* cleanup_and_exit() on "q" ...
Quit ==
  /\ MayRead("q")
  /\ quitting' = TRUE
  /\ UNCHANGED <<main, interrupted, cut_wait, victim, tableVars, pc, cancelled, queue_mutex,
                 misused, ring>>

\* The ring after the work of "e" or "r", which does nothing before there is a slot.
Resized == IF main = "expand" THEN max_len + 1
           ELSE IF len = max_len THEN max_len ELSE max_len - 1

\* What of pthread_cond_wait() SIGINT may find the main thread in.  It is counted among
\* the waiters before it unlocks queue_mutex, and no longer when it locks it again; once
\* woken it may not have left the count yet.
CutWait(locked) ==
  IF main = "reduce_asleep" THEN {"asleep"}
  ELSE IF locked /\ main # "expand" /\ len = max_len THEN {"no", "asleep"}
  ELSE IF ~locked /\ main = "reduce_woken" THEN {"no", "woken"}
  ELSE {"no"}

\* ... or in termination_handler(), which the kernel runs in the main thread.  It does
\* not come back to what it interrupted, inside queue_mutex or not.  The sections of
\* the working flags and create_thread() are one step here, too.
Interrupt ==
  /\ "^C" \in Commands
  /\ interrupted = "no"
  /\ interrupted' = main
  /\ quitting' = TRUE
  /\ main' = "command"
  /\ \/ cut_wait' \in CutWait(FALSE) /\ UNCHANGED <<queue_mutex, max_len>>
     \/ /\ main \in {"reduce", "reduce_woken", "expand"}
        /\ queue_mutex = NoThread
        /\ cut_wait' \in CutWait(TRUE)
        /\ queue_mutex' = Departed
        /\ max_len' \in {max_len, Resized}
  /\ UNCHANGED <<victim, tableVars, pc, cancelled, misused, len>>

\* close_all_threads(1), then close_all_threads(-1).  The counter of a thread whose
\* flag is clear already never goes down, and the loop goes round for ever.
CloseAll ==
  /\ main = "command"
  /\ quitting
  /\ \/ CloseThread(Producer)
     \/ count[Producer] = 0 /\ CloseThread(Consumer)

\* sync_destroy() returns: pthread_cond_destroy() waits until nobody is counted inside
\* pthread_cond_wait(), be it the very thread that calls it.
SyncDestroy == cut_wait = "no"

\* The end, where the ring is freed.
Exit ==
  /\ main = "command"
  /\ quitting
  /\ \A type \in Types : count[type] = 0
  /\ SyncDestroy
  /\ main' = "done"
  /\ MainOnly /\ UNCHANGED ring

\* What the main thread does without being asked again.
Main ==
  /\ Running
  /\ \/ Broadcast \/ Join \/ ReduceWait \/ ReduceQueue \/ ExpandQueue
     \/ \E who \in Tids \cup {NoThread} : ExpandSignal(who)
     \/ CloseAll \/ Exit

Command ==
  \/ CreateThread("+", Producer) \/ CreateThread("*", Consumer)
  \/ CloseLast("-", Producer) \/ CloseLast("_", Consumer)
  \/ ReduceAsk \/ ExpandAsk \/ Quit

Next ==
  \/ Main
  \/ Running /\ (Command \/ Interrupt \/ ReduceSpuriousWakeup)
  \/ \E t \in Tids : Step(t) \/ (Running /\ SpuriousWakeup(t))

Spec == Init /\ [][Next]_vars

(***************************************************************************)
(* Every thread is scheduled.  A thread sleeps for seconds between two     *)
(* turns, so that one that waits for the mutex gets it if it becomes free  *)
(* again and again.  glibc signals those that came to a condition early    *)
(* before those that came late, so that nobody is passed over for ever.    *)
(***************************************************************************)
Fairness ==
  /\ \A t \in Tids : WF_vars(Step(t)) /\ SF_vars(Running /\ Enter(t))
  /\ \A who \in Tids \cup {MainThread} : SF_vars(Running /\ \E t \in Tids : Signal(t, who))
  /\ WF_vars(Main) /\ SF_vars(Running /\ (ReduceQueue \/ ExpandQueue))

FairSpec == Spec /\ Fairness

-----------------------------------------------------------------------------
(***************************************************************************)
(* Properties.                                                             *)
(***************************************************************************)

\* The variables keep the types their C declarations give them, and the ring never
\* holds more than its slots.
TypeOK ==
  /\ main \in MainLabels
  /\ quitting \in BOOLEAN
  /\ interrupted \in MainLabels \cup {"no"}
  /\ cut_wait \in {"no", "asleep", "woken"}
  /\ victim \in Tids \cup {NoThread}
  /\ count \in [Types -> Nat]
  /\ working \in [Entries -> Tids \cup {NoThread}]
  /\ entry \in [Tids -> Entries \cup {NoEntry}]
  /\ pc \in [Tids -> Labels]
  /\ cancelled \subseteq Tids
  /\ queue_mutex \in Tids \cup {NoThread, Departed}
  /\ misused \in BOOLEAN
  /\ max_len \in Nat
  /\ len \in 0 .. max_len

\* "pushed item" and "popped from queue" are true when printed: a thread that has left
\* its wait loop finds a slot or a message, whoever was woken, came in between or
\* resized the ring.
NeverRefused == \A t \in Tids : pc[t] = "act" => ~Blocked(Type(t))

\* Is queue_mutex held by somebody who never unlocks it?
Abandoned == queue_mutex = Departed

\* What threads of a type can use, who has been told of it, and who is about to tell.
Supply(type) == IF type = Producer THEN max_len - len ELSE len
Told(type) == {t \in Tids : pc[t] \in {"woken", "act"} /\ Type(t) = type}
Telling(type) == {t \in Tids : pc[t] = "signal" /\ Type(t) # type}
MainKnows(type) ==
  IF type = Producer /\ main \in {"reduce_woken", "expand_signal"} THEN 1 ELSE 0

\* Has SIGINT cost a wake-up: the signal of "e", the one "r" was woken by, or the one
\* that "r" took under the handler?
SignalCut == interrupted \in {"expand_signal", "reduce_woken"} \/ cut_wait = "woken"

\* No thread sleeps on a condition while more slots or messages are there for it than
\* threads have been woken, or will be, to take them; unless the mutex is lost, or a
\* signal with SIGINT.
NoLostWakeup ==
  ~Abandoned /\ ~misused /\ ~SignalCut =>
    \A type \in Types : Waiters(type) # {} =>
      Supply(type) <= Cardinality(Told(type)) + Cardinality(Telling(type)) + MainKnows(type)

\* A thread that goes on is in the table under its own entry, or is being joined, or
\* was cancelled: nothing else outlives the ring, or a count that says it is closed.
\* What SIGINT found being closed is forgotten.
CloseCut == interrupted \in {"broadcast", "join"}
Listed(t) == working[entry[t]] = t
OrphansCancelled ==
  ~CloseCut =>
    \A t \in Tids : pc[t] # "none" => Listed(t) \/ t = victim \/ t \in cancelled

\* What SIGINT cut off and cleanup_and_exit() waits for: a thread it has forgotten, or
\* the main thread's own pthread_cond_wait().
InTheWay == CloseCut \/ cut_wait # "no"

\* No cancelled thread is still on its way, and nobody has taken the mutex along.
NoOrphans == ~Abandoned /\ cancelled = {}

\* "- remove last added producer" comes back, also when the broadcast was lost, as long
\* as the ring has a slot: the thread is then woken by its partners.
Closing == main \in {"broadcast", "join"}
CloseReturns == (Closing /\ max_len > 0 /\ NoOrphans) ~> (~Closing \/ InTheWay \/ misused)

\* "r reduce queue (len - 1)" comes back while there is a slot to give up.
Reducing == main \in {"reduce", "reduce_asleep", "reduce_woken"}
ReduceReturns == (Reducing /\ max_len > 0 /\ NoOrphans) ~> (~Reducing \/ misused)

\* "q" and SIGINT end the program, whatever threads there are and wherever they are,
\* unless SIGINT came while a thread was being closed or inside pthread_cond_wait().
QuitCompletes ==
  (quitting /\ main = "command" /\ max_len > 0 /\ NoOrphans)
    ~> (main = "done" \/ InTheWay \/ misused)
=============================================================================
