------------------------------ MODULE Lab6Sort ------------------------------
(***************************************************************************)
(* lab6/src/sort_index.c: a file is sorted portion by portion, each by a   *)
(* pool of threads; then the sorted portions, the runs, are merged.        *)
(*                                                                         *)
(* The threads of a pool take blocks from g_next_block, sort them, and end *)
(* at a barrier; for each merge pass the main thread starts a new pool     *)
(* that takes two neighbouring blocks at a time.  The records are counted  *)
(* from the start of the data; the eight bytes of the header in front of   *)
(* them, and the page that a mapping has to start at, are left out.        *)
(*                                                                         *)
(* A thread works in two steps, one that reads its records and one that    *)
(* writes them back, so that others may come in between.  The end of the   *)
(* process in the middle of the writing is not modelled.                   *)
(***************************************************************************)
EXTENDS Lab6Records, Sequences

CONSTANTS
  BLOCKS, THREADS,   \* arguments of the program
  RECORDS,           \* records of the file
  PORTION,           \* records that fit into memsize bytes
  Marks,             \* values of time_mark
  Files              \* what the file may hold at first

\* Is n a power of two?  Then all its divisors but 1 are even.
PowerOfTwo(n) == \A d, q \in 1 .. n : d * q = n => d = 1 \/ d % 2 = 0

\* Checked by main(), the number of threads excepted: with none, nobody sorts.
ASSUME PoolAssumption == /\ THREADS \in Nat \ {0}
                         /\ BLOCKS \in Nat \ {0} /\ PowerOfTwo(BLOCKS)
                         /\ BLOCKS >= 4 * THREADS
ASSUME FileAssumption == /\ RECORDS \in Nat /\ PORTION \in Nat \ {0}
                         /\ Marks \subseteq Int
                         /\ Files \subseteq [0 .. RECORDS - 1 -> Marks]

VARIABLES
  file,           \* the records
  main,           \* where the main thread is
  current_offset, \* start of the portion
  portion_recs,   \* its length
  phase,          \* which function the pool runs
  created,        \* threads of the pool created so far
  g_block_count, g_block_size, g_next_block,
  pc,             \* per thread: the statement it executes next
  block,          \* per thread: the block it has taken, or -1
  tmp,            \* per thread: its records in their new order
  runs,           \* runs of this merge pass still to be merged, or all so far
  new_runs        \* runs it has made

portionVars == <<current_offset, portion_recs>>
poolVars == <<phase, created, g_block_count, g_block_size>>
threadVars == <<g_next_block, pc, block, tmp>>
runVars == <<runs, new_runs>>
vars == <<file, main, portionVars, poolVars, threadVars, runVars>>

Threads == 1 .. THREADS
Labels == {"none", "enter", "wait_enter", "take", "work", "copy", "leave", "wait_leave", "ended"}
Run == [offset : Nat, nrecords : Nat]

Init ==
  /\ file \in Files
  /\ main = "portion"
  /\ current_offset = 0
  /\ portion_recs = 0
  /\ phase = "sort"
  /\ created = 0
  /\ g_block_count = BLOCKS
  /\ g_block_size = 0
  /\ g_next_block = 0
  /\ pc = [t \in Threads |-> "none"]
  /\ block = [t \in Threads |-> -1]
  /\ tmp = [t \in Threads |-> <<>>]
  /\ runs = <<>>
  /\ new_runs = <<>>

-----------------------------------------------------------------------------
(***************************************************************************)
(* The threads of a pool, thread_sort() and thread_merge().  They end with *)
(* the process when the main thread fails.                                 *)
(***************************************************************************)
At(t, label) == main # "failed" /\ pc[t] = label
Goto(t, label) == pc' = [pc EXCEPT ![t] = label]

\* pthread_barrier_wait(): the last thread to arrive lets all of them go on.
Wait(t, asleep, next) ==
  LET waiting == {u \in Threads : pc[u] = asleep} \cup {t}
  IN pc' = [u \in Threads |->
              IF u \notin waiting THEN pc[u]
              ELSE IF Cardinality(waiting) = THREADS THEN next ELSE asleep]

Enter(t) ==
  /\ At(t, "enter")
  /\ Wait(t, "wait_enter", "take")
  /\ UNCHANGED <<file, main, portionVars, poolVars, g_next_block, block, tmp, runVars>>

\* Blocks taken at a time: one to sort, two to merge.
Step == IF phase = "sort" THEN 1 ELSE 2

\* Seeded fault: the counter is put up for one block whatever is taken.
FaultTakeBlock(t) ==
  /\ At(t, "take")
  /\ g_next_block + Step <= g_block_count
  /\ block' = [block EXCEPT ![t] = g_next_block]
  /\ g_next_block' = g_next_block + 1
  /\ Goto(t, "work")
  /\ UNCHANGED <<file, main, portionVars, poolVars, tmp, runVars>>

\* Under g_block_mutex.
TakeBlock(t) ==
  /\ At(t, "take")
  /\ g_next_block + Step <= g_block_count
  /\ block' = [block EXCEPT ![t] = g_next_block]
  /\ g_next_block' = g_next_block + Step
  /\ Goto(t, "work")
  /\ UNCHANGED <<file, main, portionVars, poolVars, tmp, runVars>>

NoBlockLeft(t) ==
  /\ At(t, "take")
  /\ ~(g_next_block + Step <= g_block_count)
  /\ Goto(t, "leave")
  /\ UNCHANGED <<file, main, portionVars, poolVars, g_next_block, block, tmp, runVars>>

\* Where the block of t starts, and how many records t works on.
Start(t) == current_offset + block[t] * g_block_size
Length == Step * g_block_size

\* qsort() or merge_blocks() ...
Work(t) ==
  /\ At(t, "work")
  /\ tmp' = [tmp EXCEPT ![t] =
               IF phase = "sort" THEN QSorted(file, Start(t), g_block_size)
                                 ELSE Merged(file, Start(t), g_block_size, g_block_size)]
  /\ Goto(t, "copy")
  /\ UNCHANGED <<file, main, portionVars, poolVars, g_next_block, block, runVars>>

\* ... and what it writes.
Copy(t) ==
  /\ At(t, "copy")
  /\ file' = Replace(file, Start(t), Length, tmp[t])
  /\ tmp' = [tmp EXCEPT ![t] = <<>>]
  /\ block' = [block EXCEPT ![t] = -1]
  /\ Goto(t, "take")
  /\ UNCHANGED <<main, portionVars, poolVars, g_next_block, runVars>>

Leave(t) ==
  /\ At(t, "leave")
  /\ Wait(t, "wait_leave", "ended")
  /\ UNCHANGED <<file, main, portionVars, poolVars, g_next_block, block, tmp, runVars>>

ThreadStep(t) ==
  Enter(t) \/ TakeBlock(t) \/ NoBlockLeft(t) \/ Work(t) \/ Copy(t) \/ Leave(t)

-----------------------------------------------------------------------------
(***************************************************************************)
(* process_portion().                                                      *)
(***************************************************************************)
StartPortion ==
  /\ main = "portion"
  /\ current_offset < RECORDS
  /\ LET n == IF RECORDS - current_offset >= PORTION THEN PORTION ELSE RECORDS - current_offset
     IN /\ portion_recs' = n
        /\ g_block_size' = n \div g_block_count
        /\ main' = IF n % g_block_count = 0 THEN "create" ELSE "failed"
  /\ phase' = "sort"
  /\ created' = 0
  /\ g_next_block' = 0
  /\ UNCHANGED <<file, current_offset, g_block_count, pc, block, tmp, runVars>>

\* Seeded fault: the main thread goes on with the threads it has.
FaultCreateThread ==
  /\ main = "create"
  /\ created' = created + 1
  /\ pc' = [pc EXCEPT ![created + 1] = IF phase = "sort" THEN "enter" ELSE "take"]
  /\ main' = "join"
  /\ UNCHANGED <<file, portionVars, phase, g_block_count, g_block_size, g_next_block, block, tmp, runVars>>

\* pthread_create(), for one thread of the pool after the other.
CreateThread ==
  /\ main = "create"
  /\ created' = created + 1
  /\ pc' = [pc EXCEPT ![created + 1] = IF phase = "sort" THEN "enter" ELSE "take"]
  /\ main' = IF created + 1 = THREADS THEN "join" ELSE "create"
  /\ UNCHANGED <<file, portionVars, phase, g_block_count, g_block_size, g_next_block, block, tmp, runVars>>

\* Number and size of the blocks when a pool has done its work.
BlocksNow ==
  IF phase = "sort" THEN [count |-> g_block_count, size |-> g_block_size]
                    ELSE [count |-> g_block_count \div 2, size |-> 2 * g_block_size]

\* pthread_join() for all of them; then the next merge pass, if there is one.
JoinThreads ==
  /\ main = "join"
  /\ \A t \in Threads : pc[t] = "ended"
  /\ pc' = [t \in Threads |-> "none"]
  /\ g_block_count' = BlocksNow.count
  /\ g_block_size' = BlocksNow.size
  /\ IF BlocksNow.count > 1
       THEN /\ phase' = "merge" /\ created' = 0 /\ g_next_block' = 0 /\ main' = "create"
       ELSE /\ main' = "sync" /\ UNCHANGED <<phase, created, g_next_block>>
  /\ UNCHANGED <<file, portionVars, block, tmp, runVars>>

\* msync(), and the portion is entered as a run.
EndPortion ==
  /\ main = "sync"
  /\ runs' = Append(runs, [offset |-> current_offset, nrecords |-> portion_recs])
  /\ current_offset' = current_offset + portion_recs
  /\ main' = "portion"
  /\ UNCHANGED <<file, portion_recs, poolVars, threadVars, new_runs>>

-----------------------------------------------------------------------------
(***************************************************************************)
(* external_merge(), pass by pass, and the end of main().                  *)
(***************************************************************************)
AllPortions ==
  /\ main = "portion"
  /\ current_offset >= RECORDS
  /\ main' = IF Len(runs) > 1 THEN "external" ELSE "done"
  /\ UNCHANGED <<file, portionVars, poolVars, threadVars, runVars>>

Joined(left, right) == [offset |-> left.offset, nrecords |-> left.nrecords + right.nrecords]

MergeRuns ==
  /\ main = "external"
  /\ Len(runs) >= 2
  /\ LET left == runs[1]
         right == runs[2]
     IN /\ file' = Replace(file, left.offset, left.nrecords + right.nrecords,
                           Merged(file, left.offset, left.nrecords, right.nrecords))
        /\ new_runs' = Append(new_runs, Joined(left, right))
  /\ runs' = SubSeq(runs, 3, Len(runs))
  /\ UNCHANGED <<main, portionVars, poolVars, threadVars>>

\* An odd run is carried over to the next pass.
CarryRun ==
  /\ main = "external"
  /\ Len(runs) = 1
  /\ new_runs' = Append(new_runs, runs[1])
  /\ runs' = <<>>
  /\ UNCHANGED <<file, main, portionVars, poolVars, threadVars>>

NextPass ==
  /\ main = "external"
  /\ runs = <<>>
  /\ main' = IF Len(new_runs) > 1 THEN "external" ELSE "done"
  /\ runs' = new_runs
  /\ new_runs' = <<>>
  /\ UNCHANGED <<file, portionVars, poolVars, threadVars>>

\* A barrier somebody waits at is in use.
BarrierInUse == \E t \in Threads : pc[t] \in {"wait_enter", "wait_leave"}

\* pthread_create() fails, and the barrier is destroyed.  POSIX does not say what that
\* does to one in use: the GNU library waits in pthread_barrier_destroy() since 2.25,
\* for threads that will never leave; others return, and the program fails.
FailCreate ==
  /\ main = "create"
  /\ \/ main' = "failed"
     \/ BarrierInUse /\ main' = "destroy"
  /\ UNCHANGED <<file, portionVars, poolVars, threadVars, runVars>>

\* open(), mmap(), malloc() or msync() fails, in the main thread or in merge_blocks():
\* EXIT_FAILURE.
Fail ==
  /\ \/ main \in {"portion", "sync", "external"}
     \/ main = "create" /\ created = 0
     \/ /\ main \in {"create", "join", "destroy"}
        /\ phase = "merge" /\ \E t \in Threads : pc[t] = "work"
  /\ main' = "failed"
  /\ UNCHANGED <<file, portionVars, poolVars, threadVars, runVars>>

Main ==
  \/ StartPortion \/ CreateThread \/ JoinThreads \/ EndPortion
  \/ AllPortions \/ MergeRuns \/ CarryRun \/ NextPass

Next == Main \/ FailCreate \/ Fail \/ \E t \in Threads : ThreadStep(t)

Spec == Init /\ [][Next]_vars

\* The scheduler runs the main thread and every thread of the pool.
Fairness == WF_vars(Main) /\ \A t \in Threads : WF_vars(ThreadStep(t))

FairSpec == Spec /\ Fairness

-----------------------------------------------------------------------------
(***************************************************************************)
(* Properties.                                                             *)
(***************************************************************************)

\* The variables keep the types of their C declarations, and what is computed with
\* them stays inside the file.
TypeOK ==
  /\ file \in [0 .. RECORDS - 1 -> Marks]
  /\ main \in {"portion", "create", "join", "sync", "external", "done", "failed", "destroy"}
  /\ current_offset \in 0 .. RECORDS
  /\ portion_recs \in 0 .. PORTION
  /\ phase \in {"sort", "merge"}
  /\ created \in 0 .. THREADS
  /\ g_block_count \in 1 .. BLOCKS
  /\ g_block_size \in 0 .. PORTION
  /\ g_next_block \in 0 .. BLOCKS
  /\ pc \in [Threads -> Labels]
  /\ block \in [Threads -> -1 .. BLOCKS - 1]
  /\ runs \in Seq(Run) /\ new_runs \in Seq(Run)

\* The records thread t has in hand.
Busy(t) == pc[t] \in {"work", "copy"}
Records(t) == Start(t) .. Start(t) + Length - 1

\* No two threads ever work on one record, nor on one outside the portion, although
\* nothing but the block counter keeps them apart.
RecordsApart ==
  \A t, u \in Threads :
    Busy(t) => /\ Records(t) \subseteq current_offset .. current_offset + portion_recs - 1
               /\ Busy(u) /\ t # u => Records(t) \cap Records(u) = {}

\* The program implements FileSort: no record is lost or made, and "File is fully
\* sorted" is true.
Sorter == INSTANCE FileSort WITH Places <- 0 .. RECORDS - 1, sorted <- (main = "done")
SortsFile == Sorter!Spec

\* The program comes to an end: the barriers let everybody go, whoever gets blocks.
\* Left out is a pthread_create() that fails while others wait at the barrier: nothing
\* ends the program when it waits for ever in pthread_barrier_destroy().
Ends == <>(main \in {"done", "failed", "destroy"})
=============================================================================
