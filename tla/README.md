# Models of the OSISP laboratory programs

The repository holds eight laboratory programs on operating systems and one
utility, in C.  They share no code that runs together; each is a small system of
its own, of processes, threads, semaphores, locks, signals, sockets or files.  This
directory models those whose correctness depends on several actors, on interruptions
or on what one run leaves for the next, checks the models with TLC and proves what
matters most with TLAPS.

Paths in this file are relative to the repository.  `PROJECT.json` maps every
definition of a module to the lines it stands for, lists the runs, the seeded
faults each property detects, the hazards of the code and the theorems.

## 1. Inventory

| Part | What it is | State it keeps | Operations |
|---|---|---|---|
| `lab4` | A parent forks producer and consumer *processes* that share a ring in a System V segment under three System V semaphores | ring (`head`, `tail`, `count`, `free_space`, slots); semaphores `EL_COUNT`, `FREE_SPACE`, `QUEUE_ACCESS`; table `processes[]`/`processes_types[]`; a termination flag in each child | fork a producer or consumer, kill one with SIGUSR1 and wait for it, quit (SIGTERM to all, reap all, remove semaphores and segment), end of input |
| `lab5/5.1` | The same with *threads*, POSIX semaphores and a mutex; the ring can grow and shrink | ring (`head`, `tail`, `len`, `max_len`, array of pointers); `free_space_sem`, `items_sem`, `queue_mutex`; `producers_working[]`, `consumers_working[]` and the counters | create and close threads (with `pthread_cancel()` if nobody can wake the thread up), print, expand, reduce, quit, SIGINT |
| `lab5/5.2` | The same with two condition variables in place of the semaphores | ring as 5.1, but it may shrink to no slot; `free_space_cond`, `items_cond`, `queue_mutex`; the same tables | as 5.1, with broadcasts to whoever is to close |
| `lab6` | External sort of an index file by a pool of threads | memory-mapped portion; block counter, number and size of blocks; barrier; list of sorted runs | sort blocks, merge pairs of blocks, portion by portion, merge the runs; two more programs generate and print a file |
| `lab7` | Any number of editor processes on one file of records, with open-file-description locks | the file; locks; in each editor the record fetched, the record edited, an edit pending | fetch without a lock, edit, save under a lock if nobody else has changed the record, retry after a conflict |
| `lab8` | Line-oriented file server with a thread per client, and a client | per connection: socket, current directory; client: its prompt, what it waits for | ECHO, INFO, CD, LIST, QUIT; prompt after each command; client scripts |
| `lab3` | Children that sample a pair of variables on a real-time timer signal, a parent that starts, mutes and kills them | child: pair, counters, flags set by signals, a timer per iteration; parent: table of children, its own output flag | create, kill last, kill all, allow or disallow output for all, quit |
| `Access_manager` | Runs every program of a list over a copy of every file of a directory, and keeps the copies a program changed | a directory `copy` that outlives the program, also an interrupted one; hash of the copy; output collected per program | copy, hash, fork and wait, hash again and compare, collect and remove the output, remove an empty directory |
| `lab2` | Parent that runs children with a chosen environment | a counter for names | spawn a child |
| `lab1` | Recursive directory listing with filters | an array of names | walk, sort, print |

`Access_manager` and `Accessmanager` hold the same program, in two source files and
in one.

How the parts of a program interact, what is hard about them, and what makes
them correct:

* **lab4.** Children and parent meet in the segment, in the semaphores (both may
  block), through SIGUSR1/SIGTERM and `waitpid()`.  Hard: `semop()` can be
  interrupted and nobody looks at its result; a signal between the test of the
  flag and `semop()`; a consumer that uses its message after it gave back the
  slot; a table compacted by hand.  Correct when: children exclude each other in
  the ring; the two counting semaphores and the two counters agree; messages are
  whole and leave in order; the table lists the children; no token is lost; killing
  and quitting come to an end and leave nobody behind.
* **lab5/5.1.** The main thread reads and resizes what the workers use, cancels them
  inside `printf()` with the mutex locked, joins them, and leaves wherever SIGINT
  meets it.  Hard: the same agreement through creation, closing, cancelling,
  resizing and SIGINT; the ring's two conventions for `tail`; a test of the ring
  without the mutex that decides whether to cancel.  Correct when: tokens account
  for slots and messages; nothing is refused or lost; order is kept; commands come
  back.
* **lab5/5.2.** Threads wait in loops on conditions; the main thread broadcasts
  without the mutex, cancels threads that sleep on a condition and does not join
  them; a helper unlocks a mutex its caller may not hold.  Hard: lost broadcasts, a
  cancelled sleeper that takes the mutex back before it ends, the main thread as
  one more waiter on a condition, a ring of no slots.  Correct when: whoever leaves
  its wait loop is served; nobody sleeps on something nobody was told of; no thread
  outlives its entry unnoticed; commands come back.
* **lab6.** Threads take blocks from one counter and meet at barriers between
  phases.  Hard: nothing but the counter keeps the threads apart; the number and
  the size of the blocks change from pass to pass, and what the first portion leaves
  in the globals is what the next ones start from.  Correct when: threads never
  share a record, the result is in order and has the records it had, the program
  ends.
* **lab7.** Editors meet only in the file and its locks.  Hard: the record is
  read without a lock, possibly in the middle of a write; processes die with a
  lock.  Correct when: no update is lost, savers of a record exclude each other, a
  save ends.
* **lab8.** Client and server meet in a byte stream without message boundaries, and
  each believes that one `recv()` or one line ending in `>` tells it where the
  other is.  Hard: commands cut in two or glued together; text that looks like a
  prompt; a client that has gone, and SIGPIPE.  Correct when: each side waits only
  if the other will send; the prompt on the screen is that of the next command; one
  client does not end the sessions of the others.
* **lab3.** Signals meet the start-up and the loop of a child, the timer signal its
  iterations.  Hard: two signals pending together; a child forked between two of
  them; a tick that comes before the loop has begun, or of a timer that is being
  deleted.  Correct when: children have the flag of the parent, every iteration has
  a sample of its own, the statistics stand still while they are printed, every
  child can be reached and ends.
* **Access_manager.** The program, the program it runs and earlier runs of it meet in
  the directory `copy`.  Hard: different files and programs with one name for their
  copies, and a copy with the name of an output; an interruption between any two
  steps.  Correct when: changed copies are kept, everything else is cleared, also
  what an interrupted run has left, and results are those of this run.
* **lab2, lab1.** Sequential; nothing is shared after a fork.

## 2. Modules

| Module | Stands for | Extends / instantiates |
|---|---|---|
| `Lab4Queue` | `lab4/src/ring_buffer.c`, `message.c` | |
| `BoundedFifo` | the abstract message queue (a promise, no code) | |
| `Lab4Processes` | `lab4/src/main.c` | extends `Lab4Queue`, instantiates `BoundedFifo` |
| `Lab4Proofs` | theorems about lab4 | extends `Lab4Processes` |
| `Lab5Queue` | `lab5/5.1/src/queue.c` | |
| `Lab5Threads` | `lab5/5.1/src/main.c` | extends `Lab5Queue` |
| `Lab5Proofs` | theorems about lab5/5.1 | extends `Lab5Threads` |
| `Lab5Conditions` | `lab5/5.2/src/main.c`, and the lengths in `lab5/5.2/src/queue.c` | |
| `Lab5CondProofs` | theorems about lab5/5.2 | extends `Lab5Conditions` |
| `RecordStore` | the abstract compare-and-set store (a promise, no code) | |
| `Lab7Editor` | `lab7/src/editor.c` | instantiates `RecordStore` |
| `Lab7Proofs` | theorems about lab7 | extends `Lab7Editor` |
| `Lab6Records` | `lab6/src/sort_index.c`: `qsort()` and `merge_blocks()` on marks | |
| `FileSort` | the abstract sorter (a promise, no code) | |
| `Lab6Sort` | `lab6/src/sort_index.c`: main thread, pools, portions, runs | extends `Lab6Records`, instantiates `FileSort` |
| `Lab6Proofs` | theorems about lab6 | extends `Lab6Sort` |
| `Lab8Session` | `lab8/src/client.c`, `lab8/src/server.c` | |
| `Lab8Proofs` | theorems about lab8 | extends `Lab8Session` |
| `Lab3Children` | `lab3/src/parent.c` | |
| `Lab3Proofs` | theorems about lab3 | extends `Lab3Children` |
| `AccessManager` | `Access_manager/main.c`, `access_manager.c` | |
| `AccessProofs` | theorems about Access_manager | extends `AccessManager` |
| `MCLab4`, `MCLab5`, `MCLab5Cond`, `MCLab6`, `MCLab7`, `MCLab8`, `MCLab3`, `MCAccess` | symmetry sets and inputs for TLC | extend the above |

Each module also defines a few `Fault...` operators.  They are plausible mistakes
in the code they stand beside (an index that does not wrap, a token given to the
wrong side, an `if` in place of a `while`); no action uses them.  They exist to be
put in the place of the definition they stand beside, in order to see that the
properties notice; `PROJECT.json` ("mutants") says which property notices which.

### lab4

State.  `sem` is the three semaphore values, `queue` the segment, `processes` the
two parallel arrays up to `processes_count`, `ipc` the kernel objects that exist.
Per child: `status` (none, running, zombie), `role`, `pc`, `terminate_flag`, and
the locals `msg`, `seen` (fields loaded inside the ring), `ptr` (what `dequeue()`
returned).  A message is a value; a slot is its `body` and its `hash`, which are the
two parts a reader of a half-written slot can tell apart.

Actions.  A child's loop is one action per statement.  `semop()` is two: `WaitOwn`
and `WaitAccess` take a token or fall asleep, `WakeOwn` and `WakeAccess` wake up with
one.  `enqueue()` and `dequeue()` are a load and a store half, so that a broken
mutual exclusion would show as the data race it is (`Mixed`).  `Interrupt` is the
arrival of SIGUSR1: death before `signal()` was called, otherwise the flag, and
EINTR for a sleeper, which goes on as if it had its token, because
`wait_semaphore()` ignores the result.  `Signal` does nothing at `SEMVMX`
(ERANGE, ignored too).  The parent: `CreateProcess`, `KillProcess` and
`ReapVictim` (two halves of `kill_process()`), `Quit`, `Terminate`, `ReapAny`, `Exit`
(the parts of `cleanup_and_exit()`), `Fail` (end of input, failed fork).

### lab5/5.1

State.  `main` is where the main thread is, with `victim` (thread being joined) and
`slot` (slot being printed); `interrupted` and `forgotten` keep where SIGINT found it
and whom it was joining then; `count`, `working` and `cancelled` are the thread
tables; `pc` is a worker's statement; `queue_mutex` its owner; then the two
semaphores and the `queue`.

Actions.  `CheckWorking`, `SemWait`, `LockPush`/`LockPop`, `Unlock`, `SemPost` are a
worker's loop.  What happens under `queue_mutex` is one step up to the first
`printf()`: other threads that respect the mutex cannot tell, and the two places
that read the ring without it, `queue_print()` and the test in
`close_thread_by_ind()`, read single fields.  `ActOnCancel` is a cancelled thread that
ends in `sleep()`, in `sem_wait()` or in the `write()` behind `printf()`, where it
keeps the mutex.  Main thread: `CreateThread`, `Close` and `CloseAll` (up to
`pthread_join()`) and `Join`; `PrintFind` and `PrintRead` (test of a slot, use of the
message); `ReduceAsk`, `ReduceWait`, `ReduceQueue`; `ExpandAsk`, `ExpandQueue`,
`ExpandPost`; `Quit`, `Exit`.  `Interrupt` is SIGINT: the handler calls
`cleanup_and_exit()` and never returns, so that the main thread starts closing with
whatever it was doing half done, and with `queue_mutex` locked for good if it was
inside "r" or "e" (before or after their work).

`Lab5Queue` keeps the indices exactly as the code computes them.  After
`queue_reduce()` they may lie outside the array; a read there gives any pointer or
NULL and a write there is lost, which stands for the undefined behaviour.

### lab5/5.2

State.  The main thread and the tables are those of 5.1, except that a thread is
not its index: one that was cancelled is not joined, and may still be on its way when
its index has a new thread.  So threads have identities (`Tids`), `working` says which
of them an entry of `producers[]` or `consumers[]` stands for, and `entry` is the
`ind` a thread was started with.  Of the ring only `len` and `max_len` matter here.
`misused` is set when `checkTermProducer()` or `checkTermConsumer()` unlocks a mutex
another thread holds; what follows is undefined, and the model goes no further.
`queue_mutex = Departed` stands for an owner that will never unlock it.

Actions.  `Check`, `Sleep`, `Enter` (lock, or the end of `pthread_cond_wait()`, and the
test of the ring), `Flag` (the test of the working flag inside the wait loop), `Wait`,
`SpuriousWakeup`, `Act` (push or pop), `Signal` (signal and unlock), `Close` (the unlock
on the way out).  `pthread_cond_signal()` wakes any one of `Waiters`, to which the
main thread belongs while "r" waits for a slot.  `termination_handler()` runs on top of
that wait: `cut_wait` says whether the main thread then still is a waiter ("asleep",
and the next signal may go to it, for nothing) or has been woken and still is counted
inside `pthread_cond_wait()` ("woken").  `ActOnCancel` ends a cancelled thread
in `sleep()`, in `printf()` with the mutex in hand, or in `pthread_cond_wait()`, which
takes the mutex first.  Main thread: `CreateThread`, `CloseLast`, `Broadcast` (without
the mutex), `Join`, `ReduceAsk`/`ReduceWait`/`ReduceQueue`,
`ExpandAsk`/`ExpandQueue`/`ExpandSignal`, `Quit`, `Interrupt`, `CloseAll`, `Exit`
(which never returns from `pthread_cond_destroy()` if `cut_wait` is set: the thread that
calls it is the one it waits for).

### lab7

State.  `file`, `lock` (holder per record) and per editor `pc`, `last_rec_no`,
`orig_rec`, `work_rec`, `has_work`, as in the C globals.  A record has two halves,
`front` and `back`, because `read()` and `write()` of two processes may overlap.

Actions.  `BeginGet` and `EndGet` (the two halves of the unlocked read, then the
prompts), `Put` (the test for changes), `LockRec`, `Compare`, `WriteFront`,
`WriteBack`, `UnlockRec`, `Fail` (a system call fails at any of the points where the
code tests it), `Close` (exit or death anywhere; the kernel drops the lock) and
`Start`.

### lab6

State.  `file` is the marks of all records; `main` where the main thread is;
`current_offset` and `portion_recs` the portion; `g_block_count`, `g_block_size` and
`g_next_block` the globals of that name; `phase` which function the pool runs and
`created` how much of it there is; per thread `pc`, `block` and `tmp`; `runs` and
`new_runs` the two parts of the array `runs[]`, which `external_merge()` compacts in
place.

Actions.  Threads: `Enter` and `Leave` (the two barriers), `TakeBlock` and
`NoBlockLeft` (under `g_block_mutex`), `Work` and `Copy` (reading the records, writing
them back).  Main thread: `StartPortion`, `CreateThread`, `JoinThreads` (which also
starts the next merge pass), `EndPortion`, then `AllPortions`, `MergeRuns`,
`CarryRun`, `NextPass`; `Fail` is any call that fails, `FailCreate` a `pthread_create()`
that does.  The latter destroys the barrier, with threads waiting at it perhaps, which
is undefined: glibc waits for them since 2.25, for ever, so `main` may be left at
"destroy" while the threads there are go on working.

Records are counted, not bytes, and the eight bytes of the header are left out.
`merge_blocks()` is given in closed form: its loop compares the heads of two
blocks, so a record waits for all those in front of it, and whether `left[i]` comes
before `right[j]` depends on the largest marks up to each of them.  That is what
the loops do with blocks in any order, not only with sorted ones.

### lab8

State.  Per client: where it is (`client`), the line it shows as its prompt, what it
has sent that was not received (`toServer`), what it was sent and has not read
(`toClient`); per thread of the server: where it is, `cwd`, and the lines it has still
to send; `alive` is the server process, `reset` whether a client that is gone has
been sent something already.  A command and its newline are two tokens, because the
client sends them with two calls; a line keeps only what the two sides tell apart: a
prompt with its directory, `BYE`, text, text that ends in `>`.  `extra` and `dropped`
are history: answers beyond one per command, and commands that the server passed
over.

What becomes of a line that `recv()` cuts is up to its text, so it is a parameter:
`Cuts` names lines with the two parts they may be cut into, each of which is a line again
(`Fragments`) that the server may take for any command or for none, and that may be cut
again.  Directories are parameters as well.  `build_path()` compares the beginning of
the real path with the name of the root as strings, so that with the root `/srv/a`
`CD /../ab` finds `/srv/ab`, and what is cut off leaves `b` as the working directory;
such directories are `Beside`, those below the root `Tree` (`BuildPath`, `Changed`).

Actions.  Client: `Connect`, `ReadLine` (with `IsPrompt`), `ReadEnd`, `SendCommand`
and `SendNewline`, `EndOfInput`, `Kill`.  Server: `Accept` with the greeting, `Recv`,
which takes any number of tokens and may cut the next line in two, looks at the first
line it has and drops the rest, `Send` per line, `BrokenPipe` (SIGPIPE ends the whole
server), `RecvEnd`.

### lab3

State.  Parent: `allProcesses`, `is_stdout_open`, and `next`, which child
`allow_stdout_for_all()` has come to.  Child: `pc`, `left`
(iterations to go), `contin`, `timer`, `samples` (the sum of `stat[]`), `pending`
signals, `open` (its own flag).  `crossed` is history: was the last signal sent
while another one was still pending?

Actions.  Child: `InstallHandlers`, `Start` (the head of an iteration, up to
`setup_timer()`), `EndIteration` (with `timer_delete()`), `PrintStatistic`; `Tick` is the
timer's handler and `Handle` that of SIGUSR1 and SIGUSR2, between any two steps.
Parent: `CreateChild`, `FailFork` (`exit(1)` with the children alive), `KillLast`, `KillAll` with one `KillNext` per `kill()`, `Allow` with
one `AllowNext` per `kill()`.

### Access_manager

State.  `turn` is the pair of a file and a program the two loops have come to, `dir` the
contents of the directory `copy`, `before_hash` and `output` the variables of that
name.  A name is a sequence of parts, cut and appended as the code does, so that names
collide exactly where they do in the program.  `run` and `result` are history: how often
the program was started, and what became of each pair.

Actions.  `MakeDir`, `SkipPair`, `EmptyCopy` (a file that cannot be read), `CopyFile`,
`NotExecuted`, `ExecuteProgram` (the child opens the file for the output),
`ProgramSilent` and `Program` (what it does to its copy), `CompareHashes`,
`PrintOutputAndRemove`, `Finish`; `StartAgain` interrupts the program anywhere and
starts it again in the directory it left.

## 3. Runs

The programs wait for a user who may never type, and stop after quit; so all
configurations set `CHECK_DEADLOCK FALSE`.  That nobody waits for ever *without*
cause is what the liveness properties say.

Passing runs:

| Run | Instance | What it shows |
|---|---|---|
| `lab4_sync` | 3 processes, 2 slots, 2 messages; create, quit, end of input | `MutualExclusion` in the ring; semaphores and counters agree at every step (`SemaphoresCountQueue`); messages carry their own hash (`MessagesWhole`); the ring implements `BoundedFifo` (`FifoOrder`) |
| `lab4_kill` | 2 processes, 1 slot; create and kill; fair | no token is ever lost, though tokens may be minted (`TokensNeverLost`); the table lists exactly the children not reaped (`TableMatchesChildren`); while a child of the other kind runs, a sleeping child proceeds (`SleeperProceeds`) and `kill_process()` returns (`KillReturnsWithPartner`) |
| `lab5_resize` | 2 + 2 threads, ring of 2, 1 to 3 slots, 2 messages; all commands but "q", and SIGINT | every message has a token (`ItemsAgree`); free slots and their tokens do not drift apart but in one case (`SlackKept`); nobody is refused (`NeverRefused`); thread tables exact (`TableMatchesThreads`); FIFO order as long as the ring is not emptied (`OrderKept`) |
| `lab5_progress` | 2 + 1 threads, ring of 1 to 2 slots; all commands but "l", and SIGINT; fair | with the mutex in living hands and no token lost: closing returns while a thread of the other type runs (`CloseReturnsWithPartner`), and quit or SIGINT with at most one thread of each type end the program (`QuitCompletes`) |
| `lab5_conditions` | 2 thread identities for 2 producer entries and 1 consumer entry, ring of 0 to 1 slots; all commands and SIGINT; fair | whoever leaves its wait loop is served (`NeverRefused`); nobody sleeps on a slot or message that nobody was told of (`NoLostWakeup`); only cancelled threads outlive their entry (`OrphansCancelled`); closing, reducing and quitting come back, a lost broadcast included (`CloseReturns`, `ReduceReturns`, `QuitCompletes`) |
| `lab6_sort` | 2 threads, 8 blocks, 18 records in portions of 8, 8 and 2; every file of 15 large and 3 small marks; fair | threads keep to their own records (`RecordsApart`); the program implements `FileSort` (`SortsFile`) and ends unless a barrier in use was destroyed (`Ends`) |
| `lab7_editors` | 2 editors, 1 record, 2 values per half; fair | no update is lost (`NoLostUpdate`); saving implements `RecordStore` (`CompareAndSet`); a save ends once the other editor has stopped saving (`PutReturns`) |
| `lab8_session` | 2 clients, 2 commands of 8 kinds, one of them cut in up to three parts; one directory in the tree, one beside it; fair | answers and commands balance up to what is counted as too many or passed over (`AnswersBalance`); the prompt is that of the directory of the next command (`PromptIsCurrent`); clients that end in order do not end the server (`ServerSurvives`); a client gets its answer unless a command was passed over (`Answered`); sessions of clients that are gone end (`SessionEnds`) |
| `lab3_children` | 2 children of 2 iterations, 1 tick beyond one per iteration; all commands; fair | children have the flag of the parent (`FlagFollowsParent`); every iteration has a sample (`EveryIterationSampled`); the statistics stand still while they are printed (`StatisticsFinal`); children end (`ChildEnds`) |
| `access_manager` | 3 files, one unreadable, 3 programs, one with a path; started up to 3 times | a changed copy stays until its name is used again (`ChangedCopyKept`); a complete run clears what an interrupted one has left (`CompleteRunCleans`); results are those of this run, in order (`ResultsInOrder`) |

Bounds.  A counting error shows with one thread too many in one place, so two of a
kind on a ring of one or two slots reach all of: full, empty, wrapped around, a
sleeper on every semaphore, a second sleeper behind the first.  Three slots are
needed for a resize of a wrapped ring to have a middle.  `MAX_LEN` bounds how far a
ring grows, `SEMVMX` and `INT_MAX` are shrunk so that the limits are reached.
Process ids and thread identities are used again after their owner is gone, so short
tables see long histories.  Two messages are enough to tell order, one is enough
where only counting matters.

`Lab5Conditions`: with two identities a thread that was cancelled and is still on its
way meets its successor under the same index, and two producers compete with the main
thread for one condition.  The ring may shrink to nothing, from where only "e" leads
back.  Three identities take longer than a run should; the safety properties are
proved for any number.

In lab6, 8 blocks are the fewest two threads may have and give
three merge passes, the last with one thread idle; three portions give an odd run to
carry over, a run shorter than the others, and portions that start from what the
one before left in `g_block_count`.  Nothing in a merge depends on more than which
of two marks is larger, so two marks reveal a wrong order if any do (the zero-one
principle); three small ones lie in every combination of portions and blocks.

With two editors of one record every overlap of fetch and save occurs; records are
independent of one another, and the theorems speak of any number.

In lab8 two commands let one command be glued to the newline of the one before, or be
typed at a prompt that was none; more only repeat it.  One kind of line is cut, into a
blank and a rest that is cut again, into an unknown command and `QUIT`: parts that the
server passes over, answers, or obeys.  The theorems speak of any cuts.  In lab3 two children
differ in whether they were told already, two iterations in whether one went before.
In Access_manager the names are chosen so that two files share a copy, the output of
one program has the name of another's copy, and one copy cannot be opened; a second
start finds what an interrupted run left, a third what two of them left.

`Interchangeable` in `MCLab4` and `MCLab5` permutes process ids, or messages,
which the specifications do not distinguish; it is only used where no liveness is
checked.  The safety results that are proved (section 5) do not depend on these
bounds.

Fairness.
* lab4: running processes are scheduled (weak fairness of a child's next statement),
  and the kernel serves the sleepers of a semaphore in order (strong fairness of
  waking up).
* lab5/5.1: every thread is scheduled; a thread sleeps for seconds between two
  rounds, so one that waits for a semaphore or the mutex gets it if it is free again
  and again (strong fairness of acquiring).  `printf()` need not act on a
  cancellation, so nothing forces it there; `sem_wait()` does.
* lab5/5.2: the same for the mutex; and glibc signals those that came to a condition
  early before those that came late, so that no waiter is passed over for ever
  (strong fairness of being signalled, per waiter).
* lab6: the main thread and every thread of the pool are scheduled.
* lab7: a command in progress goes on and lock waiters are served in turn.
* lab8: the threads of the server and the clients are scheduled, and what was sent
  arrives.
* lab3: processes are scheduled, timers expire, signals are delivered.

Users never owe anything, and calls need not fail.

### Runs that show a disagreement

Each of these checks one property that a comment, a menu or a printed line of the
program states, and the code does not keep.

| Run | Property | What happens |
|---|---|---|
| `lab5_lost` | `PopFindsMessage` | after the ring was emptied once, `head` is past the next message, and the consumer gets NULL |
| `lab7_edit` | `UpdateIsAnEdit` | after a conflict the record is written back unchanged and reported as updated |

### What the weaker properties leave room for

Several properties state less than one would wish, because the code does not keep
the stronger form.  The models show each of these; they are described here
where the exception is written into the property.

* lab4, `KillReturnsWithPartner` needs a partner: SIGUSR1 may come between the test
  of the flag (`main.c:118`) and `semop()`; the child falls asleep, and the parent
  waits for it.
* lab4, `MessagesWhole` ends when the consumer signals `QUEUE_ACCESS_SEM`: it hashes
  the slot afterwards (`main.c:154`), when a producer may be writing to it, and may
  then print "Invalid hash!".
* lab4, `TokensNeverLost` says "at least": `wait_semaphore()` takes EINTR for a
  token, so with kills there may be more tokens than slots, `enqueue()` may refuse a
  message that is reported as added, and `SemaphoresCountQueue` is only stated without
  the "k" command.
* lab4, `cleanup_and_exit()` sends SIGTERM to the entries of `processes[]` and waits for
  every child.  That each of them has an entry is proved (`ShutdownReachesAll`); that
  SIGTERM then ends it is the kernel's, and not checked.  The semaphores are removed
  afterwards; the segment stays, for it would be removed if (`main.c:253`) `queue` were
  NULL.
* lab5/5.1, `OrderKept` excludes the step that empties the ring (`lab5_lost`) and a cut
  at the end of the array, where `queue_reduce()` may drop a slot with a message in it.
* lab5/5.1, `SlackKept` names the one case in which a token is lost for good without
  SIGINT: reducing a ring of one slot, which stays as it is.
* lab5/5.1, the progress properties assume that `queue_mutex` is not `Abandoned` (a
  thread cancelled in `printf()` keeps it, and so does SIGINT inside "r" or "e") and
  that no token is lost (SIGINT between the two halves of "r" or "e").
  `CloseReturnsWithPartner` assumes a partner: whether the victim must be cancelled is
  decided on a length read without the mutex, and the ring may fill up afterwards.
  `QuitCompletes` leaves out SIGINT during a join: the thread is `forgotten`, its
  counter never goes down, and the closing loop never ends.
* lab5/5.1, `PrintFind` and `PrintRead` are two steps between which a consumer may take
  and free the message that `queue_print()` is about to print; no property is stated
  about printing.
* lab5/5.2, all properties are stated up to `misused`.  `NoLostWakeup` and the
  liveness properties need the mutex in living hands: a thread cancelled in
  `pthread_cond_wait()` takes it and ends with it, because there is no clean-up
  handler.  They need a ring of some slots: on a ring of none a
  producer that missed its broadcast sleeps for good.  `NoLostWakeup` also leaves out
  `SignalCut`: SIGINT between queue and signal of "e", SIGINT after "r" was woken, and
  a signal that the main thread takes under the handler, while a producer may sleep on.
  `InTheWay` is SIGINT while a thread is being closed (as in 5.1) or while the main
  thread is counted inside `pthread_cond_wait()`, asleep or woken: then
  `pthread_cond_destroy()` waits for the main thread itself.
* lab8, `extra` and `dropped`: a command that arrives in parts is taken for as many
  commands, whatever its parts say; a newline and the next command that arrive together are
  taken for an empty line, and so is a line of blanks, to which the server says nothing
  while the client waits; a line of text that ends in ">" is taken for a prompt.
* lab8, `ServerSurvives` leaves out clients that were killed or that left an answer
  unread: the next line sent to them raises SIGPIPE, which ends the server with all
  its sessions.
* lab3, `FlagFollowsParent` leaves out `crossed` signals: two that are pending
  together are handled in an order of their own.  `ChildEnds` says "ends", not
  "prints": a signal before `signal_handlers()` ends the child.  A failed `fork()` ends the parent
  (`parent.c:128`) and leaves the children to their iterations.  The code
  does not look at the length of `allProcesses[100]`, and goes round for ever at the
  end of its input; the model has fewer children and a user who stops typing.
* lab6, `Ends` leaves out a `pthread_create()` that fails while threads wait at the
  barrier: the program may stay in `pthread_barrier_destroy()`
  (`sort_index.c:181`, `212`).
* lab6, `PoolAssumption` requires a thread: `main()` does not, and with 0 threads it
  sorts nothing and reports "File is fully sorted".  The length of a portion must be
  divisible by the number of blocks, but only the first portion is tested with the
  number the user gave; the others are sorted as a single block by one thread.
* Access_manager, `ChangedCopyKept` ends where the name is used again: files that
  differ in their extension only share a copy.  A program given with a path is skipped,
  because its copy cannot be opened, and "All files processed successfully."
  (`Access_manager/main.c:155`) is printed nevertheless.  A file that cannot be read
  leaves an empty copy.  `ResultsInOrder` leaves out a program that was once not
  executed at all (`fork()` failed): an output left by an earlier run is then taken for
  its own.

## 4. What is not modelled

* lab5/5.1 and 5.2: SIGINT between the steps of `create_thread()` or inside the
  sections of the working flags, which are single steps here.
* lab4: a second run of the program beside orphans of a first.
* lab6: the bytes of a portion (page alignment, header), and a process that dies in
  the middle of writing records back; generation and view of a file, which are
  sequential.
* lab7: a record that is cut off by the end of the file (`editor.c:52`); the file has
  whole records.
* lab8: symbolic links and `.` or `..` inside a path, but for what leads beside the root;
  the directory listing beyond what the server says, lines longer than the buffers,
  failing `socket()`, `bind()` and `accept()`.
* lab3: into which of its four classes a sample falls, which depends on timing by
  design.
* Access_manager: reading the arguments, a failing `mkdir()`, and printing the results.
* lab2, lab1: sequential programs that share nothing; a model would only repeat
  them.
* Build files, test data; printing, formatting, random choice of messages: they do
  not influence the properties.

## 5. Proofs

For every value of the constants allowed by the named assumptions (sizes of rings
and tables natural, and positive where the code divides by them; blanks and nobodies
outside the sets they are distinguished from):

* `Lab4Proofs`, for all commands: `TypeCorrect`; `TableKept`
  (`TableMatchesChildren`), by what `RemoveAt` leaves at each place of the table, and from
  it `ShutdownReachesAll`; `TokensKept` (`TokensNeverLost`),
  whose invariant `TokenInv` adds that a child that has ended outside the shutdown
  held nothing, so that its process id may be given away: the semaphores and the
  children that hold or owe a token cover the ring, also when EINTR or ERANGE
  changes the one without the other.
  Without "k" among the commands: `RingProtected` (mutual exclusion), `CountsAgree`
  (semaphores and counters), `NothingRefused`, `RingIsFifo` (the ring implements
  `BoundedFifo`) and `MessagesKept` (`MessagesWhole`).  Once "k" is used none of them
  holds, because a token may be minted.  The inductive invariant `SyncInv` adds to the
  properties that no signal was sent, that an unused process id holds nothing, that
  `QUEUE_ACCESS_SEM` is down exactly while one child is inside, and that what this
  child has loaded is what the ring holds.  The last two are what makes the split
  `enqueue()` atomic; counting arguments over the sets `Unspent` and `Unsignalled`
  give the agreement.  For the refinement, `HalfWritten` says that only the slot at
  `tail` may be half written, and a child's store half is the abstract `Put` or `Get`,
  all other steps stutter.
* `Lab5Proofs`: `TypeCorrect`, `TokensAgree`, `NoDrift`, `NothingRefused`,
  `TableKept` and `OrderIsKept` for all commands and SIGINT anywhere.  `NoDrift` is an action property
  about `Slack`, the free slots that no token stands for: each step is shown to move
  slots and tokens together.  `FreeSpaceCounted` follows: without "r" there is never
  any slack.  The inductive invariant `RingInv` is `Kinds` (types without a bound on
  the semaphores: that bound is a consequence of the agreement, not of any guard),
  `Table` (threads are the first `count` entries, the victim is the last one and
  alone may be cancelled, and the one SIGINT made the program forget stays where it
  was), `MutexKept` (in the critical section means holding the mutex, so a thread is
  counted once), `Asked` and `Tokens`.  `GoodRing` bounds the indices, which `Queue`
  alone does not make inductive: `queue_expand()` moves `head` up each time, so it
  must have been left behind by a longer array first.  `OrderIsKept` (`OrderKept`)
  writes the index of a slot without a remainder (`Place`: `head + k - 1`, or the length
  of the array less), after which each of push, pop, grow and shrink is a statement
  about slots one by one.
* `Lab5CondProofs`: `TypeCorrect`, `NeverRefusedHolds`, `OrphansAreCancelled`,
  `NoWakeupLost`, SIGINT included.  `TableInv` ties the counters to the flags and the
  flags to the threads, so that closing and creating find what they look for and no
  index leaves its array.  `SyncInv` says that whoever is past its test holds the
  mutex, up to `misused`, and that the test still holds then.  `OrphanInv` is
  `OrphansCancelled` with what it needs about the victim.  `WakeInv` is the lost-wakeup
  argument: `Aware` threads (woken, or about to signal) are counted against the slots
  or messages there are; whatever appears makes one more thread aware, and a thread
  falls asleep only while it holds the mutex and there is nothing.  The main thread is a
  sleeper like the others, also under the handler; `CutInv` (only SIGINT cuts a wait off)
  makes the exemption one that stays.
* `Lab6Proofs`, for any number of threads, blocks and records, any contents of the file
  and failing calls anywhere: `ThreadsApart` (`RecordsApart`), `TypeCorrect`, and
  `SortsTheFile` (`SortsFile`), that the program implements `FileSort`.
  The invariant `PoolInv` says that busy threads hold different blocks (`Claims`), that
  blocks and their size make up the portion exactly (`Whole`), and that the number of
  blocks divides `BLOCKS` (`Divided`).  The last is why `main()` insists on a power of
  two: a pass halves the number of blocks and doubles their size, which loses records
  when the number is odd.
  What `qsort()` and `merge_blocks()` return is proved from their definitions: the same
  marks as often as before (`SameMarks`) and in order (`QSortedSorts`, `MergedSorts`; a
  merge needs its two halves in order for the latter only).  Where one would use
  induction the lemmas take the least element of a set of numbers (`LeastOf`).
  `SortInv` adds to `PoolInv` the argument of the program: a block that was handed out
  and is in nobody's hands is in order (`Pieces`); what a thread has in hand is still
  what the file gives, because nobody else writes there (`InHand`); threads that have
  left the loop leave no block behind (`Aligned`); and runs in order lie end to end from
  the start of the file to the portion, those of the pass before those still to be merged
  (`Chained`, `RunsKept`).  So a portion is in order when it becomes a run, and the file
  when the program says so (`Relied`).  `Copy` and `MergeRuns` are the abstract
  `Rearrange`, the steps to "done" are `Finish`, and all others stutter.
  `PoolNeverStuck` is the safety part of `Ends`, for any number of threads: while the main
  thread joins, some thread is not waiting at a barrier, or all have ended.  `Barriers`
  says that no thread is beyond a barrier that another has still to reach.
* `Lab7Proofs`: `TypeCorrect`, `SaversExcluded`, `UpdatesKept` and
  `SaveIsCompareAndSet`, for any number of editors, records and values, with
  failures and deaths anywhere.  The inductive invariant `EditorInv` says that
  whoever is between lock and unlock holds the lock of a record it knows, and that
  between comparison and write the file still holds what was compared, half
  replaced after the first half.
* `Lab8Proofs`, for any number of clients, any commands, any directories in the tree and
  beside it, however `recv()` cuts the stream, again and again and whatever the parts are,
  and whoever is killed: `TypeCorrect`, `AnswersAreBalanced`
  (`AnswersBalance`), `PromptsAreCurrent` (`PromptIsCurrent`) and `TheServerSurvives`
  (`ServerSurvives`).  The last two are about sessions in which no answer was too many,
  and their invariant `InStep` needs the balance: it says that BYE is the last line,
  that every prompt under way is that of the working directory, and that the client's
  is when it waits for the user.  `Ended` says that the lines a thread has still to send
  end with one that ends the answer, `Quiet` that a client which ended by itself left
  the server nothing to answer, so that nothing is ever sent to it.  Counting rests on
  lemmas about the positions of a stream (`CountConcat`, `CountTail`) and on
  `ReceivedCounts`: what is received and what is left are what was under way, but for a
  line cut in two, which counts twice.  From the balance follows
  `NobodyWaitsInVain`: as long as no command was passed over, client and thread never
  both wait for what nobody has sent.
* `Lab3Proofs`: `TypeCorrect`, `FlagsAgree`, `IterationsSampled`, `StatisticsStay` and
  `AllListed` (every child that goes on is in `allProcesses[]`) and `NobodyLeft` (no
  child goes on when the parent was told to quit and has ended), for any number of
  children and iterations.  A parent that ends because `fork()` failed is not told to quit,
  and `AllListed` is all there is to say of its children.  `ListInv` is both.  `TimerInv`: a timer exists inside an iteration only, and a tick
  that ends one has left a sample.  `FlagInv`: what is on its way to a child that was
  told is the signal for the flag.
* `AccessProofs`: `TypeCorrect`, `CopiesKept` (`ChangedCopyKept`), `RunsClean`
  (`CompleteRunCleans`) and `ResultsAreInOrder` (`ResultsInOrder`), for any files and programs, whatever names they share, and any
  number of runs interrupted anywhere.  `Told` ties the results to the names, `AtCopy`
  says what is in the copy of the pair in hand, and `Accounted` that every name in the
  directory is a copy that is to stay or belongs to a pair the loops still come to; it
  holds again after a new start because a run comes to the same pairs as the one
  before.  `OthersStay` is the frame: a step touches the names of the pair in hand only.
  For the results, `AtOut` says what is in the output file of the pair in hand (nothing,
  or what this run of the program printed), and `Collected` that the outputs of earlier
  pairs were printed once each and in their order.

Every invariant, every action property but the temporal ones below, and both kinds of
refinement the runs check are proved.  Only model-checked: what depends on fairness
(`SleeperProceeds`, `KillReturnsWithPartner`, `CloseReturnsWithPartner`, both
`QuitCompletes`, `CloseReturns`, `ReduceReturns`, `Ends`, `PutReturns`, `Answered`,
`SessionEnds`, `ChildEnds`), which is outside the prover.  The proofs that need
induction over data use least elements, and counting is done with `Cardinality` of sets
of positions; no proof needs a recursive definition.

## 6. Plan

1. *Done*: models of lab4, lab5/5.1, lab5/5.2, lab6, lab7, lab8, lab3 and
   Access_manager; proofs of all their safety properties, lab4 and lab7 up to the
   refinement of `BoundedFifo` and `RecordStore`, lab6 up to that of `FileSort`.
2. The same kind of theorem elsewhere: that threads of lab5/5.2 that sleep are never
   all there is to wake them, and what a child of lab4 that waits in `semop()` waits for.
