---------------------------- MODULE Lab3Children ----------------------------
(***************************************************************************)
(* lab3/src/parent.c: a parent starts children, ends them with SIGKILL,    *)
(* and tells all of them with SIGUSR1 and SIGUSR2 whether they may print.  *)
(* A child samples two variables in the handler of a periodic timer, which *)
(* it creates and deletes in every iteration, and prints the statistics at *)
(* its end.                                                                *)
(*                                                                         *)
(* How the samples fall into the four classes does not matter here, only   *)
(* how many there are.  A signal is in the set of pending signals until    *)
(* its handler has run, between any two steps of the child; two that are   *)
(* pending together are handled in either order.                           *)
(*                                                                         *)
(* The parent never waits for a child: a pid is not used again.            *)
(***************************************************************************)
EXTENDS Integers, SequencesExt

CONSTANTS
  Pids,
  CYCLE_ITERATIONS_COUNT,   \* iterations of a child (5000)
  MAX_EXTRA_TICKS           \* bound of the model on the ticks beyond one per iteration

ASSUME IterationsAssumption == CYCLE_ITERATIONS_COUNT \in Nat
ASSUME TicksAssumption == MAX_EXTRA_TICKS \in Nat

SIGUSR1 == "SIGUSR1"
SIGUSR2 == "SIGUSR2"

VARIABLES
  main,            \* where the parent is
  quitting,        \* is it on its way out?
  allProcesses,    \* children in the order they were created
  next,            \* in allow_stdout_for_all(): the next to be told
  is_stdout_open,  \* the flag of the parent
  pc,              \* per child: where it is
  left,            \* iterations it has still to do
  contin,          \* is the iteration to end?
  timer,           \* is there a timer?
  samples,         \* sum of stat[]
  pending,         \* signals on their way
  open,            \* is_stdout_open of the child
  crossed          \* not in the program: did a signal overtake another, which
                   \* was not yet handled?

parentVars == <<main, quitting, allProcesses, next, is_stdout_open>>
timerVars == <<timer, samples>>
signalVars == <<pending, open, crossed>>
vars == <<parentVars, pc, left, contin, timerVars, signalVars>>

Labels == {"none", "forked", "start", "loop", "print", "exited", "killed",
           "terminated"}
Alive(p) == pc[p] \notin {"none", "exited", "killed", "terminated"}

Init ==
  /\ main = "command"
  /\ quitting = FALSE
  /\ allProcesses = <<>>
  /\ next = 1
  /\ is_stdout_open = TRUE
  /\ pc = [p \in Pids |-> "none"]
  /\ left = [p \in Pids |-> CYCLE_ITERATIONS_COUNT]
  /\ contin = [p \in Pids |-> FALSE]
  /\ timer = [p \in Pids |-> FALSE]
  /\ samples = [p \in Pids |-> 0]
  /\ pending = [p \in Pids |-> {}]
  /\ open = [p \in Pids |-> TRUE]
  /\ crossed = [p \in Pids |-> FALSE]

-----------------------------------------------------------------------------
(***************************************************************************)
(* The children.                                                           *)
(***************************************************************************)
Goto(p, label) == pc' = [pc EXCEPT ![p] = label]

\* signal_handlers().
InstallHandlers(p) ==
  /\ pc[p] = "forked"
  /\ Goto(p, "start")
  /\ UNCHANGED <<parentVars, left, contin, timerVars, signalVars>>

\* Seeded fault: contin keeps its value.
FaultStart(p) ==
  /\ pc[p] = "start"
  /\ IF left[p] = 0
       THEN Goto(p, "print") /\ UNCHANGED timer
       ELSE Goto(p, "loop") /\ timer' = [timer EXCEPT ![p] = TRUE]
  /\ UNCHANGED <<parentVars, left, contin, samples, signalVars>>

\* The test of the for loop; then contin = 0 and setup_timer().
Start(p) ==
  /\ pc[p] = "start"
  /\ IF left[p] = 0
       THEN Goto(p, "print") /\ UNCHANGED <<contin, timer>>
       ELSE /\ Goto(p, "loop")
            /\ contin' = [contin EXCEPT ![p] = FALSE]
            /\ timer' = [timer EXCEPT ![p] = TRUE]
  /\ UNCHANGED <<parentVars, left, samples, signalVars>>

\* Iterations that are over.
Done(p) == CYCLE_ITERATIONS_COUNT - left[p]

\* Seeded fault: the loop goes on.
FaultTick(p) ==
  /\ Alive(p)
  /\ timer[p]
  /\ samples[p] <= Done(p) + MAX_EXTRA_TICKS
  /\ samples' = [samples EXCEPT ![p] = @ + 1]
  /\ UNCHANGED <<parentVars, pc, left, contin, timer, signalVars>>

\* alarm_handler(), as often as the timer expires while it exists.
Tick(p) ==
  /\ Alive(p)
  /\ timer[p]
  /\ contin[p] => samples[p] <= Done(p) + MAX_EXTRA_TICKS
  /\ samples' = [samples EXCEPT ![p] = @ + 1]
  /\ contin' = [contin EXCEPT ![p] = TRUE]
  /\ UNCHANGED <<parentVars, pc, left, timer, signalVars>>

\* Seeded fault: the timer goes on.
FaultEndIteration(p) ==
  /\ pc[p] = "loop"
  /\ contin[p]
  /\ left' = [left EXCEPT ![p] = @ - 1]
  /\ Goto(p, "start")
  /\ UNCHANGED <<parentVars, contin, timer, samples, signalVars>>

\* The end of the while loop, whose body may not have been executed at all, and
\* timer_delete().
EndIteration(p) ==
  /\ pc[p] = "loop"
  /\ contin[p]
  /\ timer' = [timer EXCEPT ![p] = FALSE]
  /\ left' = [left EXCEPT ![p] = @ - 1]
  /\ Goto(p, "start")
  /\ UNCHANGED <<parentVars, contin, samples, signalVars>>

\* print_statistic(), if it may print, and exit().
PrintStatistic(p) ==
  /\ pc[p] = "print"
  /\ Goto(p, "exited")
  /\ pending' = [pending EXCEPT ![p] = {}]
  /\ UNCHANGED <<parentVars, left, contin, timerVars, open, crossed>>

\* Seeded fault: the two handlers are exchanged.
FaultHandle(p, signal) ==
  /\ Alive(p)
  /\ signal \in pending[p]
  /\ pending' = [pending EXCEPT ![p] = @ \ {signal}]
  /\ IF pc[p] = "forked" THEN Goto(p, "terminated") /\ UNCHANGED open
     ELSE open' = [open EXCEPT ![p] = (signal = SIGUSR2)] /\ UNCHANGED pc
  /\ UNCHANGED <<parentVars, left, contin, timerVars, crossed>>

\* sigusr1_handler() and sigusr2_handler().  Before they are installed the signals end
\* the child.
Handle(p, signal) ==
  /\ Alive(p)
  /\ signal \in pending[p]
  /\ pending' = [pending EXCEPT ![p] = @ \ {signal}]
  /\ IF pc[p] = "forked" THEN Goto(p, "terminated") /\ UNCHANGED open
     ELSE open' = [open EXCEPT ![p] = (signal = SIGUSR1)] /\ UNCHANGED pc
  /\ UNCHANGED <<parentVars, left, contin, timerVars, crossed>>

Child(p) ==
  \/ InstallHandlers(p) \/ Start(p) \/ EndIteration(p) \/ PrintStatistic(p)

Signals(p) == Handle(p, SIGUSR1) \/ Handle(p, SIGUSR2)

-----------------------------------------------------------------------------
(***************************************************************************)
(* The parent.                                                             *)
(***************************************************************************)
MayRead == main = "command" /\ ~quitting

\* "+": create_child().  The child inherits the flag.  The code does not look at the
\* length of allProcesses[]; the model has fewer Pids than it has entries.  Which of the
\* unused pids the child gets makes no difference.
UnusedPids == {p \in Pids : pc[p] = "none"}
CreateChild ==
  /\ MayRead
  /\ UnusedPids # {}
  /\ LET p == CHOOSE p \in UnusedPids : TRUE
     IN /\ Goto(p, "forked")
        /\ open' = [open EXCEPT ![p] = is_stdout_open]
        /\ allProcesses' = Append(allProcesses, p)
  /\ UNCHANGED <<main, quitting, next, is_stdout_open, left, contin, timerVars, pending, crossed>>

\* fork() fails: exit(1), and the children go on without a parent.
FailFork ==
  /\ MayRead
  /\ main' = "failed"
  /\ UNCHANGED <<quitting, allProcesses, next, is_stdout_open, pc, left, contin, timerVars,
                 signalVars>>

\* kill_last_process(): SIGKILL, to a child that may have ended already.
KillLastProcess ==
  /\ allProcesses # <<>>
  /\ LET p == Last(allProcesses)
     IN /\ IF Alive(p) THEN Goto(p, "killed") ELSE UNCHANGED pc
        /\ pending' = [pending EXCEPT ![p] = {}]
  /\ allProcesses' = Front(allProcesses)
  /\ UNCHANGED <<quitting, next, is_stdout_open, left, contin, timerVars, open, crossed>>

\* "-".
KillLast == MayRead /\ KillLastProcess /\ UNCHANGED main

\* "k" and "q": kill_all_processes().
KillAll ==
  /\ MayRead
  /\ main' = "kill_all"
  /\ quitting' \in BOOLEAN
  /\ UNCHANGED <<allProcesses, next, is_stdout_open, pc, left, contin, timerVars, signalVars>>

KillNext == main = "kill_all" /\ KillLastProcess /\ UNCHANGED main

KilledAll ==
  /\ main = "kill_all"
  /\ allProcesses = <<>>
  /\ main' = IF quitting THEN "done" ELSE "command"
  /\ UNCHANGED <<quitting, allProcesses, next, is_stdout_open, pc, left, contin, timerVars,
                 signalVars>>

\* "s" and "g": allow_stdout_for_all(), its own flag first.
Allow ==
  /\ MayRead
  /\ is_stdout_open' \in BOOLEAN
  /\ next' = 1
  /\ main' = "allow"
  /\ UNCHANGED <<quitting, allProcesses, pc, left, contin, timerVars, signalVars>>

\* One kill() after the other.  A child that has ended is still there to be sent a signal.
AllowNext ==
  /\ main = "allow"
  /\ next <= Len(allProcesses)
  /\ LET p == allProcesses[next]
         signal == IF is_stdout_open THEN SIGUSR1 ELSE SIGUSR2
     IN IF Alive(p)
          THEN /\ pending' = [pending EXCEPT ![p] = @ \cup {signal}]
               /\ crossed' = [crossed EXCEPT ![p] = pending[p] \ {signal} # {}]
          ELSE UNCHANGED <<pending, crossed>>
  /\ next' = next + 1
  /\ UNCHANGED <<main, quitting, allProcesses, is_stdout_open, pc, left, contin, timerVars, open>>

AllowedAll ==
  /\ main = "allow"
  /\ next > Len(allProcesses)
  /\ main' = "command"
  /\ UNCHANGED <<quitting, allProcesses, next, is_stdout_open, pc, left, contin, timerVars,
                 signalVars>>

\* What the parent does without being asked again.
Parent == KillNext \/ KilledAll \/ AllowNext \/ AllowedAll

Next ==
  \/ CreateChild \/ FailFork \/ KillLast \/ KillAll \/ Allow \/ Parent
  \/ \E p \in Pids : Child(p) \/ Tick(p) \/ Signals(p)

Spec == Init /\ [][Next]_vars

\* All processes are scheduled, timers expire and signals arrive.
FairSpec ==
  /\ Spec
  /\ WF_vars(Parent)
  /\ \A p \in Pids : WF_vars(Child(p)) /\ WF_vars(Tick(p)) /\ WF_vars(Signals(p))

-----------------------------------------------------------------------------
(***************************************************************************)
(* Properties.                                                             *)
(***************************************************************************)

\* Parent and children are in the states of their code.
TypeOK ==
  /\ main \in {"command", "kill_all", "allow", "done", "failed"}
  /\ quitting \in BOOLEAN
  /\ allProcesses \in Seq(Pids)
  /\ next \in 1 .. Len(allProcesses) + 1 \/ main # "allow"
  /\ is_stdout_open \in BOOLEAN
  /\ pc \in [Pids -> Labels]
  /\ left \in [Pids -> 0 .. CYCLE_ITERATIONS_COUNT]
  /\ contin \in [Pids -> BOOLEAN]
  /\ timer \in [Pids -> BOOLEAN]
  /\ samples \in [Pids -> Nat]
  /\ pending \in [Pids -> SUBSET {SIGUSR1, SIGUSR2}]
  /\ open \in [Pids -> BOOLEAN]
  /\ crossed \in [Pids -> BOOLEAN]

\* "Allowed stdout for all children", "Disallowed stdout for all children": a child that
\* has been told, and has handled it, has the flag of the parent, also when it was
\* created in between; unless one signal caught up with the other.
ToBeTold(p) == main = "allow" /\ \E i \in next .. Len(allProcesses) : allProcesses[i] = p
FlagFollowsParent ==
  \A p \in Pids :
    Alive(p) /\ pending[p] = {} /\ ~crossed[p] /\ ~ToBeTold(p) => open[p] = is_stdout_open

\* The statistics have a sample for each iteration at least, also for those whose loop
\* was over before it began: no tick of an earlier timer ends an iteration.
EveryIterationSampled ==
  \A p \in Pids : samples[p] + left[p] >= CYCLE_ITERATIONS_COUNT

\* No timer is left when the statistics are printed: they do not change any more.
StatisticsFinal ==
  [][\A p \in Pids : pc[p] \in {"print", "exited"} => samples'[p] = samples[p]]_vars

\* A child that goes on is in allProcesses[], where "-", "k", "q", "s" and "g" look for
\* their children, whatever was created and killed before.
ChildrenListed ==
  \A p \in Pids : Alive(p) => \E i \in 1 .. Len(allProcesses) : allProcesses[i] = p

\* "Parent: Exiting": no child goes on when the parent was told to quit.  That is all
\* there is: a parent that could not fork() says nothing and kills nobody.
NoChildLeft == main = "done" => \A p \in Pids : ~Alive(p)

\* A child comes to its end, whatever it is told.
ChildEnds == \A p \in Pids : (pc[p] = "forked") ~> ~Alive(p)
=============================================================================
