----------------------------- MODULE Lab3Proofs -----------------------------
(***************************************************************************)
(* Proofs about Lab3Children, for any number of children and iterations,   *)
(* and any order of signals, ticks and commands.                           *)
(***************************************************************************)
EXTENDS Lab3Children, SequenceTheorems, TLAPS

\* What kill_last_process() leaves of allProcesses[].
LEMMA FrontIs ==
  ASSUME NEW s \in Seq(Pids), s # <<>>
  PROVE  /\ Len(s) \in Nat \ {0} /\ Last(s) = s[Len(s)] /\ Last(s) \in Pids
         /\ Front(s) \in Seq(Pids) /\ Len(Front(s)) = Len(s) - 1
         /\ \A i \in 1 .. Len(s) - 1 : Front(s)[i] = s[i]
<1>1. Len(s) \in Nat \ {0} /\ Last(s) = s[Len(s)] /\ Last(s) \in Pids
  BY EmptySeq, LenProperties DEF Last
<1> DEFINE n == Len(s) - 1
<1>2. 1 \in Int /\ n \in Int /\ \A i \in 1 .. n : s[i] \in Pids
  BY <1>1, LenProperties
<1>3. /\ SubSeq(s, 1, n) \in Seq(Pids)
      /\ Len(SubSeq(s, 1, n)) = IF 1 <= n THEN n - 1 + 1 ELSE 0
      /\ \A i \in 1 .. n - 1 + 1 : SubSeq(s, 1, n)[i] = s[1 + i - 1]
  <2> HIDE DEF n
  <2>1. QED
    BY <1>2, SubSeqProperties
<1>4. n >= 0 /\ n - 1 + 1 = n /\ \A i \in 1 .. n : 1 + i - 1 = i
  BY <1>1
<1>5. QED
  BY <1>1, <1>3, <1>4 DEF Front

-----------------------------------------------------------------------------
(***************************************************************************)
(* The invariant.  Every child that goes on is in allProcesses[], so that  *)
(* "s", "g", "k" and "q" reach it.                                         *)
(***************************************************************************)
ListInv == /\ ChildrenListed /\ NoChildLeft
           /\ \A p \in Pids : pc[p] = "none" => pending[p] = {} /\ ~timer[p]

\* A timer exists inside an iteration only; a tick that ends it has left a sample.
One(b) == IF b THEN 1 ELSE 0
TimerInv == \A p \in Pids :
  /\ Alive(p) /\ timer[p] => pc[p] = "loop"
  /\ pc[p] = "loop" => left[p] >= 1
  /\ samples[p] + left[p] >= CYCLE_ITERATIONS_COUNT + One(contin[p] /\ pc[p] = "loop")

\* The signal on its way to a child that has been told is the one for the flag.
Signal == IF is_stdout_open THEN SIGUSR1 ELSE SIGUSR2
FlagInv == \A p \in Pids :
  Alive(p) /\ ~crossed[p] /\ ~ToBeTold(p) =>
    IF pending[p] = {} THEN open[p] = is_stdout_open ELSE pending[p] = {Signal}

Inv == TypeOK /\ ListInv /\ TimerInv /\ FlagInv

\* Whether the iteration is over or not, the earlier ones have their samples.
LEMMA BoundHolds ==
  ASSUME Inv, NEW p \in Pids
  PROVE  /\ samples[p] \in Nat /\ left[p] \in Nat /\ CYCLE_ITERATIONS_COUNT \in Nat
         /\ samples[p] + left[p] >= CYCLE_ITERATIONS_COUNT
<1>1. /\ samples[p] \in Nat /\ left[p] \in Nat /\ CYCLE_ITERATIONS_COUNT \in Nat
  BY IterationsAssumption DEF Inv, TypeOK
<1>2. /\ samples[p] + left[p] >= CYCLE_ITERATIONS_COUNT + One(contin[p] /\ pc[p] = "loop")
      /\ One(contin[p] /\ pc[p] = "loop") \in {0, 1}
  BY DEF Inv, TimerInv, One
<1>3. QED
  BY <1>1, <1>2

\* A step of one child that leaves the parent alone.
LEMMA ChildStep ==
  ASSUME Inv, NEW p \in Pids, UNCHANGED parentVars, Alive(p),
         TypeOK', pc'[p] # "none", UNCHANGED crossed,
         \A q \in Pids \ {p} : /\ pc'[q] = pc[q] /\ left'[q] = left[q] /\ contin'[q] = contin[q]
                               /\ timer'[q] = timer[q] /\ samples'[q] = samples[q]
                               /\ pending'[q] = pending[q] /\ open'[q] = open[q],
         /\ Alive(p)' /\ timer'[p] => pc'[p] = "loop"
         /\ pc'[p] = "loop" => left'[p] >= 1
         /\ samples'[p] + left'[p] >= CYCLE_ITERATIONS_COUNT + One(contin'[p] /\ pc'[p] = "loop"),
         \/ UNCHANGED <<pending, open>>
         \/ ~Alive(p)'
         \/ \E s \in pending[p] : pending'[p] = pending[p] \ {s} /\ open'[p] = (s = SIGUSR1)
  PROVE  Inv'
<1> USE DEF parentVars
<1>1. main # "done"
  BY DEF Inv, TypeOK, ListInv, NoChildLeft
<1>2. ListInv'
  BY <1>1 DEF Inv, ListInv, ChildrenListed, NoChildLeft, Alive
<1>3. TimerInv'
  BY DEF Inv, TimerInv, Alive
<1>4. FlagInv'
  <2>1. ASSUME NEW q \in Pids, Alive(q)', ~crossed'[q], ~ToBeTold(q)'
        PROVE  IF pending'[q] = {} THEN open'[q] = is_stdout_open' ELSE pending'[q] = {Signal'}
    <3>1. ~crossed[q] /\ ~ToBeTold(q)
      BY <2>1 DEF ToBeTold
    <3>2. CASE q # p
      BY <2>1, <3>1, <3>2 DEF Inv, FlagInv, Alive, Signal
    <3>3. CASE q = p
      <4>1. IF pending[p] = {} THEN open[p] = is_stdout_open ELSE pending[p] = {Signal}
        BY <3>1, <3>3 DEF Inv, FlagInv
      <4>2. CASE UNCHANGED <<pending, open>>
        BY <3>3, <4>1, <4>2 DEF Signal
      <4>3. CASE \E s \in pending[p] : pending'[p] = pending[p] \ {s} /\ open'[p] = (s = SIGUSR1)
        <5>1. pending'[p] = {} /\ open'[p] = (Signal = SIGUSR1)
          BY <4>1, <4>3
        <5>2. (Signal = SIGUSR1) = is_stdout_open
          BY DEF Signal, SIGUSR1, SIGUSR2, Inv, TypeOK
        <5>3. QED
          BY <3>3, <5>1, <5>2
      <4>4. QED
        BY <2>1, <3>3, <4>2, <4>3
    <3>4. QED
      BY <3>2, <3>3
  <2>2. QED
    BY <2>1 DEF FlagInv
<1>5. QED
  BY <1>2, <1>3, <1>4 DEF Inv

\* The steps of a child.
LEMMA ChildSteps ==
  ASSUME Inv, NEW p \in Pids, Child(p) \/ Tick(p) \/ Signals(p)
  PROVE  Inv'
<1> USE DEF parentVars, timerVars, signalVars, Labels
<1>1. /\ pc \in [Pids -> Labels] /\ left \in [Pids -> 0 .. CYCLE_ITERATIONS_COUNT]
      /\ contin \in [Pids -> BOOLEAN] /\ timer \in [Pids -> BOOLEAN] /\ samples \in [Pids -> Nat]
      /\ pending \in [Pids -> SUBSET {SIGUSR1, SIGUSR2}] /\ open \in [Pids -> BOOLEAN]
      /\ CYCLE_ITERATIONS_COUNT \in Nat
  BY IterationsAssumption DEF Inv, TypeOK
<1>2. /\ Alive(p) /\ timer[p] => pc[p] = "loop"
      /\ pc[p] = "loop" => left[p] >= 1
      /\ samples[p] + left[p] >= CYCLE_ITERATIONS_COUNT + One(contin[p] /\ pc[p] = "loop")
  BY DEF Inv, TimerInv
<1>3. CASE InstallHandlers(p)
  <2>1. TypeOK'
    BY <1>1, <1>3 DEF InstallHandlers, Goto, Inv, TypeOK
  <2>2. QED
    BY <1>1, <1>2, <1>3, <2>1, ChildStep DEF InstallHandlers, Goto, Alive, One
<1>4. CASE Start(p)
  <2>1. TypeOK'
    BY <1>1, <1>2, <1>4 DEF Start, Goto, Alive, Inv, TypeOK
  <2>2. QED
    BY <1>1, <1>2, <1>4, <2>1, ChildStep DEF Start, Goto, Alive, One
<1>5. CASE EndIteration(p)
  <2>1. TypeOK'
    BY <1>1, <1>2, <1>5 DEF EndIteration, Goto, Alive, Inv, TypeOK
  <2>2. /\ pc'[p] = "start" /\ ~timer'[p] /\ samples'[p] = samples[p] /\ left'[p] = left[p] - 1
        /\ pc[p] = "loop" /\ contin[p]
    BY <1>1, <1>5 DEF EndIteration, Goto
  <2>3. samples'[p] + left'[p] >= CYCLE_ITERATIONS_COUNT + One(contin'[p] /\ pc'[p] = "loop")
    BY <1>1, <1>2, <2>2 DEF One
  <2>4. QED
    BY <1>1, <1>5, <2>1, <2>2, <2>3, ChildStep DEF EndIteration, Goto, Alive
<1>6. CASE PrintStatistic(p)
  <2>1. TypeOK'
    BY <1>1, <1>2, <1>6 DEF PrintStatistic, Goto, Alive, Inv, TypeOK
  <2>2. QED
    BY <1>1, <1>2, <1>6, <2>1, ChildStep DEF PrintStatistic, Goto, Alive, One
<1>7. CASE Tick(p)
  <2>1. TypeOK'
    BY <1>1, <1>2, <1>7 DEF Tick, Alive, Inv, TypeOK
  <2>2. /\ pc'[p] = "loop" /\ pc[p] = "loop" /\ samples'[p] = samples[p] + 1 /\ left'[p] = left[p]
    BY <1>1, <1>2, <1>7 DEF Tick
  <2>3. /\ samples'[p] + left'[p] >= CYCLE_ITERATIONS_COUNT + One(contin'[p] /\ pc'[p] = "loop")
        /\ left'[p] >= 1
    BY <1>1, <1>2, <2>2 DEF One
  <2>4. QED
    BY <1>1, <1>7, <2>1, <2>2, <2>3, ChildStep DEF Tick, Alive
<1>8. ASSUME NEW signal \in {SIGUSR1, SIGUSR2}, Handle(p, signal)
      PROVE  Inv'
  <2>1. TypeOK'
    BY <1>1, <1>8 DEF Handle, Goto, Inv, TypeOK
  <2>2. QED
    BY <1>1, <1>2, <1>8, <2>1, ChildStep DEF Handle, Goto, Alive, One
<1>9. QED
  BY <1>3, <1>4, <1>5, <1>6, <1>7, <1>8 DEF Child, Signals

\* The end of a child for the parent: kill_last_process().
LEMMA KillStep ==
  ASSUME Inv, KillLastProcess, UNCHANGED main, main \in {"command", "kill_all"}
  PROVE  Inv'
<1> USE DEF Goto
<1>1. PICK p \in Pids : p = Last(allProcesses)
  BY FrontIs DEF KillLastProcess, Inv, TypeOK
<1>2. /\ allProcesses' = Front(allProcesses) /\ allProcesses # <<>> /\ allProcesses \in Seq(Pids)
      /\ pc' = IF Alive(p) THEN [pc EXCEPT ![p] = "killed"] ELSE pc
      /\ pending' = [pending EXCEPT ![p] = {}]
      /\ UNCHANGED <<quitting, next, is_stdout_open, left, contin, timerVars, open, crossed>>
  BY <1>1 DEF KillLastProcess, Inv, TypeOK
<1>3. TypeOK'
  BY <1>2, FrontIs DEF Inv, TypeOK, Labels, timerVars
<1>4. \A q \in Pids \ {p} : pc'[q] = pc[q] /\ pending'[q] = pending[q]
  BY <1>2 DEF Inv, TypeOK
<1>5. ~Alive(p)' /\ pending'[p] = {} /\ (pc[p] = "none" => pc'[p] = "none")
  BY <1>2 DEF Inv, TypeOK, Alive
<1>6. ListInv'
  <2>1. ASSUME NEW q \in Pids, Alive(q)'
        PROVE  \E i \in 1 .. Len(allProcesses') : allProcesses'[i] = q
    <3>1. q # p /\ Alive(q)
      BY <1>4, <1>5, <2>1 DEF Alive
    <3>2. PICK i \in 1 .. Len(allProcesses) : allProcesses[i] = q
      BY <3>1 DEF Inv, ListInv, ChildrenListed
    <3>3. i \in 1 .. Len(allProcesses) - 1
      BY <1>1, <1>2, <3>1, <3>2, FrontIs
    <3>4. QED
      BY <1>2, <3>2, <3>3, FrontIs
  <2>2. QED
    BY <1>2, <1>4, <1>5, <2>1 DEF Inv, TypeOK, ListInv, ChildrenListed, NoChildLeft, timerVars
<1>7. TimerInv'
  <2>1. pc'[p] # "loop"
    BY <1>5 DEF Alive
  <2>2. samples'[p] + left'[p] >= CYCLE_ITERATIONS_COUNT + One(contin'[p] /\ pc'[p] = "loop")
    BY <1>2, <2>1, BoundHolds DEF timerVars, One
  <2>3. QED
    BY <1>2, <1>4, <1>5, <2>1, <2>2 DEF Inv, TimerInv, Alive, timerVars
<1>8. FlagInv'
  <2>1. \A q \in Pids : ~ToBeTold(q)
    BY DEF ToBeTold
  <2>2. QED
    BY <1>2, <1>4, <1>5, <2>1 DEF Inv, FlagInv, Alive, Signal
<1>9. QED
  BY <1>3, <1>6, <1>7, <1>8 DEF Inv

\* create_child(): the child has the flag the parent has at that moment.
LEMMA CreateStep ==
  ASSUME Inv, CreateChild
  PROVE  Inv'
<1>1. PICK p \in Pids : /\ pc[p] = "none" /\ pc' = [pc EXCEPT ![p] = "forked"]
                        /\ open' = [open EXCEPT ![p] = is_stdout_open]
                        /\ allProcesses' = Append(allProcesses, p)
  BY DEF CreateChild, UnusedPids, Goto
<1>2. /\ main = "command"
      /\ UNCHANGED <<main, quitting, next, is_stdout_open, left, contin, timer, samples, pending, crossed>>
  BY DEF CreateChild, MayRead, timerVars
<1>3. /\ allProcesses \in Seq(Pids) /\ Append(allProcesses, p) \in Seq(Pids)
      /\ Len(Append(allProcesses, p)) = Len(allProcesses) + 1 /\ Len(allProcesses) \in Nat
      /\ \A i \in 1 .. Len(allProcesses) : Append(allProcesses, p)[i] = allProcesses[i]
      /\ Append(allProcesses, p)[Len(allProcesses) + 1] = p
  BY AppendProperties, LenProperties DEF Inv, TypeOK
<1>4. TypeOK'
  BY <1>1, <1>2, <1>3 DEF Inv, TypeOK, Labels
<1>5. /\ \A q \in Pids \ {p} : pc'[q] = pc[q] /\ open'[q] = open[q]
      /\ pc'[p] = "forked" /\ open'[p] = is_stdout_open
  BY <1>1 DEF Inv, TypeOK
<1>6. ListInv'
  <2>1. ASSUME NEW q \in Pids, Alive(q)'
        PROVE  \E i \in 1 .. Len(allProcesses') : allProcesses'[i] = q
    <3>1. CASE q = p
      BY <1>1, <1>3, <3>1
    <3>2. CASE q # p
      <4>1. PICK i \in 1 .. Len(allProcesses) : allProcesses[i] = q
        BY <1>5, <2>1, <3>2 DEF Inv, ListInv, ChildrenListed, Alive
      <4>2. QED
        BY <1>1, <1>3, <4>1
    <3>3. QED
      BY <3>1, <3>2
  <2>2. QED
    BY <1>2, <1>5, <2>1 DEF Inv, ListInv, ChildrenListed, NoChildLeft
<1>7. TimerInv'
  <2>1. \A q \in Pids : Alive(q)' /\ timer'[q] => pc'[q] = "loop"
    <3>1. ~timer[p]
      BY <1>1 DEF Inv, ListInv
    <3>2. QED
      BY <1>2, <1>5, <3>1 DEF Inv, TimerInv, Alive
  <2>2. QED
    <3>1. samples'[p] + left'[p] >= CYCLE_ITERATIONS_COUNT + One(contin'[p] /\ pc'[p] = "loop")
      BY <1>2, <1>5, BoundHolds DEF One
    <3>2. QED
      BY <1>2, <1>5, <2>1, <3>1 DEF Inv, TimerInv
<1>8. FlagInv'
  <2>1. pending[p] = {} /\ \A q \in Pids : ~ToBeTold(q)
    BY <1>1, <1>2 DEF Inv, ListInv, ToBeTold
  <2>2. QED
    BY <1>2, <1>5, <2>1 DEF Inv, FlagInv, Alive, Signal
<1>9. QED
  BY <1>4, <1>6, <1>7, <1>8 DEF Inv

\* allow_stdout_for_all(): the flag first, then one kill() after the other.
LEMMA AllowStep ==
  ASSUME Inv, Allow \/ AllowNext \/ AllowedAll
  PROVE  Inv'
<1>1. UNCHANGED <<quitting, allProcesses, pc, left, contin, timer, samples, open>>
  BY DEF Allow, AllowNext, AllowedAll, timerVars, signalVars
<1>2. main # "done" /\ main' # "done" /\ Len(allProcesses) \in Nat
  BY LenProperties DEF Allow, AllowNext, AllowedAll, MayRead, Inv, TypeOK
<1>3. TypeOK'
  <2>1. main' \in {"allow", "command"} /\ is_stdout_open' \in BOOLEAN
        /\ (next' \in 1 .. Len(allProcesses) + 1 \/ main' # "allow")
    BY <1>2 DEF Allow, AllowNext, AllowedAll, MayRead, Inv, TypeOK
  <2>2. pending' \in [Pids -> SUBSET {SIGUSR1, SIGUSR2}] /\ crossed' \in [Pids -> BOOLEAN]
    <3>1. CASE Allow \/ AllowedAll
      BY <3>1 DEF Allow, AllowedAll, Inv, TypeOK, signalVars
    <3>2. CASE AllowNext
      <4>1. Signal \in {SIGUSR1, SIGUSR2}
        BY DEF Signal
      <4>2. next \in 1 .. Len(allProcesses)
        BY <1>2, <3>2 DEF AllowNext, Inv, TypeOK
      <4>3. PICK p \in Pids : p = allProcesses[next]
        BY <4>2, ElementOfSeq DEF Inv, TypeOK
      <4>4. CASE Alive(p)
        <5>1. /\ pending' = [pending EXCEPT ![p] = @ \cup {Signal}]
              /\ crossed' = [crossed EXCEPT ![p] = pending[p] \ {Signal} # {}]
          BY <3>2, <4>3, <4>4 DEF AllowNext, Signal
        <5>2. pending' \in [Pids -> SUBSET {SIGUSR1, SIGUSR2}]
          BY <4>1, <5>1 DEF Inv, TypeOK
        <5>3. (pending[p] \ {Signal} # {}) \in BOOLEAN /\ crossed \in [Pids -> BOOLEAN]
          BY DEF Inv, TypeOK
        <5>4. crossed' \in [Pids -> BOOLEAN]
          BY <5>1, <5>3
        <5>5. QED
          BY <5>2, <5>4
      <4>5. CASE ~Alive(p)
        BY <3>2, <4>3, <4>5 DEF AllowNext, Inv, TypeOK
      <4>6. QED
        BY <4>4, <4>5
    <3>3. QED
      BY <3>1, <3>2
  <2>3. QED
    BY <1>1, <2>1, <2>2 DEF Inv, TypeOK
<1>4. ListInv'
  <2>1. \A p \in Pids : pc[p] = "none" => pending'[p] = pending[p]
    BY DEF Allow, AllowNext, AllowedAll, Inv, TypeOK, signalVars, Alive
  <2>2. QED
    BY <1>1, <1>2, <2>1 DEF Inv, ListInv, ChildrenListed, NoChildLeft, Alive
<1>5. TimerInv'
  BY <1>1 DEF Inv, TimerInv, Alive
<1>6. FlagInv'
  <2>1. CASE Allow
    <3>1. \A p \in Pids : Alive(p) => ToBeTold(p)'
      BY <1>1, <2>1 DEF Allow, Inv, ListInv, ChildrenListed, ToBeTold
    <3>2. QED
      BY <1>1, <3>1 DEF FlagInv, Alive
  <2>2. CASE AllowedAll
    <3>1. \A p \in Pids : ~ToBeTold(p)
      BY <1>2, <2>2 DEF AllowedAll, ToBeTold, Inv, TypeOK
    <3>2. QED
      BY <1>1, <2>2, <3>1 DEF AllowedAll, Inv, FlagInv, Alive, Signal, signalVars
  <2>3. CASE AllowNext
    <3>1. main = "allow" /\ next \in 1 .. Len(allProcesses) /\ next' = next + 1
          /\ UNCHANGED <<main, is_stdout_open>>
      BY <1>2, <2>3 DEF AllowNext, Inv, TypeOK
    <3>2. PICK p \in Pids : p = allProcesses[next]
      BY <3>1, ElementOfSeq DEF Inv, TypeOK
    <3>3. \A q \in Pids \ {p} : pending'[q] = pending[q] /\ crossed'[q] = crossed[q]
      BY <2>3, <3>2 DEF AllowNext, Inv, TypeOK
    <3>4. \A q \in Pids \ {p} : ToBeTold(q) => ToBeTold(q)'
      <4>1. ASSUME NEW q \in Pids \ {p}, ToBeTold(q)
            PROVE  ToBeTold(q)'
        <5>1. PICK i \in next .. Len(allProcesses) : allProcesses[i] = q
          BY <4>1 DEF ToBeTold
        <5>2. i \in next + 1 .. Len(allProcesses)
          BY <3>1, <3>2, <1>2, <5>1
        <5>3. QED
          BY <1>1, <3>1, <5>1, <5>2 DEF ToBeTold
      <4>2. QED
        BY <4>1
    <3>5. ASSUME Alive(p), ~crossed'[p]
          PROVE  pending'[p] = {Signal}
      <4>1. pending'[p] = pending[p] \cup {Signal} /\ crossed'[p] = (pending[p] \ {Signal} # {})
        BY <2>3, <3>2, <3>5 DEF AllowNext, Signal, Inv, TypeOK
      <4>2. QED
        BY <3>5, <4>1
    <3>6. Signal' = Signal
      BY <3>1 DEF Signal
    <3>7. ASSUME NEW q \in Pids, Alive(q)', ~crossed'[q], ~ToBeTold(q)'
          PROVE  IF pending'[q] = {} THEN open'[q] = is_stdout_open' ELSE pending'[q] = {Signal'}
      <4>1. CASE q = p
        BY <1>1, <3>5, <3>6, <3>7, <4>1 DEF Alive
      <4>2. CASE q # p
        <5>1. Alive(q) /\ ~crossed[q] /\ ~ToBeTold(q)
          BY <1>1, <3>3, <3>4, <3>7, <4>2 DEF Alive
        <5>2. QED
          BY <1>1, <3>1, <3>3, <3>6, <4>2, <5>1 DEF Inv, FlagInv
      <4>3. QED
        BY <4>1, <4>2
    <3>8. QED
      BY <3>7 DEF FlagInv
  <2>4. QED
    BY <2>1, <2>2, <2>3
<1>7. QED
  BY <1>3, <1>4, <1>5, <1>6 DEF Inv

\* "k" and "q", before the first and after the last SIGKILL, and a fork() that fails.
LEMMA KillAllStep ==
  ASSUME Inv, KillAll \/ KilledAll \/ FailFork
  PROVE  Inv'
<1>1. /\ UNCHANGED <<allProcesses, next, is_stdout_open, pc, left, contin, timer, samples, pending,
                     open, crossed>>
      /\ main # "allow" /\ main' \in {"kill_all", "done", "command", "failed"} /\ quitting' \in BOOLEAN
      /\ main' = "done" => allProcesses = <<>>
  BY DEF KillAll, KilledAll, FailFork, MayRead, timerVars, signalVars, Inv, TypeOK
<1>2. TypeOK'
  BY <1>1 DEF Inv, TypeOK
<1>3. ListInv'
  <2>1. allProcesses = <<>> => \A p \in Pids : ~Alive(p)
    BY EmptySeq DEF Inv, ListInv, ChildrenListed
  <2>2. QED
    BY <1>1, <2>1 DEF Inv, ListInv, ChildrenListed, NoChildLeft, Alive
<1>4. TimerInv' /\ FlagInv'
  BY <1>1 DEF Inv, TimerInv, FlagInv, Alive, ToBeTold, Signal
<1>5. QED
  BY <1>2, <1>3, <1>4 DEF Inv

-----------------------------------------------------------------------------
(***************************************************************************)
(* Theorems.                                                               *)
(***************************************************************************)
LEMMA InvHolds == Spec => []Inv
<1>1. Init => Inv
  <2>1. ASSUME Init
        PROVE  TypeOK
    <3>1. allProcesses \in Seq(Pids) /\ main # "allow"
      BY <2>1, EmptySeq DEF Init
    <3>2. left \in [Pids -> 0 .. CYCLE_ITERATIONS_COUNT]
      BY <2>1, IterationsAssumption DEF Init
    <3>3. pending \in [Pids -> SUBSET {SIGUSR1, SIGUSR2}]
      BY <2>1 DEF Init
    <3>4. samples \in [Pids -> Nat]
      BY <2>1 DEF Init
    <3>5. QED
      BY <2>1, <3>1, <3>2, <3>3, <3>4 DEF Init, TypeOK, Labels
  <2>2. ASSUME Init
        PROVE  ListInv /\ TimerInv /\ FlagInv
    <3>1. ListInv
      BY <2>2 DEF Init, ListInv, ChildrenListed, NoChildLeft, Alive
    <3>2. TimerInv
      BY <2>2, IterationsAssumption DEF Init, TimerInv, Alive, One
    <3>3. FlagInv
      BY <2>2, IterationsAssumption DEF Init, FlagInv, Alive, One
    <3>4. QED
      BY <3>1, <3>2, <3>3
  <2>3. QED
    BY <2>1, <2>2 DEF Inv
<1>2. Inv /\ [Next]_vars => Inv'
  <2>1. ASSUME Inv, CreateChild \/ FailFork \/ KillLast \/ KillAll \/ Allow \/ Parent
        PROVE  Inv'
    BY <2>1, CreateStep, KillStep, KillAllStep, AllowStep DEF KillLast, KillNext, MayRead, Parent
  <2>2. ASSUME Inv, UNCHANGED vars
        PROVE  Inv'
    <3>1. UNCHANGED <<main, quitting, allProcesses, next, is_stdout_open, pc, left, contin, timer,
                      samples, pending, open, crossed>>
      BY <2>2 DEF vars, parentVars, timerVars, signalVars
    <3>2. TypeOK' /\ ListInv'
      BY <2>2, <3>1 DEF Inv, TypeOK, ListInv, ChildrenListed, NoChildLeft, Alive
    <3>3. TimerInv'
      BY <2>2, <3>1 DEF Inv, TimerInv, Alive
    <3>4. FlagInv'
      BY <2>2, <3>1 DEF Inv, FlagInv, Alive, ToBeTold, Signal
    <3>5. QED
      BY <3>2, <3>3, <3>4 DEF Inv
  <2>3. QED
    BY <2>1, <2>2, ChildSteps DEF Next
<1>3. QED
  BY <1>1, <1>2, PTL DEF Spec

\* The variables keep the types of their C declarations, and next an index of
\* allProcesses[] or the one behind it.
THEOREM TypeCorrect == Spec => []TypeOK
<1>1. Inv => TypeOK
  BY DEF Inv
<1>2. QED
  BY <1>1, InvHolds, PTL

\* A child that has handled what it was told has the flag of the parent, created before,
\* during or after "s" and "g".
THEOREM FlagsAgree == Spec => []FlagFollowsParent
<1>1. Inv => FlagFollowsParent
  BY DEF Inv, FlagInv, FlagFollowsParent
<1>2. QED
  BY <1>1, InvHolds, PTL

\* No iteration of a child ends without a sample of its own.
THEOREM IterationsSampled == Spec => []EveryIterationSampled
<1>1. Inv => EveryIterationSampled
  BY BoundHolds DEF EveryIterationSampled
<1>2. QED
  BY <1>1, InvHolds, PTL

\* create_child() and kill_last_process() keep every child that goes on in allProcesses[],
\* also those a failed fork() leaves behind.
THEOREM AllListed == Spec => []ChildrenListed
<1>1. Inv => ChildrenListed
  BY DEF Inv, ListInv
<1>2. QED
  BY <1>1, InvHolds, PTL

\* "Parent: Exiting": with "q", kill_all_processes() has reached every child.
THEOREM NobodyLeft == Spec => []NoChildLeft
<1>1. Inv => NoChildLeft
  BY DEF Inv, ListInv
<1>2. QED
  BY <1>1, InvHolds, PTL

\* The statistics do not change while they are printed.
THEOREM StatisticsStay == Spec => StatisticsFinal
<1>1. Inv /\ [Next]_vars => [\A p \in Pids : pc[p] \in {"print", "exited"} => samples'[p] = samples[p]]_vars
  <2>1. ASSUME Inv, Next, NEW p \in Pids, pc[p] \in {"print", "exited"}
        PROVE  samples'[p] = samples[p]
    <3>1. CASE CreateChild \/ FailFork \/ KillLast \/ KillAll \/ Allow \/ Parent
      BY <3>1
      DEF CreateChild, FailFork, KillLast, KillLastProcess, KillAll, Allow, Parent, KillNext,
          KilledAll, AllowNext, AllowedAll, timerVars
    <3>2. ASSUME NEW q \in Pids, Child(q) \/ Signals(q)
          PROVE  samples'[p] = samples[p]
      BY <3>2
      DEF Child, InstallHandlers, Start, EndIteration, PrintStatistic, Signals, Handle, timerVars
    <3>3. ASSUME NEW q \in Pids, Tick(q)
          PROVE  samples'[p] = samples[p]
      <4>1. pc[q] = "loop"
        BY <2>1, <3>3 DEF Tick, Inv, TimerInv
      <4>2. QED
        BY <2>1, <3>3, <4>1 DEF Tick, Inv, TypeOK
    <3>4. QED
      BY <2>1, <3>1, <3>2, <3>3 DEF Next
  <2>2. QED
    BY <2>1
<1>2. QED
  BY <1>1, InvHolds, PTL DEF Spec, StatisticsFinal
=============================================================================
