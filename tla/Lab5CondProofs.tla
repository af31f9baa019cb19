--------------------------- MODULE Lab5CondProofs ---------------------------
(***************************************************************************)
(* Proofs about Lab5Conditions, for any number of threads, any ring and    *)
(* any set of commands, SIGINT included.                                   *)
(***************************************************************************)
EXTENDS Lab5Conditions, FiniteSetTheorems, TLAPS

-----------------------------------------------------------------------------
(***************************************************************************)
(* Lemmas about the entries of the tables.                                 *)
(***************************************************************************)

\* An entry is a type and an index below the limit of that type.
LEMMA EntriesAre ==
  /\ \A type \in Types : \A i \in 0 .. Limit(type) - 1 : Entry(type, i) \in Entries
  /\ \A e \in Entries : /\ e.type \in Types /\ e.ind \in 0 .. Limit(e.type) - 1
                        /\ e = Entry(e.type, e.ind)
<1>1. ASSUME NEW type \in Types, NEW i \in 0 .. Limit(type) - 1
      PROVE  Entry(type, i) \in Entries
  <2>1. Entry(type, i) \in [type : {type}, ind : 0 .. Limit(type) - 1]
    BY DEF Entry
  <2>2. QED
    BY <2>1 DEF Entries
<1>2. ASSUME NEW e \in Entries
      PROVE  e.type \in Types /\ e.ind \in 0 .. Limit(e.type) - 1 /\ e = Entry(e.type, e.ind)
  <2>1. PICK type \in Types : e \in [type : {type}, ind : 0 .. Limit(type) - 1]
    BY DEF Entries
  <2>2. QED
    BY <2>1 DEF Entry
<1>3. QED
  BY <1>1, <1>2

\* Entries of different types or indices differ, and none is NoEntry.
LEMMA EntriesDiffer ==
  /\ \A a, b, i, j : Entry(a, i) = Entry(b, j) => a = b /\ i = j
  /\ \A a, i : Entry(a, i).type = a /\ Entry(a, i).ind = i
  /\ NoEntry.type \notin Types
BY DEF Entry, NoEntry, Types, Producer, Consumer

\* Limits are numbers, and there are two types.
LEMMA TypesAre ==
  /\ \A type \in Types : Limit(type) \in Nat /\ Other(type) \in Types /\ Other(type) # type
  /\ \A type \in Types : Other(Other(type)) = type
  /\ \A a, b \in Types : a # b => b = Other(a)
BY LimitAssumption DEF Types, Limit, Other, Producer, Consumer

-----------------------------------------------------------------------------
(***************************************************************************)
(* The tables.  close_thread_by_ind() finds the thread under the counter,  *)
(* create_thread() a free index under the flags; both find what they       *)
(* look for because the flags set are those below the counter, as long as  *)
(* nothing is being closed and SIGINT has not come.  A thread that leaves  *)
(* was cancelled or joined, and is in no table by then.                    *)
(***************************************************************************)
EntriesKept ==
  /\ \A t \in Tids : pc[t] # "none" => entry[t] \in Entries
  /\ \A t \in cancelled : pc[t] # "none"
  /\ \A e \in Entries : working[e] # NoThread =>
       pc[working[e]] # "none" /\ entry[working[e]] = e /\ working[e] \notin cancelled

VictimKept ==
  Closing =>
    /\ victim \in Tids \ cancelled /\ pc[victim] # "none" /\ count[Type(victim)] > 0
    /\ \A e \in Entries : working[e] # victim

One(b) == IF b THEN 1 ELSE 0
FlagsMatch ==
  /\ \A type \in Types : count[type] <= Limit(type)
  /\ ~quitting =>
       \A type \in Types : \A i \in 0 .. Limit(type) - 1 :
         working[Entry(type, i)] # NoThread <=> i < count[type] - One(Closing /\ Type(victim) = type)

TableInv == TypeOK /\ EntriesKept /\ VictimKept /\ FlagsMatch

\* What the steps of threads do to the tables: t goes on, or leaves when cancelled.
LEMMA TableStep ==
  ASSUME TableInv, NEW t \in Tids, pc[t] # "none", UNCHANGED <<quitting, interrupted, victim, count, working>>,
         Closing' <=> Closing, main' \in MainLabels, cut_wait' \in {"no", "asleep", "woken"},
         queue_mutex' \in Tids \cup {NoThread, Departed}, misused' \in BOOLEAN,
         max_len' \in Nat, len' \in 0 .. max_len',
         pc' \in [Tids -> Labels],
         \A u \in Tids \ {t} : pc[u] # "none" <=> pc'[u] # "none",
         \/ UNCHANGED <<entry, cancelled>> /\ pc'[t] # "none"
         \/ /\ t \in cancelled /\ pc'[t] = "none"
            /\ entry' = [entry EXCEPT ![t] = NoEntry] /\ cancelled' = cancelled \ {t}
  PROVE  TableInv'
<1> USE DEF TableInv, TypeOK
<1>1. TypeOK'
  <2>1. entry' \in [Tids -> Entries \cup {NoEntry}] /\ cancelled' \subseteq Tids
    OBVIOUS
  <2>2. QED
    BY <2>1
<1>2. EntriesKept'
  <2>1. \A u \in Tids : pc'[u] # "none" => pc[u] # "none" /\ entry'[u] = entry[u]
    OBVIOUS
  <2>2. \A u \in cancelled' : u \in cancelled /\ pc'[u] # "none"
    BY DEF EntriesKept
  <2>3. \A e \in Entries : working[e] # NoThread => working[e] \in Tids
    OBVIOUS
  <2>4. \A e \in Entries : working[e] # NoThread =>
          pc'[working[e]] # "none" /\ entry'[working[e]] = e /\ working[e] \notin cancelled'
    BY <2>1, <2>3 DEF EntriesKept
  <2>5. QED
    BY <2>1, <2>2, <2>4 DEF EntriesKept
<1>3. VictimKept' /\ (Closing => Type(victim)' = Type(victim))
  <2>1. Closing => entry'[victim] = entry[victim] /\ pc'[victim] # "none" /\ victim \notin cancelled'
    BY DEF VictimKept
  <2>2. QED
    BY <2>1 DEF VictimKept, Type
<1>4. FlagsMatch'
  BY <1>3 DEF FlagsMatch, One
<1>5. QED
  BY <1>1, <1>2, <1>3, <1>4

\* No step of a thread disturbs the tables.
LEMMA ThreadTable ==
  ASSUME TableInv, NEW t \in Tids, Step(t) \/ SpuriousWakeup(t)
  PROVE  TableInv'
<1> USE DEF TableInv, TypeOK, ring, mainVars, tableVars, Labels, MainLabels
<1>1. CASE Check(t)
  BY <1>1, TableStep DEF Check, Goto, Closing
<1>2. CASE Flag(t)
  BY <1>2, TableStep DEF Flag, Goto, Closing
<1>3. CASE Close(t)
  BY <1>3, TableStep DEF Close, Goto, Leave, Closing
<1>4. CASE Sleep(t)
  BY <1>4, TableStep DEF Sleep, Goto, Closing
<1>5. CASE Enter(t)
  BY <1>5, TableStep DEF Enter, Goto, Lock, Closing
<1>6. CASE Wait(t)
  BY <1>6, TableStep DEF Wait, Goto, Closing
<1>7. CASE Act(t)
  <2>1. len' \in 0 .. max_len
    BY <1>7 DEF Act, Blocked
  <2>2. QED
    BY <1>7, <2>1, TableStep DEF Act, Goto, Closing
<1>8. ASSUME NEW who \in Tids \cup {MainThread, NoThread}, Signal(t, who)
      PROVE  TableInv'
  <2>1. \A u \in Tids \ {t} : pc[u] # "none" <=> pc'[u] # "none"
    BY <1>8, TidsAssumption DEF Signal, MayWake, Waiters, MainWaits, Asleep
  <2>2. /\ main' \in MainLabels /\ (Closing' <=> Closing)
        /\ cut_wait' \in {"no", "asleep", "woken"}
    BY <1>8 DEF Signal, WakeMain, Closing
  <2>3. QED
    BY <1>8, <2>1, <2>2, TableStep DEF Signal
<1>9. CASE ActOnCancel(t)
  <2>1. /\ t \in cancelled /\ pc[t] # "none" /\ UNCHANGED <<mainVars, count, working, misused, ring>>
        /\ pc' = [pc EXCEPT ![t] = "none"] /\ entry' = [entry EXCEPT ![t] = NoEntry]
        /\ cancelled' = cancelled \ {t} /\ queue_mutex' \in {queue_mutex, Departed}
    BY <1>9 DEF ActOnCancel, Goto, Leave
  <2>2. Closing' <=> Closing
    BY <2>1 DEF Closing
  <2>3. QED
    BY <2>1, <2>2, TableStep
<1>10. CASE SpuriousWakeup(t)
  BY <1>10, TableStep DEF SpuriousWakeup, Asleep, Goto, Closing
<1>11. QED
  BY <1>1, <1>2, <1>3, <1>4, <1>5, <1>6, <1>7, <1>8, <1>9, <1>10 DEF Step

\* While the program runs on, the free index is the counter: create_thread() takes the
\* entry above the set flags.
LEMMA FreeIndexIs ==
  ASSUME TableInv, main = "command", ~quitting, NEW type \in Types, count[type] < Limit(type)
  PROVE  FreeIndex(type) = count[type] /\ count[type] \in 0 .. Limit(type) - 1
<1> DEFINE n == count[type]
<1>1. n \in 0 .. Limit(type) - 1 /\ Limit(type) \in Nat
  BY TypesAre DEF TableInv, TypeOK
<1>2. \A i \in 0 .. Limit(type) - 1 : working[Entry(type, i)] # NoThread <=> i < n
  BY <1>1 DEF TableInv, TypeOK, FlagsMatch, Closing, One
<1> DEFINE Free(i) == /\ working[Entry(type, i)] = NoThread
                      /\ \A j \in 0 .. i - 1 : working[Entry(type, j)] # NoThread
<1>3. Free(n)
  BY <1>1, <1>2
<1>4. ASSUME NEW i \in 0 .. Limit(type) - 1, Free(i)
      PROVE  i = n
  <2>1. ~(i < n)
    BY <1>1, <1>2, <1>4
  <2>2. ~(n < i)
    BY <1>1, <1>2, <1>4
  <2>3. QED
    BY <1>1, <2>1, <2>2
<1>5. (CHOOSE i \in 0 .. Limit(type) - 1 : Free(i)) = n
  <2> HIDE DEF n, Free
  <2>1. QED
    BY <1>1, <1>3, <1>4
<1>6. QED
  BY <1>1, <1>5 DEF FreeIndex

\* create_thread().
LEMMA CreateTable ==
  ASSUME TableInv, NEW command, NEW type \in Types, CreateThread(command, type)
  PROVE  TableInv'
<1> DEFINE n == count[type]
           e == Entry(type, n)
           t == CHOOSE t \in FreeTids : TRUE
<1>1. main = "command" /\ ~quitting /\ n < Limit(type)
  BY DEF CreateThread, MayRead
<1>2. FreeIndex(type) = n /\ n \in 0 .. Limit(type) - 1
  BY <1>1, FreeIndexIs
<1>3. e \in Entries
  BY <1>2, EntriesAre
<1>4. t \in Tids /\ pc[t] = "none" /\ t # NoThread
  BY TidsAssumption DEF CreateThread, FreeTids
<1>5. /\ working' = [working EXCEPT ![e] = t]
      /\ entry' = [entry EXCEPT ![t] = e]
      /\ pc' = [pc EXCEPT ![t] = "check"]
      /\ count' = [count EXCEPT ![type] = n + 1]
      /\ UNCHANGED <<mainVars, cancelled, queue_mutex, misused, ring>>
  BY <1>2 DEF CreateThread, Goto
<1> HIDE DEF t, e
<1>6. TypeOK'
  BY <1>2, <1>3, <1>4, <1>5 DEF TableInv, TypeOK, mainVars, ring, Labels
<1>7. EntriesKept'
  <2>1. working[e] = NoThread
    BY <1>1, <1>2 DEF e, TableInv, TypeOK, FlagsMatch, Closing, One
  <2>2. t \notin cancelled
    BY <1>4 DEF TableInv, EntriesKept
  <2>3. \A f \in Entries : working[f] # NoThread => working[f] \in Tids \ {t}
    BY <1>4 DEF TableInv, TypeOK, EntriesKept
  <2>4. QED
    BY <1>3, <1>4, <1>5, <2>1, <2>2, <2>3 DEF TableInv, TypeOK, EntriesKept
<1>8. ~Closing'
  BY <1>1, <1>5 DEF Closing, mainVars
<1>9. FlagsMatch'
  <2>1. \A a \in Types : count'[a] = (IF a = type THEN n + 1 ELSE count[a])
    BY <1>5 DEF TableInv, TypeOK
  <2>2. ASSUME NEW a \in Types, NEW i \in 0 .. Limit(a) - 1
        PROVE  working'[Entry(a, i)] # NoThread <=> i < count'[a]
    <3>1. Entry(a, i) \in Entries /\ (Entry(a, i) = e <=> a = type /\ i = n)
      BY <2>2, EntriesAre, EntriesDiffer DEF e
    <3>2. working[Entry(a, i)] # NoThread <=> i < count[a]
      BY <1>1, <2>2 DEF TableInv, TypeOK, FlagsMatch, Closing, One
    <3>3. CASE Entry(a, i) = e
      BY <1>3, <1>4, <1>5, <2>1, <3>1, <3>3, <1>2 DEF TableInv, TypeOK
    <3>4. CASE Entry(a, i) # e
      <4>1. working'[Entry(a, i)] = working[Entry(a, i)]
        BY <1>5, <3>1, <3>4 DEF TableInv, TypeOK
      <4>2. a = type => (i < n + 1 <=> i < n)
        BY <1>2, <3>1, <3>4, TypesAre
      <4>3. QED
        BY <2>1, <3>2, <4>1, <4>2
    <3>5. QED
      BY <3>3, <3>4
  <2>3. \A a \in Types : count'[a] <= Limit(a)
    BY <1>2, <2>1, TypesAre DEF TableInv, FlagsMatch
  <2>4. \A a \in Types : count'[a] - One(Closing' /\ Type(victim)' = a) = count'[a]
    <3>1. \A a \in Types : count'[a] \in Nat
      BY <1>6 DEF TypeOK
    <3>2. QED
      BY <1>8, <3>1 DEF One
  <2>5. QED
    BY <2>2, <2>3, <2>4 DEF FlagsMatch
<1>10. QED
  BY <1>6, <1>7, <1>8, <1>9 DEF TableInv, VictimKept

\* close_thread_by_ind(): on "-" and "_" it finds the flag under the counter set; in
\* cleanup_and_exit() it may not, and refuses.
LEMMA CloseTable ==
  ASSUME TableInv, main = "command", NEW type \in Types, CloseThread(type)
  PROVE  TableInv'
<1> DEFINE n == count[type]
           e == Entry(type, n - 1)
           t == working[e]
<1>1. n \in Nat /\ n > 0 /\ n <= Limit(type) /\ n - 1 \in 0 .. Limit(type) - 1
  BY TypesAre DEF CloseThread, TableInv, TypeOK, FlagsMatch
<1>2. e \in Entries /\ e.type = type
  BY <1>1, EntriesAre, EntriesDiffer
<1>3. /\ t # NoThread
      /\ working' = [working EXCEPT ![e] = NoThread]
      /\ UNCHANGED <<quitting, interrupted, cut_wait, entry, pc, queue_mutex, misused, ring>>
      /\ \/ /\ cancelled' = cancelled \cup {t}
            /\ count' = [count EXCEPT ![type] = n - 1]
            /\ UNCHANGED <<main, victim>>
         \/ /\ victim' = t
            /\ main' = "broadcast"
            /\ UNCHANGED <<cancelled, count>>
  BY DEF CloseThread
<1>4. t \in Tids /\ pc[t] # "none" /\ entry[t] = e /\ t \notin cancelled /\ Type(t) = type
  BY <1>2, <1>3 DEF TableInv, TypeOK, EntriesKept, Type
<1>5. ~Closing
  BY DEF Closing
<1>6. working' \in [Entries -> Tids \cup {NoThread}] /\ \A f \in Entries : working'[f] # t
  <2>1. \A f \in Entries : working[f] = t => f = e
    BY <1>2, <1>4, TidsAssumption DEF TableInv, EntriesKept
  <2>2. QED
    BY <1>2, <1>3, <1>4, <2>1, TidsAssumption DEF TableInv, TypeOK
<1>7. \A f \in Entries : working'[f] # NoThread => working'[f] = working[f]
  BY <1>2, <1>3 DEF TableInv, TypeOK
<1> HIDE DEF t, e
<1>8. CASE /\ cancelled' = cancelled \cup {t}
           /\ count' = [count EXCEPT ![type] = n - 1]
           /\ UNCHANGED <<main, victim>>
  <2>1. TypeOK'
    BY <1>1, <1>3, <1>4, <1>6, <1>8 DEF TableInv, TypeOK, ring
  <2>2. EntriesKept'
    BY <1>3, <1>4, <1>6, <1>7, <1>8 DEF TableInv, EntriesKept
  <2>3. ~Closing'
    BY <1>5, <1>8 DEF Closing
  <2>4. \A a \in Types : count'[a] = IF a = type THEN n - 1 ELSE count[a]
    BY <1>8 DEF TableInv, TypeOK
  <2>5. \A a \in Types : count'[a] <= Limit(a)
    BY <1>1, <2>4, TypesAre DEF TableInv, FlagsMatch
  <2>6. ASSUME ~quitting', NEW a \in Types, NEW i \in 0 .. Limit(a) - 1
        PROVE  working'[Entry(a, i)] # NoThread <=> i < count'[a]
    <3>1. Entry(a, i) \in Entries /\ (Entry(a, i) = e <=> a = type /\ i = n - 1)
      BY <2>6, EntriesAre, EntriesDiffer DEF e
    <3>2. working[Entry(a, i)] # NoThread <=> i < count[a]
      BY <1>3, <1>5, <2>6 DEF TableInv, TypeOK, FlagsMatch, One
    <3>3. CASE Entry(a, i) = e
      BY <1>1, <1>2, <1>3, <2>4, <3>1, <3>3 DEF TableInv, TypeOK
    <3>4. CASE Entry(a, i) # e
      <4>1. working'[Entry(a, i)] = working[Entry(a, i)]
        BY <1>3, <3>1, <3>4 DEF TableInv, TypeOK
      <4>2. a = type => (i < n <=> i < n - 1)
        BY <1>1, <3>1, <3>4, TypesAre
      <4>3. QED
        BY <2>4, <3>2, <4>1, <4>2
    <3>5. QED
      BY <3>3, <3>4
  <2>7. \A a \in Types : count'[a] - One(Closing' /\ Type(victim)' = a) = count'[a]
    <3>1. \A a \in Types : count'[a] \in Nat
      BY <2>1 DEF TypeOK
    <3>2. QED
      BY <2>3, <3>1 DEF One
  <2>8. FlagsMatch'
    BY <2>5, <2>6, <2>7 DEF FlagsMatch
  <2>9. QED
    BY <2>1, <2>2, <2>3, <2>8 DEF TableInv, VictimKept
<1>9. CASE /\ victim' = t
           /\ main' = "broadcast"
           /\ UNCHANGED <<cancelled, count>>
  <2>1. TypeOK'
    BY <1>1, <1>3, <1>4, <1>6, <1>9 DEF TableInv, TypeOK, ring, MainLabels
  <2>2. EntriesKept'
    BY <1>3, <1>4, <1>6, <1>7, <1>9 DEF TableInv, EntriesKept
  <2>3. VictimKept' /\ Closing' /\ Type(victim)' = type
    BY <1>1, <1>3, <1>4, <1>6, <1>9 DEF VictimKept, Closing, Type
  <2>4. ASSUME ~quitting', NEW a \in Types, NEW i \in 0 .. Limit(a) - 1
        PROVE  working'[Entry(a, i)] # NoThread <=> i < count[a] - One(a = type)
    <3>1. Entry(a, i) \in Entries /\ (Entry(a, i) = e <=> a = type /\ i = n - 1)
      BY <2>4, EntriesAre, EntriesDiffer DEF e
    <3>2. working[Entry(a, i)] # NoThread <=> i < count[a]
      BY <1>3, <1>5, <2>4 DEF TableInv, TypeOK, FlagsMatch, One
    <3>3. CASE Entry(a, i) = e
      BY <1>1, <1>2, <1>3, <3>1, <3>3 DEF TableInv, TypeOK, One
    <3>4. CASE Entry(a, i) # e
      <4>1. working'[Entry(a, i)] = working[Entry(a, i)]
        BY <1>3, <3>1, <3>4 DEF TableInv, TypeOK
      <4>2. a = type => (i < n <=> i < n - 1)
        BY <1>1, <3>1, <3>4, TypesAre
      <4>3. a # type => count[a] - One(a = type) = count[a]
        BY DEF One, TableInv, TypeOK
      <4>4. QED
        BY <3>2, <4>1, <4>2, <4>3 DEF One
    <3>5. QED
      BY <3>3, <3>4
  <2>5. \A a \in Types : count[a] - One(Closing' /\ Type(victim)' = a) = count[a] - One(a = type)
    BY <2>3 DEF One
  <2>6. FlagsMatch'
    BY <1>9, <2>4, <2>5 DEF TableInv, FlagsMatch
  <2>7. QED
    BY <2>1, <2>2, <2>3, <2>6 DEF TableInv
<1>10. QED
  BY <1>3, <1>8, <1>9

\* The end of pthread_join(): the counter goes down to the flags that are set.
LEMMA JoinTable ==
  ASSUME TableInv, Join
  PROVE  TableInv'
<1> DEFINE type == Type(victim)
<1>1. /\ Closing /\ victim \in Tids /\ victim \notin cancelled /\ type \in Types
      /\ count[type] \in Nat /\ count[type] > 0 /\ \A e \in Entries : working[e] # victim
  BY EntriesAre DEF Join, Closing, TableInv, TypeOK, VictimKept, EntriesKept, Type
<1>2. /\ pc' = [pc EXCEPT ![victim] = "none"]
      /\ entry' = [entry EXCEPT ![victim] = NoEntry]
      /\ cancelled' = cancelled \ {victim}
      /\ count' = [count EXCEPT ![type] = count[type] - 1]
      /\ victim' = NoThread /\ main' = "command"
      /\ UNCHANGED <<quitting, interrupted, cut_wait, working, queue_mutex, misused, ring>>
  BY DEF Join, Leave, Goto
<1>3. ~Closing'
  BY <1>2 DEF Closing
<1> HIDE DEF type
<1>4. TypeOK'
  BY <1>1, <1>2 DEF TableInv, TypeOK, Labels, MainLabels, ring
<1>5. EntriesKept'
  BY <1>1, <1>2 DEF TableInv, TypeOK, EntriesKept
<1>6. \A a \in Types : count'[a] = count[a] - One(a = type)
  BY <1>1, <1>2 DEF TableInv, TypeOK, One
<1>7. \A a \in Types : count'[a] - One(Closing' /\ Type(victim)' = a) = count'[a]
  <2>1. \A a \in Types : count'[a] \in Nat
    BY <1>4 DEF TypeOK
  <2>2. QED
    BY <1>3, <2>1 DEF One
<1>8. FlagsMatch'
  <2>1. \A a \in Types : count'[a] <= Limit(a)
    BY <1>1, <1>6, TypesAre DEF TableInv, TypeOK, FlagsMatch, One
  <2>2. ~quitting' => \A a \in Types : \A i \in 0 .. Limit(a) - 1 :
          working'[Entry(a, i)] # NoThread <=> i < count'[a]
    BY <1>1, <1>2, <1>6 DEF TableInv, FlagsMatch, One, type
  <2>3. QED
    BY <1>7, <2>1, <2>2 DEF FlagsMatch
<1>9. QED
  BY <1>3, <1>4, <1>5, <1>8 DEF TableInv, VictimKept

\* No step of the main thread disturbs the tables.
LEMMA MainTable ==
  ASSUME TableInv, Main \/ Command \/ Interrupt \/ ReduceSpuriousWakeup
  PROVE  TableInv'
<1> USE DEF ring, mainVars, tableVars, MainOnly
<1>1. CASE Broadcast
  <2>1. TypeOK' /\ \A t \in Tids : pc'[t] # "none" <=> pc[t] # "none"
    BY <1>1 DEF Broadcast, Asleep, TableInv, TypeOK, Labels, MainLabels
  <2>2. UNCHANGED <<quitting, victim, tableVars, cancelled>> /\ Closing /\ Closing'
    BY <1>1 DEF Broadcast, Closing
  <2>3. QED
    BY <2>1, <2>2 DEF TableInv, TypeOK, EntriesKept, VictimKept, FlagsMatch, Type, One
<1>2. CASE Join
  BY <1>2, JoinTable
<1>3. ASSUME NEW who \in Tids \cup {NoThread}, ExpandSignal(who)
      PROVE  TableInv'
  <2>1. TypeOK' /\ \A t \in Tids : pc'[t] # "none" <=> pc[t] # "none"
    BY <1>3, TidsAssumption
    DEF ExpandSignal, MayWake, Waiters, MainWaits, Asleep, TableInv, TypeOK, Labels, MainLabels
  <2>2. UNCHANGED <<quitting, victim, tableVars, cancelled>> /\ ~Closing /\ ~Closing'
    BY <1>3 DEF ExpandSignal, Closing
  <2>3. QED
    BY <2>1, <2>2 DEF TableInv, TypeOK, EntriesKept, VictimKept, FlagsMatch, Type, One
<1>4. CASE CloseAll
  BY <1>4, CloseTable DEF CloseAll, Types
<1>5. CASE CloseLast("-", Producer) \/ CloseLast("_", Consumer)
  BY <1>5, CloseTable DEF CloseLast, MayRead, Types
<1>6. CASE CreateThread("+", Producer) \/ CreateThread("*", Consumer)
  BY <1>6, CreateTable DEF Types
<1>7. CASE Interrupt
  <2>1. TypeOK'
    <3>1. max_len' \in Nat /\ len' \in 0 .. max_len'
      <4>1. len \in 0 .. max_len /\ max_len \in Nat
        BY DEF TableInv, TypeOK
      <4>2. Resized \in Nat /\ len <= Resized
        BY <4>1 DEF Resized
      <4>3. max_len' \in {max_len, Resized} /\ len' = len
        BY <1>7 DEF Interrupt
      <4>4. QED
        BY <4>1, <4>2, <4>3
    <3>2. cut_wait' \in {"no", "asleep", "woken"}
      <4>1. CutWait(TRUE) \cup CutWait(FALSE) \subseteq {"no", "asleep", "woken"}
        BY DEF CutWait
      <4>2. QED
        BY <1>7, <4>1 DEF Interrupt
    <3>3. QED
      BY <1>7, <3>1, <3>2 DEF Interrupt, TableInv, TypeOK, MainLabels
  <2>2. UNCHANGED <<victim, tableVars, pc, cancelled>> /\ quitting' /\ ~Closing'
    BY <1>7 DEF Interrupt, Closing
  <2>3. QED
    BY <2>1, <2>2 DEF TableInv, EntriesKept, VictimKept, FlagsMatch
<1>8. CASE \/ ReduceWait \/ ReduceQueue \/ ExpandQueue \/ Exit \/ ReduceAsk \/ ExpandAsk
           \/ ReduceSpuriousWakeup \/ Quit
  <2>1. max_len' \in Nat /\ len' \in 0 .. max_len' /\ main' \in MainLabels
    BY <1>8
    DEF ReduceWait, ReduceQueue, ExpandQueue, Exit, ReduceAsk, ExpandAsk, ReduceSpuriousWakeup,
        Quit, TableInv, TypeOK, MainLabels
  <2>2. /\ UNCHANGED <<interrupted, cut_wait, victim, tableVars, pc, cancelled, queue_mutex, misused>>
        /\ quitting' \in BOOLEAN /\ (~quitting' => ~quitting) /\ ~Closing /\ ~Closing'
    BY <1>8
    DEF ReduceWait, ReduceQueue, ExpandQueue, Exit, ReduceAsk, ExpandAsk, ReduceSpuriousWakeup,
        Quit, TableInv, TypeOK, Closing, MayRead
  <2>3. TypeOK'
    BY <2>1, <2>2 DEF TableInv, TypeOK
  <2>4. QED
    BY <2>2, <2>3 DEF TableInv, EntriesKept, VictimKept, FlagsMatch, One
<1>9. QED
  BY <1>1, <1>2, <1>3, <1>4, <1>5, <1>6, <1>7, <1>8 DEF Main, Command

\* At the start there are no threads.
LEMMA InitTable == Init => TableInv
<1> SUFFICES ASSUME Init PROVE TableInv
  OBVIOUS
<1>1. TypeOK
  <2>1. len \in 0 .. max_len /\ max_len \in Nat
    BY LengthAssumption DEF Init
  <2>2. QED
    BY <2>1 DEF Init, TypeOK, MainLabels, Labels
<1>2. EntriesKept /\ ~Closing
  BY DEF Init, EntriesKept, Closing
<1>3. FlagsMatch
  <2>1. \A type \in Types : Limit(type) \in Nat /\ count[type] = 0
    BY TypesAre DEF Init
  <2>2. \A type \in Types : \A i \in 0 .. Limit(type) - 1 :
          working[Entry(type, i)] = NoThread /\ ~(i < 0)
    BY EntriesAre, TypesAre DEF Init
  <2>3. QED
    BY <1>2, <2>1, <2>2 DEF FlagsMatch, One
<1>4. QED
  BY <1>1, <1>2, <1>3 DEF TableInv, VictimKept

\* Main, commands, signals and threads, and steps that change nothing.
LEMMA TableNext ==
  ASSUME TableInv, [Next]_vars
  PROVE  TableInv'
<1>1. CASE Next
  <2>1. CASE Main \/ (Running /\ (Command \/ Interrupt \/ ReduceSpuriousWakeup))
    BY <2>1, MainTable
  <2>2. ASSUME NEW t \in Tids, Step(t) \/ (Running /\ SpuriousWakeup(t))
        PROVE  TableInv'
    <3>1. pc[t] # "none"
      <4>1. ASSUME NEW who, Signal(t, who)
            PROVE  pc[t] # "none"
        BY <4>1 DEF Signal
      <4>2. QED
        BY <2>2, <4>1 DEF Step, Check, Flag, Close, Sleep, Enter, Wait, Act, ActOnCancel,
                          SpuriousWakeup, Asleep
    <3>2. QED
      BY <2>2, <3>1, ThreadTable
  <2>3. QED
    BY <1>1, <2>1, <2>2 DEF Next
<1>2. CASE UNCHANGED vars
  BY <1>2 DEF vars, mainVars, tableVars, ring, TableInv, TypeOK, EntriesKept, VictimKept,
              FlagsMatch, Closing, Type
<1>3. QED
  BY <1>1, <1>2

\* The variables keep the types of their C declarations: no index leaves producers[] or
\* consumers[], and the ring never holds more than its slots, wherever SIGINT cuts in.
THEOREM TypeCorrect == Spec => []TypeOK
<1>1. Spec => []TableInv
  BY InitTable, TableNext, PTL DEF Spec
<1>2. TableInv => TypeOK
  BY DEF TableInv
<1>3. QED
  BY <1>1, <1>2, PTL

-----------------------------------------------------------------------------
(***************************************************************************)
(* The mutex.  Whoever has tested the ring holds queue_mutex until it has  *)
(* acted and signalled, so the test stays true; only an unlock of another  *)
(* thread's mutex could break this, and there the model ends.              *)
(***************************************************************************)
Inside == {"flag", "wait", "act", "signal"}
MutexKept == \A t \in Tids : pc[t] \in Inside => queue_mutex = t
TestHolds == \A t \in Tids : /\ pc[t] \in {"flag", "wait"} => Blocked(Type(t))
                             /\ pc[t] = "act" => ~Blocked(Type(t))
SyncInv == (~misused => MutexKept) /\ TestHolds

\* A free mutex, and one whose owner is known: nobody else is inside.
LEMMA OneInside ==
  ASSUME MutexKept
  PROVE  /\ queue_mutex \in {NoThread, Departed} => \A u \in Tids : pc[u] \notin Inside
         /\ \A t \in Tids : queue_mutex = t => \A u \in Tids \ {t} : pc[u] \notin Inside
         /\ \A t \in Tids : pc[t] \in Inside => \A u \in Tids \ {t} : pc[u] \notin Inside
BY TidsAssumption DEF MutexKept

\* When nobody else is inside afterwards either, only t has to be looked at.
LEMMA SyncStep ==
  ASSUME NEW t \in Tids, \A u \in Tids \ {t} : pc'[u] \notin Inside,
         pc'[t] \in Inside => queue_mutex' = t,
         pc'[t] \in {"flag", "wait"} => Blocked(Type(t))',
         pc'[t] = "act" => ~Blocked(Type(t))'
  PROVE  (MutexKept /\ TestHolds)'
BY DEF MutexKept, TestHolds, Inside

\* When mutex and ring stay, and nobody goes inside, nothing changes.
LEMMA SyncSame ==
  ASSUME MutexKept, TestHolds, UNCHANGED <<queue_mutex, ring>>,
         \A u \in Tids : pc'[u] \in Inside => pc'[u] = pc[u] /\ entry'[u] = entry[u]
  PROVE  (MutexKept /\ TestHolds)'
BY DEF MutexKept, TestHolds, Inside, Blocked, Type, ring

\* The steps of a thread.
LEMMA ThreadSync ==
  ASSUME TableInv, SyncInv, NEW t \in Tids, Running, ~misused', Step(t) \/ SpuriousWakeup(t)
  PROVE  (MutexKept /\ TestHolds)'
<1> USE DEF Inside, ring, tableVars
<1>1. MutexKept /\ TestHolds /\ pc \in [Tids -> Labels]
  BY DEF SyncInv, Running, TableInv, TypeOK
<1>2. CASE Check(t) \/ Sleep(t) \/ SpuriousWakeup(t)
  BY <1>1, <1>2, SyncSame DEF Check, Sleep, SpuriousWakeup, Goto
<1>3. CASE Flag(t)
  BY <1>1, <1>3 DEF Flag, Goto, MutexKept, TestHolds, Blocked, Type
<1>4. CASE Close(t)
  <2>1. queue_mutex \in {NoThread, t} /\ pc[t] = "close"
    BY <1>4 DEF Close
  <2>2. \A u \in Tids \ {t} : pc[u] \notin Inside /\ pc'[u] = pc[u]
    BY <1>1, <1>4, <2>1, OneInside DEF Close, Leave, Goto
  <2>3. pc'[t] \in {"none", "ended"}
    BY <1>1, <1>4 DEF Close, Leave, Goto
  <2>4. QED
    BY <2>2, <2>3, SyncStep
<1>5. CASE Enter(t)
  <2>1. \A u \in Tids \ {t} : pc[u] \notin Inside /\ pc'[u] = pc[u]
    BY <1>1, <1>5, OneInside DEF Enter, Lock, Goto
  <2>2. queue_mutex' = t /\ pc'[t] = IF Blocked(Type(t)) THEN "flag" ELSE "act"
    BY <1>1, <1>5 DEF Enter, Lock, Goto
  <2>3. Blocked(Type(t))' <=> Blocked(Type(t))
    BY <1>5 DEF Enter, Blocked, Type
  <2>4. QED
    BY <2>1, <2>2, <2>3, SyncStep
<1>6. CASE Wait(t)
  <2>1. \A u \in Tids \ {t} : pc[u] \notin Inside /\ pc'[u] = pc[u]
    BY <1>1, <1>6, OneInside DEF Wait, Goto
  <2>2. pc'[t] = "asleep"
    BY <1>1, <1>6 DEF Wait, Goto
  <2>3. QED
    BY <2>1, <2>2, SyncStep
<1>7. CASE Act(t)
  <2>1. \A u \in Tids \ {t} : pc[u] \notin Inside /\ pc'[u] = pc[u]
    BY <1>1, <1>7, OneInside DEF Act, Goto
  <2>2. pc'[t] = "signal" /\ queue_mutex' = t
    BY <1>1, <1>7 DEF Act, Goto, MutexKept
  <2>3. QED
    BY <2>1, <2>2, SyncStep
<1>8. ASSUME NEW who \in Tids \cup {MainThread, NoThread}, Signal(t, who)
      PROVE  (MutexKept /\ TestHolds)'
  <2>1. \A u \in Tids \ {t} : pc[u] \notin Inside /\ pc'[u] \in {pc[u], "woken"}
    BY <1>1, <1>8, OneInside DEF Signal
  <2>2. pc'[t] = "check"
    BY <1>8 DEF Signal
  <2>3. QED
    BY <2>1, <2>2, SyncStep
<1>9. CASE ActOnCancel(t)
  <2>1. CASE UNCHANGED queue_mutex
    BY <1>1, <1>9, <2>1, SyncSame DEF ActOnCancel, Leave, Goto
  <2>2. CASE queue_mutex' # queue_mutex
    <3>1. pc[t] = "signal" \/ queue_mutex = NoThread
      BY <1>9, <2>2 DEF ActOnCancel
    <3>2. \A u \in Tids \ {t} : pc[u] \notin Inside /\ pc'[u] = pc[u]
      BY <1>1, <1>9, <3>1, OneInside DEF ActOnCancel, Leave, Goto
    <3>3. pc'[t] = "none"
      BY <1>1, <1>9 DEF ActOnCancel, Leave, Goto
    <3>4. QED
      BY <3>2, <3>3, SyncStep
  <2>3. QED
    BY <2>1, <2>2
<1>10. QED
  BY <1>2, <1>3, <1>4, <1>5, <1>6, <1>7, <1>8, <1>9 DEF Step

\* The steps of the main thread: it resizes the ring when nobody is inside.
LEMMA MainSync ==
  ASSUME TableInv, SyncInv, Running, Main \/ Command \/ Interrupt \/ ReduceSpuriousWakeup
  PROVE  ~misused' => (MutexKept /\ TestHolds)'
<1> USE DEF Inside, ring, mainVars, tableVars, MainOnly
<1>1. MutexKept /\ TestHolds /\ pc \in [Tids -> Labels] /\ entry \in [Tids -> Entries \cup {NoEntry}]
  BY DEF SyncInv, Running, TableInv, TypeOK
<1>2. CASE ReduceQueue \/ ExpandQueue
  <2>1. \A u \in Tids : pc'[u] \notin Inside
    BY <1>1, <1>2, OneInside DEF ReduceQueue, ExpandQueue
  <2>2. QED
    BY <2>1 DEF MutexKept, TestHolds
<1>3. CASE CreateThread("+", Producer) \/ CreateThread("*", Consumer)
  <2>1. PICK t \in Tids : /\ pc' = [pc EXCEPT ![t] = "check"]
                          /\ \E e : entry' = [entry EXCEPT ![t] = e]
    BY <1>3 DEF CreateThread, Goto, FreeTids
  <2>2. UNCHANGED <<queue_mutex, ring>>
    BY <1>3 DEF CreateThread
  <2>3. QED
    BY <1>1, <2>1, <2>2, SyncSame
<1>4. CASE Join
  <2>1. victim \in Tids
    BY <1>4 DEF TableInv, VictimKept, Join, Closing
  <2>2. pc' = [pc EXCEPT ![victim] = "none"] /\ entry' = [entry EXCEPT ![victim] = NoEntry]
        /\ UNCHANGED <<queue_mutex, ring>>
    BY <1>4 DEF Join, Leave, Goto
  <2>3. QED
    BY <1>1, <2>1, <2>2, SyncSame
<1>5. CASE \/ Broadcast \/ ReduceWait \/ CloseAll \/ Exit \/ ReduceSpuriousWakeup
           \/ CloseLast("-", Producer) \/ CloseLast("_", Consumer) \/ ReduceAsk \/ ExpandAsk
           \/ Quit \/ \E who \in Tids \cup {NoThread} : ExpandSignal(who)
  <2>1. UNCHANGED <<queue_mutex, ring, entry>> /\ \A u \in Tids : pc'[u] \in {pc[u], "woken"}
    BY <1>5
    DEF Broadcast, ReduceWait, CloseAll, Exit, ReduceSpuriousWakeup, CloseLast,
        CloseThread, ReduceAsk, ExpandAsk, Quit, ExpandSignal
  <2>2. QED
    BY <1>1, <2>1, SyncSame
<1>6. CASE Interrupt
  <2>1. CASE UNCHANGED <<queue_mutex, max_len>>
    BY <1>1, <1>6, <2>1, SyncSame DEF Interrupt
  <2>2. CASE queue_mutex = NoThread
    <3>1. \A u \in Tids : pc'[u] \notin Inside
      BY <1>1, <1>6, <2>2, OneInside DEF Interrupt
    <3>2. QED
      BY <3>1 DEF MutexKept, TestHolds
  <2>3. QED
    BY <1>6, <2>1, <2>2 DEF Interrupt
<1>7. QED
  BY <1>2, <1>3, <1>4, <1>5, <1>6 DEF Main, Command

\* Only the unlock of a thread that closes goes wrong, and it leaves the ring alone.
LEMMA MisuseIsClose ==
  ASSUME TableInv, Next, misused'
  PROVE  \E t \in Tids : Close(t)
<1>1. ~misused
  BY DEF Next, Running, Step, Main
<1>2. ASSUME Main \/ Command \/ Interrupt \/ ReduceSpuriousWakeup
      PROVE  FALSE
  BY <1>1, <1>2
  DEF Main, Command, Interrupt, ReduceSpuriousWakeup, Broadcast, Join, ReduceWait, ReduceQueue,
      ExpandQueue, ExpandSignal, CloseAll, Exit, CreateThread, CloseLast, CloseThread, ReduceAsk,
      ExpandAsk, Quit, MainOnly
<1>3. ASSUME NEW t \in Tids, Step(t) \/ SpuriousWakeup(t)
      PROVE  Close(t)
  BY <1>1, <1>3
  DEF Step, Check, Flag, Sleep, Enter, Wait, Act, Signal, ActOnCancel, SpuriousWakeup
<1>4. QED
  BY <1>2, <1>3 DEF Next

LEMMA SyncNext ==
  ASSUME TableInv, SyncInv, [Next]_vars
  PROVE  SyncInv'
<1>1. CASE Next /\ ~misused'
  BY <1>1, ThreadSync, MainSync DEF Next, SyncInv, Step, Main, Running
<1>2. CASE Next /\ misused'
  <2>1. PICK t \in Tids : Close(t)
    BY <1>2, MisuseIsClose
  <2>2. TestHolds'
    BY <2>1 DEF Close, Leave, Goto, SyncInv, TestHolds, Blocked, Type, TableInv, TypeOK, ring
  <2>3. QED
    BY <1>2, <2>2 DEF SyncInv
<1>3. CASE UNCHANGED vars
  BY <1>3 DEF vars, SyncInv, tableVars, ring, MutexKept, TestHolds, Blocked, Type
<1>4. QED
  BY <1>1, <1>2, <1>3

LEMMA SyncHolds == Spec => [](TableInv /\ SyncInv)
<1>1. Init => TableInv /\ SyncInv
  <2>1. Init => SyncInv
    BY DEF Init, SyncInv, MutexKept, TestHolds, Inside
  <2>2. QED
    BY <2>1, InitTable
<1>2. TableInv /\ SyncInv /\ [Next]_vars => (TableInv /\ SyncInv)'
  BY TableNext, SyncNext
<1>3. QED
  BY <1>1, <1>2, PTL DEF Spec

\* queue_push() never finds the ring full, nor queue_pop() the ring empty, although the
\* tests were made before pthread_cond_wait() came back, or before an interrupt.
THEOREM NeverRefusedHolds == Spec => []NeverRefused
<1>1. TableInv /\ SyncInv => NeverRefused
  BY DEF SyncInv, TestHolds, NeverRefused
<1>2. QED
  BY <1>1, SyncHolds, PTL

-----------------------------------------------------------------------------
(***************************************************************************)
(* Orphans.  A thread is in the table from create_thread() on; it leaves   *)
(* the table when it is cancelled, or as the victim that is joined next.   *)
(* Only SIGINT forgets a victim.                                           *)
(***************************************************************************)
Known(t) == Listed(t) \/ t = victim \/ t \in cancelled
OrphanInv == ~CloseCut => /\ ~Closing => victim = NoThread
                          /\ \A t \in Tids : pc[t] # "none" => Known(t)

\* A step after which everybody left was there before and is known as before.
LEMMA OrphanSame ==
  ASSUME TableInv, OrphanInv, UNCHANGED <<interrupted, victim, working>>, Closing' <=> Closing,
         \A t \in Tids : pc'[t] # "none" =>
           pc[t] # "none" /\ entry'[t] = entry[t] /\ (t \in cancelled => t \in cancelled')
  PROVE  OrphanInv'
BY DEF OrphanInv, Known, Listed, CloseCut

\* The steps of a thread.
LEMMA ThreadOrphan ==
  ASSUME TableInv, OrphanInv, NEW t \in Tids, Step(t) \/ SpuriousWakeup(t)
  PROVE  OrphanInv'
<1> USE DEF Closing, mainVars, tableVars, Goto, TableInv, TypeOK
<1>1. CASE Check(t) \/ Flag(t) \/ Sleep(t) \/ SpuriousWakeup(t) \/ Enter(t) \/ Wait(t) \/ Act(t)
  <2>1. pc[t] # "none" /\ UNCHANGED <<mainVars, tableVars, cancelled>>
        /\ \A u \in Tids \ {t} : pc'[u] = pc[u]
    BY <1>1 DEF Check, Flag, Sleep, SpuriousWakeup, Enter, Wait, Act, Asleep
  <2>2. QED
    BY <2>1, OrphanSame
<1>2. CASE Close(t) \/ ActOnCancel(t)
  <2>1. pc[t] # "none" /\ UNCHANGED <<mainVars, working>>
    BY <1>2 DEF Close, ActOnCancel
  <2>2. \A u \in Tids \ {t} : pc'[u] = pc[u] /\ entry'[u] = entry[u]
                              /\ (u \in cancelled => u \in cancelled')
    BY <1>2 DEF Close, ActOnCancel, Leave
  <2>3. pc'[t] # "none" => UNCHANGED <<entry, cancelled>>
    BY <1>2 DEF Close, ActOnCancel, Leave
  <2>4. QED
    BY <2>1, <2>2, <2>3, OrphanSame
<1>3. ASSUME NEW who \in Tids \cup {MainThread, NoThread}, Signal(t, who)
      PROVE  OrphanInv'
  <2>1. \A u \in Tids : pc'[u] # "none" => pc[u] # "none"
    BY <1>3, TidsAssumption DEF Signal, MayWake, Waiters, MainWaits, Asleep
  <2>2. UNCHANGED <<interrupted, victim, tableVars, cancelled>> /\ (Closing' <=> Closing)
    BY <1>3 DEF Signal, WakeMain
  <2>3. QED
    BY <2>1, <2>2, OrphanSame
<1>4. QED
  BY <1>1, <1>2, <1>3 DEF Step

\* create_thread() finds an entry that nobody is listed under.
LEMMA CreateOrphan ==
  ASSUME TableInv, OrphanInv, NEW command, NEW type \in Types, CreateThread(command, type)
  PROVE  OrphanInv'
<1>1. main = "command" /\ ~quitting /\ count[type] < Limit(type)
  BY DEF CreateThread, MayRead
<1>2. PICK e \in Entries : e = Entry(type, count[type])
  BY <1>1, FreeIndexIs, EntriesAre
<1>3. working[e] = NoThread
  BY <1>1, <1>2, FreeIndexIs DEF TableInv, TypeOK, FlagsMatch, Closing, One
<1>4. PICK t \in FreeTids : /\ working' = [working EXCEPT ![e] = t]
                            /\ entry' = [entry EXCEPT ![t] = e]
                            /\ pc' = [pc EXCEPT ![t] = "check"]
  BY <1>1, <1>2, FreeIndexIs DEF CreateThread, Goto
<1>5. UNCHANGED <<main, interrupted, victim, cancelled>> /\ ~Closing /\ ~Closing'
  BY <1>1 DEF CreateThread, mainVars, Closing
<1>6. t \in Tids /\ entry'[t] = e /\ working'[e] = t
  BY <1>4 DEF FreeTids, TableInv, TypeOK
<1>7. ASSUME NEW u \in Tids, u # t, pc'[u] # "none"
      PROVE  pc[u] # "none" /\ (Listed(u) => Listed(u)')
  <2>1. pc[u] # "none" /\ entry'[u] = entry[u] /\ entry[u] \in Entries
    BY <1>4, <1>6, <1>7 DEF TableInv, TypeOK, EntriesKept
  <2>2. Listed(u) => entry[u] # e
    BY <1>3, <1>7, TidsAssumption DEF Listed
  <2>3. QED
    BY <1>4, <2>1, <2>2 DEF Listed, TableInv, TypeOK
<1>8. ASSUME ~CloseCut', NEW u \in Tids, pc'[u] # "none"
      PROVE  Known(u)'
  <2>1. CASE u = t
    BY <1>6, <2>1 DEF Known, Listed
  <2>2. CASE u # t
    <3>1. Known(u) /\ (Listed(u) => Listed(u)')
      BY <1>5, <1>7, <1>8, <2>2 DEF OrphanInv, CloseCut
    <3>2. QED
      BY <1>5, <3>1 DEF Known
  <2>3. QED
    BY <2>1, <2>2
<1>9. QED
  BY <1>5, <1>8 DEF OrphanInv, CloseCut

\* close_thread_by_ind() takes one thread out of the table, and cancels it or joins it.
LEMMA CloseOrphan ==
  ASSUME TableInv, OrphanInv, main = "command", NEW type \in Types, CloseThread(type)
  PROVE  OrphanInv'
<1>1. PICK e, t :
        /\ t = working[e]
        /\ UNCHANGED <<interrupted, entry, pc>>
        /\ working' = [working EXCEPT ![e] = NoThread]
        /\ \/ cancelled' = cancelled \cup {t} /\ UNCHANGED <<main, victim>>
           \/ victim' = t /\ main' = "broadcast" /\ UNCHANGED cancelled
  BY DEF CloseThread
<1>2. ASSUME NEW u \in Tids, pc[u] # "none", Listed(u), u # t
      PROVE  Listed(u)'
  <2>1. entry[u] # e /\ entry[u] \in Entries
    BY <1>1, <1>2 DEF Listed, TableInv, EntriesKept
  <2>2. QED
    BY <1>1, <1>2, <2>1 DEF Listed, TableInv, TypeOK
<1>3. ~Closing /\ (~Closing' => UNCHANGED victim)
  BY <1>1 DEF Closing
<1>4. ASSUME ~CloseCut', NEW u \in Tids, pc'[u] # "none"
      PROVE  Known(u)'
  <2>1. Known(u) /\ pc[u] # "none" /\ victim = NoThread
    BY <1>1, <1>3, <1>4 DEF OrphanInv, CloseCut
  <2>2. CASE u = t
    BY <1>1, <2>1, <2>2, TidsAssumption DEF Known
  <2>3. CASE u # t
    BY <1>1, <1>2, <2>1, <2>3, TidsAssumption DEF Known
  <2>4. QED
    BY <2>2, <2>3
<1>5. QED
  BY <1>1, <1>3, <1>4 DEF OrphanInv, CloseCut

\* The steps of the main thread.
LEMMA MainOrphan ==
  ASSUME TableInv, OrphanInv, Main \/ Command \/ Interrupt \/ ReduceSpuriousWakeup
  PROVE  OrphanInv'
<1>1. CASE CloseAll \/ CloseLast("-", Producer) \/ CloseLast("_", Consumer)
  BY <1>1, CloseOrphan DEF CloseAll, CloseLast, MayRead, Types
<1>2. CASE CreateThread("+", Producer) \/ CreateThread("*", Consumer)
  BY <1>2, CreateOrphan DEF Types
<1>3. CASE Join
  BY <1>3 DEF Join, Leave, Goto, OrphanInv, Known, Listed, CloseCut, Closing, TableInv, TypeOK
<1>4. CASE Interrupt
  BY <1>4 DEF Interrupt, OrphanInv, Known, Listed, CloseCut, Closing, tableVars
<1>5. CASE Broadcast \/ \E who \in Tids \cup {NoThread} : ExpandSignal(who)
  <2>1. \A t \in Tids : pc'[t] # "none" => pc[t] # "none"
    BY <1>5, TidsAssumption DEF Broadcast, ExpandSignal, MayWake, Waiters, MainWaits, Asleep
  <2>2. UNCHANGED <<interrupted, victim, tableVars, cancelled>> /\ (Closing' <=> Closing)
    BY <1>5 DEF Broadcast, ExpandSignal, Closing
  <2>3. QED
    BY <2>1, <2>2, OrphanSame DEF tableVars
<1>6. CASE \/ ReduceWait \/ ReduceQueue \/ ExpandQueue \/ Exit \/ ReduceAsk \/ ExpandAsk
           \/ ReduceSpuriousWakeup \/ Quit
  <2>1. /\ UNCHANGED <<interrupted, victim, tableVars, pc, cancelled>>
        /\ ~Closing /\ ~Closing'
    BY <1>6
    DEF ReduceWait, ReduceQueue, ExpandQueue, Exit, ReduceAsk, ExpandAsk, ReduceSpuriousWakeup,
        Quit, Closing, MayRead, MainOnly
  <2>2. QED
    BY <2>1, OrphanSame DEF tableVars
<1>7. QED
  BY <1>1, <1>2, <1>3, <1>4, <1>5, <1>6 DEF Main, Command

\* No thread is left going on that no table and no pthread_join() knows, unless it was
\* cancelled, or SIGINT cut off the pthread_join() it was the victim of.
THEOREM OrphansAreCancelled == Spec => []OrphansCancelled
<1>1. Init => OrphanInv
  BY DEF Init, OrphanInv
<1>2. TableInv /\ OrphanInv /\ [Next]_vars => OrphanInv'
  <2>1. ASSUME TableInv, OrphanInv, UNCHANGED vars
        PROVE  OrphanInv'
    BY <2>1 DEF vars, mainVars, tableVars, OrphanInv, Known, Listed, CloseCut, Closing
  <2>2. QED
    BY <2>1, ThreadOrphan, MainOrphan DEF Next
<1>3. OrphanInv => OrphansCancelled
  BY DEF OrphanInv, OrphansCancelled, Known
<1>4. QED
  BY <1>1, <1>2, <1>3, InitTable, TableNext, PTL DEF Spec

-----------------------------------------------------------------------------
(***************************************************************************)
(* Lost wakeups.  Every slot and every message that appears makes one      *)
(* thread aware of it: the one that was woken for it, the one about to     *)
(* signal, or the main thread.  A thread goes to sleep only while it holds *)
(* the mutex and there is nothing for it.                                  *)
(***************************************************************************)
Aware(type) == Told(type) \cup Telling(type)
Enough(type) ==
  Waiters(type) # {} => Supply(type) <= Cardinality(Aware(type)) + MainKnows(type)
Exempt == Abandoned \/ misused \/ SignalCut
CutInv == interrupted = "no" => cut_wait = "no"
WakeInv == CutInv /\ (~Exempt => \A type \in Types : Enough(type))

\* Those woken and those about to signal are different threads.
LEMMA AwareCounts ==
  \A type \in Types :
    /\ Aware(type) \subseteq Tids /\ IsFiniteSet(Aware(type)) /\ Cardinality(Aware(type)) \in Nat
    /\ Cardinality(Aware(type)) = Cardinality(Told(type)) + Cardinality(Telling(type))
<1> SUFFICES ASSUME NEW type \in Types
             PROVE  /\ Aware(type) \subseteq Tids /\ IsFiniteSet(Aware(type))
                    /\ Cardinality(Aware(type)) \in Nat
                    /\ Cardinality(Aware(type)) =
                         Cardinality(Told(type)) + Cardinality(Telling(type))
  OBVIOUS
<1>1. Told(type) \subseteq Tids /\ Telling(type) \subseteq Tids
      /\ Told(type) \cap Telling(type) = {}
  BY DEF Told, Telling
<1>2. IsFiniteSet(Told(type)) /\ IsFiniteSet(Telling(type))
  BY <1>1, TidsAssumption, FS_Subset
<1>3. /\ Cardinality(Told(type)) \in Nat /\ Cardinality(Telling(type)) \in Nat
      /\ Cardinality(Told(type) \cap Telling(type)) = 0
  BY <1>1, <1>2, FS_CardinalityType, FS_EmptySet
<1>4. /\ IsFiniteSet(Aware(type))
      /\ Cardinality(Aware(type)) =
           Cardinality(Told(type)) + Cardinality(Telling(type)) - Cardinality(Told(type) \cap Telling(type))
  BY <1>2, FS_Union DEF Aware
<1>5. QED
  BY <1>1, <1>3, <1>4 DEF Aware

\* Nobody stops being aware, and there is no more to know of.
LEMMA EnoughStays ==
  ASSUME NEW type \in Types, TableInv, TableInv', Enough(type),
         Waiters(type)' # {} => Waiters(type) # {},
         Aware(type) \subseteq Aware(type)', Supply(type)' <= Supply(type),
         MainKnows(type)' >= MainKnows(type)
  PROVE  Enough(type)'
<1>1. IsFiniteSet(Aware(type)') /\ Cardinality(Aware(type)) <= Cardinality(Aware(type)')
  <2>1. Aware(type)' \subseteq Tids
    BY DEF Aware, Told, Telling
  <2>2. QED
    BY <2>1, TidsAssumption, FS_Subset
<1>2. Cardinality(Aware(type)) \in Nat /\ Cardinality(Aware(type)') \in Nat
  BY <1>1, AwareCounts, FS_CardinalityType
<1>3. Supply(type) \in Int /\ Supply(type)' \in Int
  BY DEF TableInv, TypeOK, Supply
<1>4. MainKnows(type) \in Int /\ MainKnows(type)' \in Int
  BY DEF MainKnows
<1>5. QED
  BY <1>1, <1>2, <1>3, <1>4 DEF Enough

\* Where there is nothing to know of, nobody needs to be aware.
LEMMA EnoughNone ==
  ASSUME NEW type \in Types, Supply(type)' = 0
  PROVE  Enough(type)'
<1>1. Aware(type)' \subseteq Tids
  BY DEF Aware, Told, Telling
<1>2. Cardinality(Aware(type)') \in Nat
  BY <1>1, TidsAssumption, FS_Subset, FS_CardinalityType
<1>3. MainKnows(type)' \in Nat
  BY DEF MainKnows
<1>4. QED
  BY <1>2, <1>3 DEF Enough

\* One thread more, or one less, is aware.
LEMMA AwareAdd ==
  ASSUME NEW type \in Types, NEW S, NEW t
  PROVE  /\ t \notin Aware(type) /\ S = Aware(type) \cup {t} =>
              Cardinality(S) = Cardinality(Aware(type)) + 1
         /\ t \in Aware(type) /\ S = Aware(type) \ {t} =>
              Cardinality(S) = Cardinality(Aware(type)) - 1
BY AwareCounts, FS_AddElement, FS_RemoveElement

\* Blocked is having nothing.
LEMMA BlockedSupply ==
  ASSUME TableInv, NEW type \in Types
  PROVE  /\ Supply(type) \in Nat /\ (Blocked(type) <=> Supply(type) = 0)
         /\ len \in Nat /\ max_len \in Nat /\ len <= max_len
BY DEF TableInv, TypeOK, Supply, Blocked, Types, Producer, Consumer

\* The steps of a thread.
LEMMA ThreadWake ==
  ASSUME TableInv, TableInv', SyncInv, \A type \in Types : Enough(type), NEW t \in Tids, Running,
         ~Exempt', Step(t) \/ SpuriousWakeup(t), pc[t] # "none"
  PROVE  \A type \in Types : Enough(type)'
<1> USE DEF ring, mainVars, tableVars
<1>1. /\ pc \in [Tids -> Labels] /\ pc' \in [Tids -> Labels] /\ Type(t) \in Types
      /\ MutexKept /\ TestHolds
  BY EntriesAre DEF TableInv, TypeOK, EntriesKept, Type, SyncInv, Running
<1> SUFFICES ASSUME NEW type \in Types
             PROVE  Enough(type)'
  OBVIOUS
<1>2. CASE Check(t) \/ Flag(t) \/ Sleep(t) \/ Close(t) \/ ActOnCancel(t)
  <2>1. /\ pc[t] \in {"check", "flag", "sleep", "close"} /\ pc'[t] \notin {"asleep", "woken", "act", "signal"}
        /\ UNCHANGED <<main, cut_wait, ring>>
    BY <1>1, <1>2 DEF Check, Flag, Sleep, Close, ActOnCancel, Leave, Goto, Exempt, Abandoned
  <2>2. \A u \in Tids \ {t} : pc'[u] = pc[u] /\ Type(u)' = Type(u) /\ (u \in cancelled' <=> u \in cancelled)
    BY <1>1, <1>2
    DEF Check, Flag, Sleep, Close, ActOnCancel, Leave, Goto, Type, TableInv, TypeOK
  <2>3. /\ Waiters(type)' # {} => Waiters(type) # {}
        /\ Aware(type) \subseteq Aware(type)'
        /\ Supply(type)' = Supply(type) /\ MainKnows(type)' = MainKnows(type)
    BY <2>1, <2>2 DEF Waiters, MainWaits, Asleep, Aware, Told, Telling, Supply, MainKnows
  <2>4. Supply(type) \in Int /\ MainKnows(type) \in Int
    BY BlockedSupply DEF MainKnows
  <2>5. QED
    BY <2>3, <2>4, EnoughStays
<1>3. CASE Enter(t) \/ Wait(t) \/ SpuriousWakeup(t)
  <2>1. /\ UNCHANGED <<main, cut_wait, ring, entry, cancelled>> /\ \A u \in Tids \ {t} : pc'[u] = pc[u]
        /\ pc[t] \in {"lock", "woken", "wait", "asleep"} /\ pc'[t] # "none"
    BY <1>1, <1>3 DEF Enter, Wait, SpuriousWakeup, Asleep, Goto
  <2>2. Supply(type)' = Supply(type) /\ MainKnows(type)' = MainKnows(type)
    BY <2>1 DEF Supply, MainKnows
  <2>3. CASE Type(t) = type /\ Blocked(type) /\ ~SpuriousWakeup(t)
    BY <2>2, <2>3, EnoughNone, BlockedSupply
  <2>4. CASE Type(t) # type
    <3>1. /\ Waiters(type)' # {} => Waiters(type) # {}
          /\ Aware(type) \subseteq Aware(type)'
      BY <2>1, <2>4 DEF Waiters, MainWaits, Asleep, Aware, Told, Telling, Type
    <3>2. Supply(type) \in Int /\ MainKnows(type) \in Int
      BY BlockedSupply DEF MainKnows
    <3>3. QED
      BY <2>2, <3>1, <3>2, EnoughStays
  <2>5. CASE Type(t) = type /\ (~Blocked(type) \/ SpuriousWakeup(t))
    <3>1. pc'[t] \in {"woken", "act"}
      BY <1>1, <1>3, <2>5 DEF Enter, Wait, SpuriousWakeup, Goto, TestHolds
    <3>2. /\ Waiters(type)' # {} => Waiters(type) # {}
          /\ Aware(type) \subseteq Aware(type)'
      BY <2>1, <2>5, <3>1 DEF Waiters, MainWaits, Asleep, Aware, Told, Telling, Type
    <3>3. Supply(type) \in Int /\ MainKnows(type) \in Int
      BY BlockedSupply DEF MainKnows
    <3>4. QED
      BY <2>2, <3>2, <3>3, EnoughStays
  <2>6. QED
    BY <2>3, <2>4, <2>5
<1>4. CASE Act(t)
  <2>1. /\ pc[t] = "act" /\ pc'[t] = "signal" /\ UNCHANGED <<main, cut_wait, entry, cancelled, max_len>>
        /\ \A u \in Tids \ {t} : pc'[u] = pc[u]
        /\ len' = IF Type(t) = Producer THEN len + 1 ELSE len - 1
    BY <1>1, <1>4 DEF Act, Goto, TestHolds
  <2>2. Waiters(type)' = Waiters(type) /\ MainKnows(type)' = MainKnows(type)
    BY <2>1 DEF Waiters, MainWaits, Asleep, Type, MainKnows
  <2>3. Cardinality(Aware(type)) \in Nat /\ MainKnows(type) \in Nat
        /\ Supply(type) \in Nat /\ len \in Nat /\ max_len \in Nat
    BY AwareCounts, BlockedSupply DEF MainKnows
  <2>4. CASE Type(t) = type
    <3>1. t \in Aware(type) /\ Aware(type)' = Aware(type) \ {t}
      BY <2>1, <2>4 DEF Aware, Told, Telling, Type
    <3>2. Cardinality(Aware(type)') = Cardinality(Aware(type)) - 1
      BY <3>1, AwareAdd
    <3>3. Supply(type)' = Supply(type) - 1
      BY <2>1, <2>3, <2>4 DEF Supply, Types, Producer, Consumer
    <3>4. QED
      BY <2>2, <2>3, <3>2, <3>3 DEF Enough
  <2>5. CASE Type(t) # type
    <3>1. t \notin Aware(type) /\ Aware(type)' = Aware(type) \cup {t}
      BY <2>1, <2>5 DEF Aware, Told, Telling, Type
    <3>2. Cardinality(Aware(type)') = Cardinality(Aware(type)) + 1
      BY <3>1, AwareAdd
    <3>3. Supply(type)' = Supply(type) + 1
      BY <1>1, <2>1, <2>3, <2>5 DEF Supply, Types, Producer, Consumer
    <3>4. QED
      BY <2>2, <2>3, <3>2, <3>3 DEF Enough
  <2>6. QED
    BY <2>4, <2>5
<1>5. ASSUME NEW who \in Tids \cup {MainThread, NoThread}, Signal(t, who)
      PROVE  Enough(type)'
  <2> DEFINE other == Other(Type(t))
  <2>1. /\ pc[t] = "signal" /\ MayWake(other, who) /\ pc'[t] = "check"
        /\ UNCHANGED <<entry, cancelled, ring>>
        /\ \A u \in Tids \ {t} : pc'[u] = IF u = who THEN "woken" ELSE pc[u]
        /\ WakeMain(who = MainThread) /\ cut_wait' # "woken"
    BY <1>5 DEF Signal, Exempt, SignalCut
  <2>2. Supply(type)' = Supply(type)
    BY <2>1 DEF Supply
  <2>3. who # NoThread => \/ who \in Tids \ {t} /\ pc[who] = "asleep" /\ Type(who) = other
                          \/ who = MainThread /\ main = "reduce_asleep" /\ other = Producer
    BY <2>1 DEF MayWake, Waiters, MainWaits, Asleep, WakeMain
  <2>4. Waiters(type)' \subseteq Waiters(type)
    BY <2>1, <2>3 DEF Waiters, MainWaits, Asleep, Type, WakeMain
  <2>5. /\ Cardinality(Aware(type)) \in Nat /\ MainKnows(type) \in Nat
        /\ Supply(type) \in Nat
    BY AwareCounts, BlockedSupply DEF MainKnows
  <2>6. CASE type # other
    <3>1. type = Type(t)
      BY <1>1, <2>6, TypesAre
    <3>2. Aware(type) \subseteq Aware(type)'
      BY <2>1, <2>3, <3>1, TidsAssumption DEF Aware, Told, Telling, Type
    <3>3. MainKnows(type)' >= MainKnows(type)
      BY <2>1, <2>3, <2>6, TidsAssumption DEF MainKnows, WakeMain
    <3>4. QED
      BY <2>2, <2>4, <2>5, <3>2, <3>3, EnoughStays
  <2>7. CASE type = other /\ who = NoThread
    <3>1. Waiters(type) = {}
      BY <2>1, <2>7, TidsAssumption DEF MayWake, Waiters, MainWaits, Asleep
    <3>2. QED
      BY <2>4, <3>1 DEF Enough
  <2>8. CASE type = other /\ who \in Tids
    <3>1. t # who /\ type # Type(t) /\ pc[who] = "asleep" /\ Type(who) = type /\ UNCHANGED main
      BY <1>1, <2>1, <2>3, <2>8, TypesAre, TidsAssumption DEF WakeMain
    <3>2. t \in Aware(type) /\ who \notin Aware(type) /\ Aware(type)' = (Aware(type) \ {t}) \cup {who}
      BY <2>1, <3>1, <2>8 DEF Aware, Told, Telling, Type
    <3>3. /\ IsFiniteSet(Aware(type) \ {t}) /\ who \notin Aware(type) \ {t}
          /\ Cardinality(Aware(type) \ {t}) = Cardinality(Aware(type)) - 1
      BY <3>2, AwareCounts, FS_RemoveElement
    <3>4. Cardinality(Aware(type)') = Cardinality(Aware(type) \ {t}) + 1
      BY <3>2, <3>3, FS_AddElement
    <3>5. MainKnows(type)' = MainKnows(type)
      BY <3>1 DEF MainKnows
    <3>6. QED
      BY <2>2, <2>4, <2>5, <3>3, <3>4, <3>5 DEF Enough
  <2>9. CASE type = other /\ who = MainThread
    <3>1. type # Type(t) /\ main = "reduce_asleep" /\ main' = "reduce_woken" /\ type = Producer
      BY <1>1, <2>1, <2>3, <2>9, TypesAre, TidsAssumption DEF WakeMain
    <3>2. t \in Aware(type) /\ Aware(type)' = Aware(type) \ {t}
      BY <2>1, <2>9, <3>1, TidsAssumption DEF Aware, Told, Telling, Type
    <3>3. Cardinality(Aware(type)') = Cardinality(Aware(type)) - 1
      BY <3>2, AwareAdd
    <3>4. MainKnows(type) = 0 /\ MainKnows(type)' = 1
      BY <3>1 DEF MainKnows
    <3>5. QED
      BY <2>2, <2>4, <2>5, <3>3, <3>4 DEF Enough
  <2>10. QED
    BY <2>6, <2>7, <2>8, <2>9
<1>6. QED
  BY <1>2, <1>3, <1>4, <1>5 DEF Step

\* Where no thread changes and the ring keeps its length, the awareness stays.
LEMMA MainWakeSame ==
  ASSUME TableInv, TableInv', NEW type \in Types, Enough(type), UNCHANGED ring,
         MainKnows(type)' = MainKnows(type),
         Waiters(type)' # {} => Waiters(type) # {},
         \A u \in Tids : pc[u] \in {"woken", "act", "signal"} => pc'[u] = pc[u] /\ entry'[u] = entry[u]
  PROVE  Enough(type)'
<1>1. Aware(type) \subseteq Aware(type)' /\ Supply(type)' = Supply(type)
  BY DEF Aware, Told, Telling, Type, Supply, ring
<1>2. Supply(type) \in Int /\ MainKnows(type) \in Int
  BY BlockedSupply DEF MainKnows
<1>3. QED
  BY <1>1, <1>2, EnoughStays

\* The steps of the main thread.
LEMMA MainWake ==
  ASSUME TableInv, TableInv', \A type \in Types : Enough(type), ~Exempt',
         Main \/ Command \/ Interrupt \/ ReduceSpuriousWakeup
  PROVE  \A type \in Types : Enough(type)'
<1> USE DEF ring, mainVars, tableVars, MainOnly
<1> SUFFICES ASSUME NEW type \in Types
             PROVE  Enough(type)'
  OBVIOUS
<1>1. pc \in [Tids -> Labels] /\ entry \in [Tids -> Entries \cup {NoEntry}]
  BY DEF TableInv, TypeOK
<1>2. CASE CreateThread("+", Producer) \/ CreateThread("*", Consumer)
  <2>1. PICK t \in FreeTids : /\ pc' = [pc EXCEPT ![t] = "check"]
                              /\ \E e : entry' = [entry EXCEPT ![t] = e]
    BY <1>2 DEF CreateThread, Goto
  <2>2. t \in Tids /\ pc[t] = "none" /\ UNCHANGED <<ring, main, cut_wait, cancelled>>
    BY <1>2, <2>1 DEF FreeTids, CreateThread
  <2>3. MainKnows(type)' = MainKnows(type) /\ (Waiters(type)' # {} => Waiters(type) # {})
    BY <1>1, <2>1, <2>2 DEF MainKnows, Waiters, MainWaits, Asleep, Type
  <2>4. QED
    BY <1>1, <2>1, <2>2, <2>3, MainWakeSame
<1>3. CASE Join
  <2>1. /\ pc' = [pc EXCEPT ![victim] = "none"] /\ entry' = [entry EXCEPT ![victim] = NoEntry]
        /\ pc[victim] = "ended" /\ cancelled' = cancelled \ {victim} /\ victim \in Tids
        /\ main = "join" /\ main' = "command" /\ UNCHANGED <<cut_wait, ring>>
    BY <1>3 DEF Join, Leave, Goto, TableInv, VictimKept, Closing
  <2>2. MainKnows(type)' = MainKnows(type) /\ (Waiters(type)' # {} => Waiters(type) # {})
    BY <1>1, <2>1 DEF MainKnows, Waiters, MainWaits, Asleep, Type
  <2>3. QED
    BY <1>1, <2>1, <2>2, MainWakeSame
<1>4. CASE CloseAll \/ CloseLast("-", Producer) \/ CloseLast("_", Consumer)
  <2>1. /\ UNCHANGED <<pc, entry, cut_wait, ring>> /\ cancelled \subseteq cancelled'
        /\ main = "command" /\ main' \in {"command", "broadcast"}
    BY <1>4 DEF CloseAll, CloseLast, CloseThread, MayRead
  <2>2. MainKnows(type)' = MainKnows(type) /\ (Waiters(type)' # {} => Waiters(type) # {})
    BY <2>1 DEF MainKnows, Waiters, MainWaits, Asleep, Type
  <2>3. QED
    BY <2>1, <2>2, MainWakeSame
<1>5. CASE Broadcast
  <2>1. /\ UNCHANGED <<entry, cancelled, ring>> /\ main = "broadcast" /\ main' = "join"
        /\ \A u \in Tids : pc'[u] = pc[u] \/ (pc[u] = "asleep" /\ pc'[u] = "woken")
        /\ cut_wait' \in {cut_wait, "woken"}
    BY <1>5 DEF Broadcast, Asleep
  <2>2. MainKnows(type)' = MainKnows(type) /\ (Waiters(type)' # {} => Waiters(type) # {})
    BY <2>1 DEF MainKnows, Waiters, MainWaits, Asleep, Type
  <2>3. QED
    BY <2>1, <2>2, MainWakeSame
<1>6. CASE Interrupt
  <2>1. /\ UNCHANGED <<pc, entry, cancelled, ring>> /\ main' = "command"
        /\ main \notin {"expand_signal", "reduce_woken"}
        /\ cut_wait' = IF main = "reduce_asleep" THEN "asleep" ELSE "no"
    BY <1>6 DEF Interrupt, CutWait, Exempt, Abandoned, SignalCut
  <2>2. Waiters(type)' # {} => Waiters(type) # {}
    BY <2>1 DEF Waiters, MainWaits, Asleep, Type
  <2>3. MainKnows(type)' = MainKnows(type)
    BY <2>1 DEF MainKnows
  <2>4. QED
    BY <2>1, <2>2, <2>3, MainWakeSame
<1>7. CASE Exit \/ ReduceAsk \/ ExpandAsk \/ Quit
  <2>1. /\ UNCHANGED <<pc, entry, cut_wait, cancelled, ring>>
        /\ main = "command" /\ main' \in {"command", "done", "reduce", "expand"}
    BY <1>7 DEF Exit, ReduceAsk, ExpandAsk, Quit, MayRead
  <2>2. MainKnows(type)' = MainKnows(type) /\ (Waiters(type)' # {} => Waiters(type) # {})
    BY <2>1 DEF MainKnows, Waiters, MainWaits, Asleep, Type
  <2>3. QED
    BY <2>1, <2>2, MainWakeSame
<1>8. CASE ReduceWait
  <2>1. /\ UNCHANGED <<pc, entry, cut_wait, cancelled, ring>> /\ len = max_len
        /\ main \in {"reduce", "reduce_woken"} /\ main' = "reduce_asleep"
    BY <1>8 DEF ReduceWait
  <2>2. CASE type = Producer
    <3>1. Supply(type)' = 0
      BY <2>1, <2>2 DEF Supply, TableInv, TypeOK
    <3>2. QED
      BY <3>1, EnoughNone
  <2>3. CASE type # Producer
    <3>1. MainKnows(type)' = MainKnows(type) /\ (Waiters(type)' # {} => Waiters(type) # {})
      BY <2>1, <2>3 DEF MainKnows, Waiters, MainWaits, Asleep, Type
    <3>2. QED
      BY <2>1, <3>1, MainWakeSame
  <2>4. QED
    BY <2>2, <2>3
<1>9. CASE ReduceQueue \/ ExpandQueue
  <2>1. /\ UNCHANGED <<pc, entry, cut_wait, cancelled, len>>
        /\ \/ /\ main \in {"reduce", "reduce_woken"} /\ main' = "command"
              /\ len # max_len /\ max_len' = IF max_len = 0 THEN max_len ELSE max_len - 1
           \/ /\ main = "expand" /\ main' = "expand_signal"
              /\ max_len' = max_len + 1
    BY <1>9 DEF ReduceQueue, ExpandQueue
  <2>2. Waiters(type)' = Waiters(type) /\ Aware(type)' = Aware(type)
    BY <2>1 DEF Waiters, MainWaits, Asleep, Aware, Told, Telling, Type
  <2>3. /\ Cardinality(Aware(type)) \in Nat /\ Supply(type) \in Nat
        /\ len \in Nat /\ max_len \in Nat /\ len <= max_len
    BY AwareCounts, BlockedSupply
  <2>4. CASE type = Producer
    <3>1. MainKnows(type) \in {0, 1} /\ MainKnows(type)' \in {0, 1}
      BY DEF MainKnows
    <3>2. CASE main = "expand" /\ main' = "expand_signal"
      <4>1. MainKnows(type)' = 1 /\ MainKnows(type) = 0
        BY <2>4, <3>2 DEF MainKnows
      <4>2. Supply(type)' = Supply(type) + 1
        BY <2>1, <2>3, <2>4, <3>2 DEF Supply
      <4>3. QED
        BY <2>2, <2>3, <4>1, <4>2 DEF Enough
    <3>3. CASE main \in {"reduce", "reduce_woken"}
      <4>1. Supply(type)' = Supply(type) - 1
        BY <2>1, <2>3, <2>4, <3>3 DEF Supply
      <4>2. QED
        BY <2>2, <2>3, <3>1, <4>1 DEF Enough
    <3>4. QED
      BY <2>1, <3>2, <3>3
  <2>5. CASE type # Producer
    <3>1. MainKnows(type)' = MainKnows(type) /\ Supply(type)' = Supply(type)
      BY <2>1, <2>5 DEF MainKnows, Supply
    <3>2. QED
      BY <2>2, <3>1 DEF Enough
  <2>6. QED
    BY <2>4, <2>5
<1>10. CASE ReduceSpuriousWakeup
  <2>1. /\ UNCHANGED <<pc, entry, cut_wait, cancelled, ring>>
        /\ main = "reduce_asleep" /\ main' = "reduce_woken"
    BY <1>10 DEF ReduceSpuriousWakeup
  <2>2. /\ Waiters(type)' # {} => Waiters(type) # {}
        /\ Aware(type) \subseteq Aware(type)' /\ Supply(type)' = Supply(type)
        /\ MainKnows(type)' >= MainKnows(type)
    BY <2>1 DEF Waiters, MainWaits, Asleep, Aware, Told, Telling, Type, Supply, MainKnows
  <2>3. Supply(type) \in Int
    BY BlockedSupply
  <2>4. QED
    BY <2>2, <2>3, EnoughStays
<1>11. ASSUME NEW who \in Tids \cup {NoThread}, ExpandSignal(who)
       PROVE  Enough(type)'
  <2>1. /\ UNCHANGED <<entry, cut_wait, cancelled, ring>>
        /\ main = "expand_signal" /\ main' = "command" /\ MayWake(Producer, who)
        /\ \A u \in Tids : pc'[u] = IF u = who THEN "woken" ELSE pc[u]
    BY <1>11 DEF ExpandSignal
  <2>2. who # NoThread => who \in Tids /\ pc[who] = "asleep" /\ Type(who) = Producer
    BY <1>11, <2>1, TidsAssumption DEF MayWake, Waiters, MainWaits, Asleep
  <2>3. Waiters(type)' \subseteq Waiters(type)
    BY <2>1, <2>2, TidsAssumption DEF Waiters, MainWaits, Asleep, Type
  <2>4. CASE type # Producer
    <3>1. Aware(type) \subseteq Aware(type)' /\ Supply(type)' = Supply(type)
          /\ MainKnows(type)' = MainKnows(type) /\ MainKnows(type) \in Int
      BY <2>1, <2>2, <2>4, TidsAssumption DEF Aware, Told, Telling, Type, Supply, MainKnows
    <3>2. Supply(type) \in Int
      BY BlockedSupply
    <3>3. QED
      BY <2>3, <3>1, <3>2, EnoughStays
  <2>5. CASE type = Producer /\ who = NoThread
    <3>1. Waiters(type) = {}
      BY <2>1, <2>5, TidsAssumption DEF MayWake, Waiters, MainWaits, Asleep
    <3>2. QED
      BY <2>3, <3>1 DEF Enough
  <2>6. CASE type = Producer /\ who # NoThread
    <3>1. who \notin Aware(type) /\ Aware(type)' = Aware(type) \cup {who}
      BY <2>1, <2>2, <2>6 DEF Aware, Told, Telling, Type
    <3>2. Cardinality(Aware(type)') = Cardinality(Aware(type)) + 1
      BY <3>1, AwareAdd
    <3>3. MainKnows(type) = 1 /\ MainKnows(type)' = 0 /\ Supply(type)' = Supply(type)
      BY <2>1, <2>6 DEF MainKnows, Supply
    <3>4. Cardinality(Aware(type)) \in Nat /\ Supply(type) \in Nat
      BY AwareCounts, BlockedSupply
    <3>5. QED
      BY <2>3, <3>2, <3>3, <3>4 DEF Enough
  <2>7. QED
    BY <2>4, <2>5, <2>6
<1>12. QED
  BY <1>2, <1>3, <1>4, <1>5, <1>6, <1>7, <1>8, <1>9, <1>10, <1>11 DEF Main, Command

\* What lets the model off does not end: a thread that left with the mutex never gives
\* it back, and SIGINT is handled once.
LEMMA ExemptStays ==
  ASSUME TableInv, SyncInv, CutInv, Next, Exempt
  PROVE  Exempt'
<1>1. Running /\ ~misused /\ MutexKept
  BY DEF Next, Running, Step, Main, SyncInv
<1>2. interrupted # "no" => UNCHANGED interrupted /\ (cut_wait = "woken" => cut_wait' = "woken")
  <2>1. ASSUME Main \/ Command \/ Interrupt \/ ReduceSpuriousWakeup, interrupted # "no"
        PROVE  UNCHANGED interrupted /\ (cut_wait = "woken" => cut_wait' = "woken")
    BY <2>1
    DEF Main, Command, Interrupt, ReduceSpuriousWakeup, Broadcast, Join, ReduceWait, ReduceQueue,
        ExpandQueue, ExpandSignal, CloseAll, Exit, CreateThread, CloseLast, CloseThread, ReduceAsk,
        ExpandAsk, Quit, MainOnly, mainVars
  <2>2. ASSUME NEW t \in Tids, Step(t) \/ SpuriousWakeup(t)
        PROVE  UNCHANGED interrupted /\ (cut_wait = "woken" => cut_wait' = "woken")
    BY <2>2
    DEF Step, Check, Flag, Close, Sleep, Enter, Wait, Act, Signal, WakeMain, ActOnCancel,
        SpuriousWakeup, mainVars
  <2>3. QED
    BY <2>1, <2>2 DEF Next
<1>3. Abandoned => Abandoned' \/ misused'
  <2>1. ASSUME Main \/ Command \/ Interrupt \/ ReduceSpuriousWakeup
        PROVE  Abandoned => Abandoned'
    BY <2>1, TidsAssumption
    DEF Main, Command, Interrupt, ReduceSpuriousWakeup, Broadcast, Join, ReduceWait, ReduceQueue,
        ExpandQueue, ExpandSignal, CloseAll, Exit, CreateThread, CloseLast, CloseThread, ReduceAsk,
        ExpandAsk, Quit, MainOnly, Abandoned
  <2>2. ASSUME NEW t \in Tids, Step(t) \/ SpuriousWakeup(t), Abandoned
        PROVE  Abandoned' \/ misused'
    <3>1. queue_mutex = Departed /\ t # Departed /\ NoThread # Departed /\ pc[t] \notin Inside
      BY <1>1, <2>2, TidsAssumption DEF Abandoned, MutexKept
    <3>2. QED
      BY <2>2, <3>1
      DEF Step, Check, Flag, Close, Sleep, Enter, Lock, Wait, Act, Signal, ActOnCancel,
          SpuriousWakeup, Abandoned, Inside
  <2>3. QED
    BY <2>1, <2>2 DEF Next, Abandoned
<1>4. SignalCut => SignalCut'
  BY <1>2 DEF SignalCut, CutInv
<1>5. QED
  BY <1>1, <1>3, <1>4 DEF Exempt, Abandoned

\* Only SIGINT cuts pthread_cond_wait() off.
LEMMA CutKept ==
  ASSUME TableInv, CutInv, [Next]_vars
  PROVE  CutInv'
<1>1. ASSUME Main \/ Command \/ ReduceSpuriousWakeup
      PROVE  CutInv'
  BY <1>1
  DEF Main, Command, ReduceSpuriousWakeup, Broadcast, Join, ReduceWait, ReduceQueue, ExpandQueue,
      ExpandSignal, CloseAll, Exit, CreateThread, CloseLast, CloseThread, ReduceAsk, ExpandAsk,
      Quit, MainOnly, mainVars, CutInv
<1>2. ASSUME Interrupt
      PROVE  CutInv'
  BY <1>2 DEF Interrupt, TableInv, TypeOK, MainLabels, CutInv
<1>3. ASSUME NEW t \in Tids, Step(t) \/ SpuriousWakeup(t)
      PROVE  CutInv'
  BY <1>3
  DEF Step, Check, Flag, Close, Sleep, Enter, Wait, Act, Signal, WakeMain, ActOnCancel,
      SpuriousWakeup, mainVars, CutInv
<1>4. CASE UNCHANGED vars
  BY <1>4 DEF vars, mainVars, CutInv
<1>5. QED
  BY <1>1, <1>2, <1>3, <1>4 DEF Next

\* No signal is lost: while a thread sleeps on a condition, every slot or message it
\* could use has somebody else awake to take it, or about to wake the sleeper.  Neither
\* cancelled threads nor spurious wakeups nor "r" and "e" break this.
THEOREM NoWakeupLost == Spec => []NoLostWakeup
<1>1. Init => WakeInv
  <2>1. ASSUME Init, NEW type \in Types
        PROVE  Waiters(type) = {}
    BY <2>1 DEF Init, Waiters, MainWaits, Asleep
  <2>2. QED
    BY <2>1 DEF Init, WakeInv, Enough, CutInv
<1>2. ASSUME TableInv, SyncInv, WakeInv, [Next]_vars
      PROVE  WakeInv'
  <2> CutInv'
    BY <1>2, CutKept DEF WakeInv
  <2>1. CASE Next
    <3>1. SUFFICES ASSUME ~Exempt'
                   PROVE  \A type \in Types : Enough(type)'
      BY DEF WakeInv
    <3>2. TableInv' /\ \A type \in Types : Enough(type)
      BY <1>2, <2>1, <3>1, TableNext, ExemptStays DEF WakeInv
    <3>3. CASE Main \/ (Running /\ (Command \/ Interrupt \/ ReduceSpuriousWakeup))
      BY <1>2, <3>1, <3>2, <3>3, MainWake
    <3>4. ASSUME NEW t \in Tids, Step(t) \/ (Running /\ SpuriousWakeup(t))
          PROVE  \A type \in Types : Enough(type)'
      <4>1. pc[t] # "none"
        <5>1. ASSUME NEW who, Signal(t, who)
              PROVE  pc[t] # "none"
          BY <5>1 DEF Signal
        <5>2. QED
          BY <3>4, <5>1 DEF Step, Check, Flag, Close, Sleep, Enter, Wait, Act, ActOnCancel,
                            SpuriousWakeup, Asleep
      <4>2. Running
        BY <3>4 DEF Step
      <4>3. QED
        BY <1>2, <3>1, <3>2, <3>4, <4>1, <4>2, ThreadWake
    <3>5. QED
      BY <2>1, <3>3, <3>4 DEF Next
  <2>2. CASE UNCHANGED vars
    <3>1. \A type \in Types : Enough(type) => Enough(type)'
      BY <2>2 DEF vars, mainVars, tableVars, ring, Enough, Waiters, MainWaits, Asleep, Aware, Told, Telling,
                  Type, Supply, MainKnows
    <3>2. Exempt <=> Exempt'
      BY <2>2 DEF vars, mainVars, Exempt, Abandoned, SignalCut
    <3>3. QED
      BY <1>2, <3>1, <3>2 DEF WakeInv
  <2>3. QED
    BY <1>2, <2>1, <2>2
<1>3. WakeInv => NoLostWakeup
  BY AwareCounts DEF WakeInv, Exempt, Enough, NoLostWakeup
<1>4. QED
  BY <1>1, <1>2, <1>3, SyncHolds, PTL DEF Spec
=============================================================================
