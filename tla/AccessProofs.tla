---------------------------- MODULE AccessProofs ----------------------------
(***************************************************************************)
(* Proofs about AccessManager, for any files and programs, whatever names  *)
(* they share, and any number of interrupted runs.                         *)
(***************************************************************************)
EXTENDS AccessManager, SequenceTheorems, TLAPS

-----------------------------------------------------------------------------
(***************************************************************************)
(* Lemmas about pairs, names and contents.                                 *)
(***************************************************************************)

\* Each turn has a file and a program.
LEMMA TurnsAre ==
  ASSUME NEW t \in Turns
  PROVE  t \in Nat /\ FileOf(t) \in DOMAIN Files /\ ProgramOf(t) \in DOMAIN Programs
<1> DEFINE F == Len(Files)
           P == Len(Programs)
<1>1. F \in Nat /\ P \in Nat /\ DOMAIN Files = 1 .. F /\ DOMAIN Programs = 1 .. P
  BY FilesAssumption, ProgramsAssumption
<1>2. t \in 1 .. F * P
  BY DEF Turns
<1> HIDE DEF F, P
<1>3. P > 0
  BY <1>1, <1>2
<1>4. PICK q \in Int, r \in 0 .. P - 1 : /\ t - 1 = P * q + r
                                         /\ q = (t - 1) \div P /\ r = (t - 1) % P
  BY <1>1, <1>2, <1>3
<1>5. q >= 0
  BY <1>1, <1>2, <1>4
<1>6. q < F
  <2>1. SUFFICES ASSUME q >= F PROVE FALSE
    BY <1>1
  <2>2. P * q >= P * F
    BY <2>1, <1>1, <1>3
  <2>3. QED
    BY <2>2, <1>1, <1>2, <1>4
<1>7. QED
  BY <1>1, <1>2, <1>4, <1>5, <1>6 DEF FileOf, ProgramOf, P

\* Names are sequences, and the output of a pair is not in the file of its copy.
LEMMA NamesDiffer ==
  ASSUME NEW t \in Turns
  PROVE  TempOut(t) # ModifyFilename(t)
<1>1. Files[FileOf(t)].base \in Seq(STRING) /\ Programs[ProgramOf(t)] \in Seq(STRING)
  <2>1. FileOf(t) \in DOMAIN Files /\ ProgramOf(t) \in DOMAIN Programs
    BY TurnsAre
  <2>2. Files[FileOf(t)] \in [base : Seq(STRING), ext : Nat]
    <3>1. \A i \in DOMAIN Files : Files[i] \in [base : Seq(STRING), ext : Nat]
      <4>1. \A S : \A s \in Seq(S) : \A i \in DOMAIN s : s[i] \in S
        OBVIOUS
      <4>2. QED
        BY <4>1, FilesAssumption
    <3>2. QED
      BY <2>1, <3>1
  <2>3. Programs[ProgramOf(t)] \in Seq(STRING)
    BY <2>1, ProgramsAssumption
  <2>4. QED
    BY <2>2, <2>3
<1> DEFINE S == STRING \cup {Underscore}
<1>2. ModifyFilename(t) \in Seq(S)
  <2>1. <<Underscore>> \in Seq(S)
    OBVIOUS
  <2>2. Files[FileOf(t)].base \in Seq(S) /\ Programs[ProgramOf(t)] \in Seq(S)
    BY <1>1
  <2>3. QED
    BY <2>1, <2>2 DEF ModifyFilename
<1>3. Len(TempOut(t)) = Len(ModifyFilename(t)) + 1 /\ Len(ModifyFilename(t)) \in Nat
  BY <1>2 DEF TempOut
<1>4. QED
  BY <1>3

\* A changed copy is not what it was.
LEMMA ContentsDiffer == \A t, u : Original(t) # Changed(u)
BY DEF Original, Changed

-----------------------------------------------------------------------------
(***************************************************************************)
(* What is known of a pair and of its files, wherever the program is.      *)
(***************************************************************************)
InTurn == pc \in {"execute", "program", "compare", "collect"}

\* Pairs that get a copy, and those among them that get as far as a program.
Given(t) == IsMatch(t) /\ ~IsPath(ModifyFilename(t))
Ran(t) == Given(t) /\ FileOf(t) \notin Unreadable

\* Results belong to the pairs that have come to one, and depend on the names first.
Told ==
  /\ InTurn => Ran(turn)
  /\ pc = "start" => turn = 1
  /\ pc = "done" => turn \notin Turns
  /\ \A t \in Turns :
       /\ result[t] = "none" <=> t > turn \/ (t = turn /\ pc \notin {"compare", "collect"})
       /\ result[t] = "skipped" => ~Given(t)
       /\ result[t] = "emptied" => Given(t) /\ ~Ran(t)
       /\ result[t] \notin {"none", "skipped", "emptied"} => Ran(t)

\* What is in the copy of the pair in hand.
CopyIs(contents) == LET copy == ModifyFilename(turn) IN copy \in DOMAIN dir /\ dir[copy] = contents
NoCopy == ModifyFilename(turn) \notin DOMAIN dir
AtCopy ==
  /\ pc \in {"execute", "program", "compare"} => before_hash = Original(turn)
  /\ pc \in {"execute", "program"} => CopyIs(Original(turn))
  /\ pc = "compare" =>
       /\ result[turn] = "changed" => CopyIs(Changed(turn))
       /\ result[turn] = "removed" => NoCopy
       /\ result[turn] \notin {"changed", "removed"} => CopyIs(Original(turn))
  /\ pc = "collect" =>
       /\ result[turn] = "changed" => CopyIs(Changed(turn))
       /\ result[turn] # "changed" => NoCopy

\* The names of a pair, and whether it has got to them.
HasName(t, name) == Given(t) /\ (name = ModifyFilename(t) \/ (name = TempOut(t) /\ Ran(t)))
Begun(t) == t < turn \/ (t = turn /\ InTurn)

\* A name in the directory is a copy that is to stay, or one that a pair still to come,
\* or the one in hand, has for its own.
Stays(name) ==
  \E t \in Turns : /\ t < turn
                   /\ ModifyFilename(t) = name
                   /\ result[t] \in {"changed", "emptied"}
                   /\ \A u \in Turns : u > t => ~(Begun(u) /\ HasName(u, name))
Due(name) == \E u \in Turns : u >= turn /\ HasName(u, name)
Accounted ==
  /\ \A name \in DOMAIN dir : Stays(name) \/ Due(name)
  /\ pc = "done" => (copy_dir <=> DOMAIN dir # {})

LoopInv == TypeOK /\ Told /\ AtCopy

\* The first state.
LEMMA InitLoop == Init => LoopInv /\ Accounted /\ ChangedCopyKept
<1> SUFFICES ASSUME Init PROVE LoopInv /\ Accounted /\ ChangedCopyKept
  OBVIOUS
<1>1. Len(Files) * Len(Programs) \in Nat
  BY FilesAssumption, ProgramsAssumption
<1>2. TypeOK
  <2>1. turn \in 1 .. Len(Files) * Len(Programs) + 1
    BY <1>1 DEF Init
  <2>2. DOMAIN output = DOMAIN Programs /\ DOMAIN dir \subseteq Names
    BY DEF Init
  <2>3. result \in [Turns -> Results]
    BY DEF Init, Results
  <2>4. run \in 1 .. MAX_RUNS /\ pc = "start"
    BY RunsAssumption DEF Init
  <2>5. copy_dir \in BOOLEAN
    BY DEF Init
  <2>6. QED
    BY <2>1, <2>2, <2>3, <2>4, <2>5 DEF TypeOK
<1>3. Told
  BY DEF Init, Told, InTurn, Turns
<1>4. AtCopy
  BY DEF Init, AtCopy
<1>5. Accounted /\ ChangedCopyKept
  BY DEF Init, Accounted, ChangedCopyKept
<1>6. QED
  BY <1>2, <1>3, <1>4, <1>5 DEF LoopInv

\* Every step keeps the types.
LEMMA TypeNext == LoopInv /\ [Next]_vars => TypeOK'
<1> SUFFICES ASSUME LoopInv, [Next]_vars PROVE TypeOK'
  OBVIOUS
<1> USE DEF LoopInv, TypeOK
<1>1. /\ Len(Files) * Len(Programs) \in Nat
      /\ Turns = 1 .. Len(Files) * Len(Programs)
      /\ \A t \in Turns : ModifyFilename(t) \in Names /\ TempOut(t) \in Names
  BY FilesAssumption, ProgramsAssumption DEF Turns, Names, Copies
<1>2. \A name : /\ DOMAIN Without(name) = DOMAIN dir \ {name}
                /\ \A contents : Write(name, contents) => DOMAIN dir' = DOMAIN dir \cup {name}
  BY DEF Without, Write
<1>3. \A what \in Results : Outcome(what) /\ turn \in Turns => result' \in [Turns -> Results]
  BY DEF Outcome
<1>4. CASE UNCHANGED vars
  BY <1>4 DEF vars, diskVars
<1>5. CASE MakeDir \/ Finish
  BY <1>5 DEF MakeDir, Finish
<1>6. CASE SkipPair
  BY <1>6, <1>1, <1>3 DEF SkipPair, AtPair, Results, diskVars
<1>7. CASE EmptyCopy \/ CopyFile
  <2>1. turn \in Turns /\ DOMAIN dir' = DOMAIN dir \cup {ModifyFilename(turn)}
    BY <1>7, <1>2 DEF EmptyCopy, CopyFile, AtPair
  <2>2. result' \in [Turns -> Results]
    BY <1>7, <1>3, <2>1 DEF EmptyCopy, CopyFile, Results
  <2>3. turn' \in 1 .. Len(Files) * Len(Programs) + 1 /\ (pc' = "execute" => turn' \in Turns)
    BY <1>7, <1>1, <2>1 DEF EmptyCopy, CopyFile, AtPair
  <2>4. DOMAIN dir' \subseteq Names
    BY <1>1, <2>1
  <2>5. pc' \in {"turn", "execute"} /\ UNCHANGED <<output, copy_dir, run>>
    BY <1>7 DEF EmptyCopy, CopyFile, AtPair
  <2>6. QED
    BY <2>2, <2>3, <2>4, <2>5
<1>8. CASE NotExecuted \/ ExecuteProgram \/ ProgramSilent
  <2>1. turn \in Turns /\ UNCHANGED <<turn, output, copy_dir, run>>
    BY <1>8 DEF NotExecuted, ExecuteProgram, ProgramSilent, diskVars
  <2>2. DOMAIN dir' \subseteq DOMAIN dir \cup {TempOut(turn)}
    BY <1>8, <1>2 DEF NotExecuted, ExecuteProgram, ProgramSilent, diskVars
  <2>3. DOMAIN dir' \subseteq Names
    BY <1>1, <2>1, <2>2
  <2>4. result' \in [Turns -> Results]
    BY <1>8, <1>3, <2>1 DEF NotExecuted, ExecuteProgram, ProgramSilent, Results
  <2>5. pc' \in {"compare", "program"}
    BY <1>8 DEF NotExecuted, ExecuteProgram, ProgramSilent
  <2>6. QED
    BY <2>1, <2>3, <2>4, <2>5
<1>9. CASE Program
  <2>1. DOMAIN dir' \subseteq DOMAIN dir
    BY <1>9, <1>2 DEF Program
  <2>2. QED
    BY <1>9, <2>1, <1>3 DEF Program, Results
<1>10. CASE CompareHashes
  <2>1. DOMAIN dir' \subseteq DOMAIN dir
    BY <1>10, <1>2 DEF CompareHashes
  <2>2. pc' = "collect" /\ UNCHANGED <<turn, output, copy_dir, run, result>>
    BY <1>10 DEF CompareHashes
  <2>3. turn \in Turns
    BY <1>10 DEF CompareHashes
  <2>4. QED
    BY <2>1, <2>2, <2>3
<1>11. CASE PrintOutputAndRemove
  <2>1. turn \in Turns /\ turn' = turn + 1 /\ pc' = "turn" /\ UNCHANGED <<copy_dir, run, result>>
    BY <1>11 DEF PrintOutputAndRemove
  <2>2. DOMAIN dir' \subseteq DOMAIN dir /\ DOMAIN output' = DOMAIN output
    BY <1>11, <1>2 DEF PrintOutputAndRemove
  <2>3. turn' \in 1 .. Len(Files) * Len(Programs) + 1
    BY <1>1, <2>1
  <2>4. QED
    BY <2>1, <2>2, <2>3
<1>12. CASE StartAgain
  BY <1>12, <1>1, RunsAssumption DEF StartAgain, Start, Results, diskVars
<1>13. QED
  BY <1>4, <1>5, <1>6, <1>7, <1>8, <1>9, <1>10, <1>11, <1>12 DEF Next

\* Results are told when a pair has come to its end, and never change within a run.
LEMMA ToldNext == LoopInv /\ [Next]_vars => Told'
<1> SUFFICES ASSUME LoopInv, [Next]_vars PROVE Told'
  OBVIOUS
<1> USE DEF LoopInv, Told
<1>1. /\ Len(Files) * Len(Programs) \in Nat
      /\ Turns = 1 .. Len(Files) * Len(Programs)
      /\ turn \in 1 .. Len(Files) * Len(Programs) + 1
      /\ InTurn => turn \in Turns
      /\ result \in [Turns -> Results]
  BY FilesAssumption, ProgramsAssumption DEF Turns, TypeOK, InTurn
<1> HIDE DEF Turns
<1>2. \A t \in Turns : turn \in Nat /\ t \in Nat /\ (turn \notin Turns => t < turn)
  BY <1>1
<1>3. \A what : Outcome(what) => /\ turn \in Turns => result'[turn] = what
                                 /\ \A t \in Turns \ {turn} : result'[t] = result[t]
  BY <1>1 DEF Outcome
<1>4. CASE UNCHANGED vars
  BY <1>4 DEF vars, diskVars, InTurn
<1>5. CASE MakeDir \/ Finish
  BY <1>5, <1>2 DEF MakeDir, Finish, InTurn
<1>6. CASE SkipPair
  BY <1>6, <1>2, <1>3 DEF SkipPair, AtPair, InTurn, Given
<1>7. CASE EmptyCopy
  BY <1>7, <1>2, <1>3 DEF EmptyCopy, AtPair, InTurn, Given, Ran
<1>8. CASE CopyFile
  BY <1>8, <1>2 DEF CopyFile, AtPair, InTurn, Given, Ran
<1>9. CASE NotExecuted \/ ProgramSilent
  BY <1>9, <1>1, <1>2, <1>3 DEF NotExecuted, ProgramSilent, InTurn
<1>10. CASE Program
  <2>1. \E what \in {"same", "changed", "removed"} : Outcome(what)
    BY <1>10 DEF Program
  <2>2. QED
    BY <1>10, <2>1, <1>1, <1>2, <1>3 DEF Program, InTurn
<1>11. CASE ExecuteProgram
  BY <1>11, <1>2 DEF ExecuteProgram, InTurn
<1>12. CASE CompareHashes
  BY <1>12, <1>2 DEF CompareHashes, InTurn
<1>13. CASE PrintOutputAndRemove
  BY <1>13, <1>1, <1>2 DEF PrintOutputAndRemove, InTurn
<1>14. CASE StartAgain
  BY <1>14, <1>1, <1>2 DEF StartAgain, Start, InTurn
<1>15. QED
  BY <1>4, <1>5, <1>6, <1>7, <1>8, <1>9, <1>10, <1>11, <1>12, <1>13, <1>14 DEF Next

\* The copy of the pair in hand is what the step before has made of it.
LEMMA AtCopyNext == LoopInv /\ [Next]_vars => AtCopy'
<1> SUFFICES ASSUME LoopInv, [Next]_vars PROVE AtCopy'
  OBVIOUS
<1> USE DEF LoopInv, AtCopy
<1>1. /\ InTurn => turn \in Turns
      /\ turn \in Turns => result \in [Turns -> Results] /\ TempOut(turn) # ModifyFilename(turn)
  BY NamesDiffer DEF TypeOK, InTurn
<1>2. \A name : /\ DOMAIN Without(name) = DOMAIN dir \ {name}
                /\ \A n \in DOMAIN dir \ {name} : Without(name)[n] = dir[n]
  BY DEF Without
<1>3. \A name, contents : Write(name, contents) =>
        /\ name \in DOMAIN dir' /\ dir'[name] = contents
        /\ \A n \in DOMAIN dir \ {name} : n \in DOMAIN dir' /\ dir'[n] = dir[n]
  BY DEF Write
<1>4. CASE UNCHANGED vars
  <2>1. UNCHANGED <<pc, turn, before_hash, dir, run, result>>
    BY <1>4 DEF vars, diskVars
  <2>2. /\ NoCopy' <=> NoCopy
        /\ CopyIs(Original(turn))' <=> CopyIs(Original(turn))
        /\ CopyIs(Changed(turn))' <=> CopyIs(Changed(turn))
    BY <2>1 DEF NoCopy, CopyIs, Original, Changed
  <2>3. QED
    BY <2>1, <2>2 DEF Original
<1>5. CASE MakeDir \/ Finish \/ SkipPair \/ EmptyCopy \/ PrintOutputAndRemove \/ StartAgain
  BY <1>5 DEF MakeDir, Finish, SkipPair, EmptyCopy, AtPair, PrintOutputAndRemove, StartAgain, Start
<1>6. CASE CopyFile
  BY <1>6, <1>3 DEF CopyFile, CopyIs
<1>7. CASE NotExecuted \/ ProgramSilent
  <2>1. result'[turn] \in {"not_run", "silent"} /\ pc' = "compare"
    BY <1>7, <1>1 DEF NotExecuted, ProgramSilent, Outcome, InTurn
  <2>2. UNCHANGED <<turn, before_hash, dir>>
    BY <1>7 DEF NotExecuted, ProgramSilent, diskVars
  <2>3. CopyIs(Original(turn)) /\ before_hash = Original(turn)
    BY <1>7 DEF NotExecuted, ProgramSilent
  <2>4. QED
    BY <2>1, <2>2, <2>3 DEF CopyIs
<1>8. CASE ExecuteProgram
  <2>1. turn \in Turns /\ CopyIs(Original(turn)) /\ before_hash = Original(turn)
    BY <1>8, <1>1 DEF ExecuteProgram, InTurn
  <2>2. CopyIs(Original(turn))'
    BY <1>8, <2>1, <1>1, <1>3 DEF ExecuteProgram, CopyIs, Original
  <2>3. QED
    BY <1>8, <2>1, <2>2 DEF ExecuteProgram, Original
<1>9. CASE Program
  <2> DEFINE copy == ModifyFilename(turn)
             out == TempOut(turn)
  <2>1. /\ turn \in Turns /\ CopyIs(Original(turn)) /\ before_hash = Original(turn) /\ out # copy
        /\ pc' = "compare" /\ UNCHANGED <<turn, before_hash, run>>
    BY <1>9, <1>1 DEF Program, InTurn
  <2>2. CASE Outcome("same") /\ dir' = [dir EXCEPT ![out] = Append(@, Output(turn))]
    <3>1. result'[turn] = "same"
      BY <2>1, <2>2, <1>1 DEF Outcome
    <3>2. CopyIs(Original(turn))'
      BY <2>1, <2>2 DEF CopyIs, Original
    <3>3. QED
      BY <2>1, <3>1, <3>2 DEF Original
  <2>3. CASE /\ Outcome("changed")
             /\ dir' = [[dir EXCEPT ![copy] = Changed(turn)] EXCEPT ![out] = Append(@, Output(turn))]
    <3>1. result'[turn] = "changed"
      BY <2>1, <2>3, <1>1 DEF Outcome
    <3>2. CopyIs(Changed(turn))'
      BY <2>1, <2>3 DEF CopyIs, Changed
    <3>3. QED
      BY <2>1, <3>1, <3>2 DEF Original, Changed
  <2>4. CASE Outcome("removed") /\ dir' = [Without(copy) EXCEPT ![out] = Append(@, Output(turn))]
    <3>1. result'[turn] = "removed"
      BY <2>1, <2>4, <1>1 DEF Outcome
    <3>2. NoCopy'
      BY <2>1, <2>4, <1>2 DEF NoCopy
    <3>3. QED
      BY <2>1, <3>1, <3>2 DEF Original
  <2>5. QED
    BY <1>9, <2>2, <2>3, <2>4 DEF Program
<1>10. CASE CompareHashes
  <2>1. /\ turn \in Turns /\ before_hash = Original(turn)
        /\ pc' = "collect" /\ UNCHANGED <<turn, result>>
    BY <1>10, <1>1 DEF CompareHashes, InTurn
  <2>2. CASE result[turn] = "changed"
    <3>1. CopyIs(Changed(turn))
      BY <1>10, <2>2 DEF CompareHashes
    <3>2. dir' = dir /\ run' = run
      BY <1>10, <2>1, <3>1, ContentsDiffer DEF CompareHashes, CopyIs
    <3>3. CopyIs(Changed(turn))'
      BY <2>1, <3>1, <3>2 DEF CopyIs, Changed
    <3>4. QED
      BY <2>1, <2>2, <3>3 DEF Changed
  <2>3. CASE result[turn] \notin {"changed", "removed"}
    <3>1. CopyIs(Original(turn)) /\ dir' = Without(ModifyFilename(turn))
      BY <1>10, <2>1, <2>3 DEF CompareHashes, CopyIs
    <3>2. NoCopy'
      BY <2>1, <3>1, <1>2 DEF NoCopy
    <3>3. QED
      BY <2>1, <2>3, <3>2
  <2>4. CASE result[turn] = "removed"
    <3>1. NoCopy /\ dir' = dir
      BY <1>10, <2>4 DEF CompareHashes, NoCopy
    <3>2. NoCopy'
      BY <2>1, <3>1 DEF NoCopy
    <3>3. QED
      BY <2>1, <2>4, <3>2
  <2>5. QED
    BY <2>2, <2>3, <2>4
<1>11. QED
  BY <1>4, <1>5, <1>6, <1>7, <1>8, <1>9, <1>10 DEF Next

-----------------------------------------------------------------------------
(***************************************************************************)
(* Which names a step touches: those of the pair in hand, and no others.   *)
(***************************************************************************)

\* A pair uses its names from its copy on.
LEMMA UsesAre ==
  ASSUME LoopInv
  PROVE  \A t \in Turns : \A name : Uses(t, name) <=> Begun(t) /\ HasName(t, name)
<1> SUFFICES ASSUME NEW t \in Turns, NEW name
             PROVE  Uses(t, name) <=> Begun(t) /\ HasName(t, name)
  OBVIOUS
<1>1. t \in Nat /\ turn \in Nat
  BY TurnsAre, FilesAssumption, ProgramsAssumption DEF LoopInv, TypeOK
<1>2. t > turn \/ t = turn \/ t < turn
  BY <1>1
<1>3. Tried(t) <=> Begun(t) /\ Given(t)
  BY <1>1, <1>2 DEF Tried, Begun, LoopInv, Told, InTurn, Ran
<1>4. Begun(t) /\ Given(t) => (result[t] # "emptied" <=> Ran(t))
  BY <1>1, <1>2 DEF Begun, LoopInv, Told, InTurn, Ran
<1>5. QED
  BY <1>3, <1>4 DEF Uses, HasName

\* A file that is written, and one that is removed.
LEMMA FilesAre ==
  /\ \A name : /\ DOMAIN Without(name) = DOMAIN dir \ {name}
               /\ \A n \in DOMAIN dir \ {name} : Without(name)[n] = dir[n]
  /\ \A name, contents : Write(name, contents) =>
       /\ DOMAIN dir' = DOMAIN dir \cup {name} /\ dir'[name] = contents
       /\ \A n \in DOMAIN dir \ {name} : dir'[n] = dir[n]
BY DEF Without, Write

SameFile(name) ==
  /\ name \in DOMAIN dir' <=> name \in DOMAIN dir
  /\ name \in DOMAIN dir => dir'[name] = dir[name]

\* Files with other names stay as they are.
LEMMA OthersStay ==
  ASSUME LoopInv, [Next]_vars, NEW name, turn \in Turns => ~HasName(turn, name)
  PROVE  SameFile(name)
<1> USE DEF SameFile
<1>1. CASE UNCHANGED dir
  BY <1>1
<1>2. CASE EmptyCopy \/ CopyFile
  <2>1. Given(turn) /\ turn \in Turns
    BY <1>2 DEF EmptyCopy, CopyFile, AtPair, Given
  <2>2. name # ModifyFilename(turn)
    BY <2>1 DEF HasName
  <2>3. QED
    BY <1>2, <2>2, FilesAre DEF EmptyCopy, CopyFile
<1>3. CASE ExecuteProgram \/ Program \/ CompareHashes \/ PrintOutputAndRemove
  <2>1. InTurn
    BY <1>3 DEF ExecuteProgram, Program, CompareHashes, PrintOutputAndRemove, InTurn
  <2>2. turn \in Turns /\ Given(turn) /\ Ran(turn)
    BY <2>1 DEF LoopInv, TypeOK, Told, InTurn, Ran
  <2>3. name # ModifyFilename(turn) /\ name # TempOut(turn)
    BY <2>2 DEF HasName
  <2>4. CASE Program
    <3> DEFINE copy == ModifyFilename(turn)
               out == TempOut(turn)
    <3>1. CASE dir' = [dir EXCEPT ![out] = Append(@, Output(turn))]
      BY <2>3, <3>1
    <3>2. CASE dir' = [[dir EXCEPT ![copy] = Changed(turn)] EXCEPT ![out] = Append(@, Output(turn))]
      BY <2>3, <3>2
    <3>3. CASE dir' = [Without(copy) EXCEPT ![out] = Append(@, Output(turn))]
      BY <2>3, <3>3, FilesAre
    <3>4. QED
      BY <2>4, <3>1, <3>2, <3>3 DEF Program
  <2>5. CASE ExecuteProgram
    BY <2>3, <2>5, FilesAre DEF ExecuteProgram
  <2>6. CASE CompareHashes \/ PrintOutputAndRemove
    <3>1. dir' \in {dir, Without(ModifyFilename(turn)), Without(TempOut(turn))}
      BY <2>6 DEF CompareHashes, PrintOutputAndRemove
    <3>2. CASE dir' = dir
      BY <3>2
    <3>3. CASE dir' = Without(ModifyFilename(turn))
      BY <2>3, <3>3, FilesAre
    <3>4. CASE dir' = Without(TempOut(turn))
      BY <2>3, <3>4, FilesAre
    <3>5. QED
      BY <3>1, <3>2, <3>3, <3>4
  <2>7. QED
    BY <1>3, <2>4, <2>5, <2>6
<1>4. CASE UNCHANGED vars \/ MakeDir \/ SkipPair \/ NotExecuted \/ ProgramSilent \/ Finish \/ StartAgain
  BY <1>1, <1>4 DEF vars, diskVars, MakeDir, SkipPair, NotExecuted, ProgramSilent, Finish, StartAgain
<1>5. QED
  BY <1>2, <1>3, <1>4 DEF Next

\* How the loops go on: a step works on the pair in hand ...
Works == /\ turn' = turn /\ run' = run
         /\ \A t \in Turns : t < turn => result'[t] = result[t]
         /\ InTurn => InTurn'
         /\ turn \notin Turns => ~InTurn' /\ UNCHANGED dir
Working == UNCHANGED vars \/ MakeDir \/ CopyFile \/ NotExecuted \/ ExecuteProgram
             \/ ProgramSilent \/ Program \/ CompareHashes \/ Finish

LEMMA WorkingWorks == LoopInv /\ Working => Works
<1> SUFFICES ASSUME LoopInv, Working PROVE Works
  OBVIOUS
<1>1. InTurn => turn \in Turns
  BY DEF LoopInv, TypeOK, InTurn
<1>2. turn' = turn /\ run' = run /\ (InTurn => InTurn')
  BY DEF Working, InTurn, vars, diskVars, MakeDir, CopyFile, AtPair, NotExecuted, ExecuteProgram,
         ProgramSilent, Program, CompareHashes, Finish
<1>3. turn \in Nat /\ \A t \in Turns : t \in Nat
  BY TurnsAre, FilesAssumption, ProgramsAssumption DEF LoopInv, TypeOK
<1>4. result' = result \/ \E what : Outcome(what)
  BY DEF Working, vars, diskVars, MakeDir, CopyFile, NotExecuted, ExecuteProgram,
         ProgramSilent, Program, CompareHashes, Finish
<1>5. \A t \in Turns : t < turn => result'[t] = result[t]
  BY <1>3, <1>4 DEF Outcome, LoopInv, TypeOK
<1>6. turn \notin Turns => ~InTurn' /\ UNCHANGED dir
  BY <1>1 DEF Working, InTurn, vars, diskVars, MakeDir, CopyFile, AtPair, NotExecuted,
              ExecuteProgram, ProgramSilent, Program, CompareHashes, Finish
<1>7. QED
  BY <1>2, <1>5, <1>6 DEF Works

\* ... or leaves it behind, with its copy if that is to stay.
Advances == /\ turn \in Turns /\ turn' = turn + 1 /\ run' = run /\ ~InTurn'
            /\ \A t \in Turns : t < turn => result'[t] = result[t]
            /\ \A name \in DOMAIN dir' : HasName(turn, name) =>
                 name = ModifyFilename(turn) /\ result'[turn] \in {"changed", "emptied"}
            /\ result'[turn] = "changed" =>
                 ModifyFilename(turn) \in DOMAIN dir' /\ dir'[ModifyFilename(turn)] = Changed(turn)
Advancing == SkipPair \/ EmptyCopy \/ PrintOutputAndRemove

LEMMA AdvancingAdvances == LoopInv /\ Advancing => Advances
<1> SUFFICES ASSUME LoopInv, Advancing PROVE Advances
  OBVIOUS
<1>1. turn \in Turns /\ turn \in Nat /\ \A t \in Turns : t \in Nat
  BY TurnsAre DEF Advancing, SkipPair, EmptyCopy, PrintOutputAndRemove, AtPair, LoopInv, TypeOK
<1>2. turn' = turn + 1 /\ run' = run /\ ~InTurn'
  BY DEF Advancing, SkipPair, EmptyCopy, PrintOutputAndRemove, AtPair, InTurn
<1>3. TempOut(turn) # ModifyFilename(turn)
  BY <1>1, NamesDiffer
<1>4. result \in [Turns -> Results]
  BY DEF LoopInv, TypeOK
<1>5. CASE SkipPair
  <2>1. ~Given(turn) /\ Outcome("skipped")
    BY <1>5 DEF SkipPair, Given
  <2>2. QED
    BY <2>1, <1>1, <1>2, <1>4 DEF Advances, Outcome, HasName
<1>6. CASE EmptyCopy
  <2>1. ~Ran(turn) /\ Outcome("emptied")
    BY <1>6 DEF EmptyCopy, Ran
  <2>2. QED
    BY <2>1, <1>1, <1>2, <1>4 DEF Advances, Outcome, HasName
<1>7. CASE PrintOutputAndRemove
  <2> DEFINE copy == ModifyFilename(turn)
             out == TempOut(turn)
  <2>1. result' = result /\ dir' \in {dir, Without(out)} /\ out \notin DOMAIN dir'
    BY <1>7, FilesAre DEF PrintOutputAndRemove
  <2>2. copy \in DOMAIN dir' <=> copy \in DOMAIN dir
    BY <2>1, <1>3, FilesAre
  <2>3. copy \in DOMAIN dir => dir'[copy] = dir[copy]
    BY <2>1, <1>3, FilesAre
  <2>4. IF result[turn] = "changed" THEN CopyIs(Changed(turn)) ELSE NoCopy
    BY <1>7 DEF PrintOutputAndRemove, LoopInv, AtCopy
  <2>5. copy \in DOMAIN dir' => result[turn] = "changed"
    BY <2>2, <2>4 DEF NoCopy
  <2>6. result[turn] = "changed" => copy \in DOMAIN dir' /\ dir'[copy] = Changed(turn)
    BY <2>2, <2>3, <2>4 DEF CopyIs
  <2>7. \A name \in DOMAIN dir' : HasName(turn, name) => name = copy /\ result[turn] = "changed"
    BY <2>1, <2>5 DEF HasName
  <2>8. QED
    BY <2>1, <2>6, <2>7, <1>1, <1>2 DEF Advances
<1>8. QED
  BY <1>5, <1>6, <1>7 DEF Advancing

-----------------------------------------------------------------------------
(***************************************************************************)
(* The two promises about the directory.                                   *)
(***************************************************************************)

\* Whoever is new to a name is the pair in hand.
LEMMA BegunIs ==
  ASSUME LoopInv, Works \/ Advances
  PROVE  /\ turn \in Nat /\ \A t \in Turns : t \in Nat
         /\ \A t \in Turns : /\ Begun(t) => Begun(t)'
                             /\ Begun(t)' => Begun(t) \/ t = turn
         /\ Advances => \A t \in Turns : Begun(t)' <=> t <= turn
<1>1. turn \in Nat /\ \A t \in Turns : t \in Nat
  BY TurnsAre, FilesAssumption, ProgramsAssumption DEF LoopInv, TypeOK
<1>2. QED
  BY <1>1 DEF Begun, Works, Advances

\* A copy that was kept, t's, is kept by a step on another pair.
KeptCopy(t) == LET copy == ModifyFilename(t) IN copy \in DOMAIN dir /\ dir[copy] = Changed(t)
Undisturbed(t) == \A u \in Turns : u > t => ~(Begun(u) /\ HasName(u, ModifyFilename(t)))
Kept == \A t \in Turns : result[t] = "changed" /\ Undisturbed(t) => KeptCopy(t)

LEMMA KeptIs == LoopInv => (ChangedCopyKept <=> Kept)
<1> SUFFICES ASSUME LoopInv PROVE ChangedCopyKept <=> Kept
  OBVIOUS
<1>1. turn \in Nat /\ \A t \in Turns : t \in Nat
  BY TurnsAre, FilesAssumption, ProgramsAssumption DEF LoopInv, TypeOK
<1>2. ASSUME NEW t \in Turns
      PROVE  (\E u \in t + 1 .. turn : u \in Turns /\ Uses(u, ModifyFilename(t))) <=> ~Undisturbed(t)
  <2>1. \A u \in Turns : Uses(u, ModifyFilename(t)) <=> Begun(u) /\ HasName(u, ModifyFilename(t))
    BY UsesAre
  <2>2. \A u \in Turns : Begun(u) => u <= turn
    BY <1>1 DEF Begun
  <2>3. \A u \in Turns : Uses(u, ModifyFilename(t)) /\ u > t => u \in t + 1 .. turn
    BY <1>1, <2>1, <2>2
  <2>4. \A u \in t + 1 .. turn : u > t
    BY <1>1
  <2>5. QED
    BY <2>1, <2>3, <2>4 DEF Undisturbed
<1>3. QED
  BY <1>2 DEF ChangedCopyKept, Kept, KeptCopy

LEMMA KeptNext == LoopInv /\ Kept /\ [Next]_vars => Kept'
<1> SUFFICES ASSUME LoopInv, Kept, [Next]_vars, NEW t \in Turns,
                    result'[t] = "changed", Undisturbed(t)'
             PROVE  KeptCopy(t)'
  BY DEF Kept
<1>1. Told' /\ AtCopy'
  BY ToldNext, AtCopyNext
<1>2. ASSUME Works \/ Advances, t < turn
      PROVE  KeptCopy(t)'
  <2>1. result[t] = "changed" /\ Changed(t)' = Changed(t)
    BY <1>2 DEF Works, Advances, Changed
  <2>2. Undisturbed(t)
    BY <1>2, BegunIs DEF Undisturbed, HasName
  <2>3. KeptCopy(t)
    BY <2>1, <2>2 DEF Kept
  <2>4. turn \in Turns => ~HasName(turn, ModifyFilename(t)) \/ UNCHANGED dir
    <3>1. ASSUME turn \in Turns, HasName(turn, ModifyFilename(t))
          PROVE  UNCHANGED dir
      <4>1. PICK w \in Turns : w = turn
        BY <3>1
      <4>2. ~InTurn' /\ Works
        <5>1. w > t /\ HasName(w, ModifyFilename(t))
          BY <1>2, <3>1, <4>1, BegunIs
        <5>2. \A u \in Turns : u > t => ~(Begun(u)' /\ HasName(u, ModifyFilename(t)))
          BY DEF Undisturbed, HasName
        <5>3. ~Begun(w)'
          BY <5>1, <5>2
        <5>4. ~Advances
          BY <1>2, <4>1, <5>3, BegunIs
        <5>5. Works /\ turn' = turn
          BY <1>2, <5>4 DEF Works
        <5>6. QED
          BY <4>1, <5>3, <5>5 DEF Begun
      <4>3. MakeDir \/ UNCHANGED vars \/ Finish \/ StartAgain
        BY <1>2, <4>2, BegunIs DEF Next, InTurn, SkipPair, EmptyCopy, CopyFile, NotExecuted,
               ExecuteProgram, ProgramSilent, Program, CompareHashes, PrintOutputAndRemove, Works
      <4>4. QED
        BY <4>3 DEF MakeDir, Finish, vars, diskVars, StartAgain
    <3>2. QED
      BY <3>1
  <2>5. SameFile(ModifyFilename(t))
    BY <2>4, OthersStay DEF SameFile
  <2>6. QED
    BY <2>1, <2>3, <2>5 DEF KeptCopy, SameFile
<1>3. CASE Working
  <2>1. Works
    BY <1>3, WorkingWorks
  <2>2. ~(t > turn') /\ (t = turn' => pc' \in {"compare", "collect"})
    BY <1>1 DEF Told
  <2>3. CASE t = turn'
    BY <1>1, <2>2, <2>3 DEF AtCopy, CopyIs, KeptCopy
  <2>4. CASE t < turn
    BY <1>2, <2>1, <2>4
  <2>5. QED
    BY <2>1, <2>2, <2>3, <2>4, BegunIs DEF Works
<1>4. CASE Advancing
  <2>1. Advances
    BY <1>4, AdvancingAdvances
  <2>2. t < turn \/ t = turn
    <3>1. ~(t > turn + 1) /\ t # turn + 1
      BY <1>1, <2>1 DEF Told, Advances, InTurn
    <3>2. QED
      BY <2>1, <3>1, BegunIs
  <2>3. CASE t = turn
    BY <2>1, <2>3 DEF Advances, KeptCopy, Changed
  <2>4. QED
    BY <1>2, <2>1, <2>2, <2>3
<1>5. CASE StartAgain
  BY <1>5 DEF StartAgain, Start
<1>6. QED
  BY <1>3, <1>4, <1>5 DEF Next, Working, Advancing

LEMMA AccountedNext == LoopInv /\ Accounted /\ [Next]_vars => Accounted'
<1> SUFFICES ASSUME LoopInv, Accounted, [Next]_vars PROVE Accounted'
  OBVIOUS
<1>1. pc' = "done" => (copy_dir' <=> DOMAIN dir' # {})
  BY DEF Accounted, Next, vars, diskVars, MakeDir, SkipPair, EmptyCopy, CopyFile, NotExecuted,
         ExecuteProgram, ProgramSilent, Program, CompareHashes, PrintOutputAndRemove, Finish,
         StartAgain, Start, AtPair
<1> SUFFICES ASSUME NEW name \in DOMAIN dir'
             PROVE  Stays(name)' \/ Due(name)'
  BY <1>1 DEF Accounted
<1>2. ASSUME Works \/ Advances, turn \in Turns => ~HasName(turn, name)
      PROVE  Stays(name)' \/ Due(name)'
  <2>1. name \in DOMAIN dir
    BY <1>2, OthersStay DEF SameFile
  <2>2. CASE Stays(name)
    <3>1. PICK t \in Turns : /\ t < turn
                             /\ ModifyFilename(t) = name
                             /\ result[t] \in {"changed", "emptied"}
                             /\ \A u \in Turns : u > t => ~(Begun(u) /\ HasName(u, name))
      BY <2>2 DEF Stays
    <3>2. t < turn' /\ result'[t] = result[t]
      BY <1>2, <3>1, BegunIs DEF Works, Advances
    <3>3. \A u \in Turns : u > t => ~(Begun(u)' /\ HasName(u, name))
      BY <1>2, <3>1, BegunIs
    <3>4. QED
      BY <3>1, <3>2, <3>3 DEF Stays, HasName
  <2>3. CASE Due(name)
    <3>1. PICK u \in Turns : u >= turn /\ HasName(u, name)
      BY <2>3 DEF Due
    <3>2. u # turn
      BY <1>2, <3>1
    <3>3. u >= turn'
      BY <1>2, <3>1, <3>2, BegunIs DEF Works, Advances
    <3>4. QED
      BY <3>1, <3>3 DEF Due, HasName
  <2>4. QED
    BY <2>1, <2>2, <2>3 DEF Accounted
<1>3. CASE Working
  <2>1. Works
    BY <1>3, WorkingWorks
  <2>2. CASE turn \in Turns /\ HasName(turn, name)
    BY <2>1, <2>2, BegunIs DEF Due, HasName, Works
  <2>3. QED
    BY <1>2, <2>1, <2>2
<1>4. CASE Advancing
  <2>1. Advances
    BY <1>4, AdvancingAdvances
  <2>2. CASE HasName(turn, name)
    <3>1. /\ turn \in Turns /\ turn < turn' /\ ModifyFilename(turn) = name
          /\ result'[turn] \in {"changed", "emptied"}
      BY <2>1, <2>2, BegunIs DEF Advances
    <3>2. \A u \in Turns : u > turn => ~Begun(u)'
      BY <2>1, BegunIs
    <3>3. QED
      BY <3>1, <3>2 DEF Stays
  <2>3. QED
    BY <1>2, <2>1, <2>2
<1>5. CASE StartAgain
  <2>1. turn' = 1 /\ dir' = dir
    BY <1>5 DEF StartAgain, Start, diskVars
  <2>2. PICK u \in Turns : HasName(u, name)
    <3>1. CASE Due(name)
      BY <3>1 DEF Due
    <3>2. CASE Stays(name)
      <4>1. PICK t \in Turns : ModifyFilename(t) = name /\ result[t] \in {"changed", "emptied"}
        BY <3>2 DEF Stays
      <4>2. Given(t)
        BY <4>1 DEF LoopInv, Told, Ran
      <4>3. QED
        BY <4>1, <4>2 DEF HasName
    <3>3. QED
      BY <2>1, <3>1, <3>2 DEF Accounted
  <2>3. u >= 1
    BY FilesAssumption, ProgramsAssumption DEF Turns
  <2>4. QED
    BY <2>1, <2>2, <2>3 DEF Due, HasName
<1>6. QED
  BY <1>3, <1>4, <1>5 DEF Next, Working, Advancing

-----------------------------------------------------------------------------
(***************************************************************************)
(* What is collected.  A program that was always executed has in its output *)
(* what it printed for the pairs behind turn, one item for each, in their  *)
(* order; the file beside the copy in hand holds the next item, or nothing. *)
(***************************************************************************)
Done == {"same", "changed", "removed"}
OutIs(contents) == LET out == TempOut(turn) IN out \in DOMAIN dir /\ dir[out] = contents
AtOut ==
  /\ pc = "program" => OutIs(<<>>)
  /\ pc \in {"compare", "collect"} =>
       /\ result[turn] = "silent" => OutIs(<<>>)
       /\ result[turn] \in Done => OutIs(<<Output(turn)>>)

Collected(p) ==
  /\ output[p] \in Seq({Output(t) : t \in Printed(p)})
  /\ \A t \in Printed(p) : \E i \in DOMAIN output[p] : output[p][i] = Output(t)
  /\ \A i, j \in DOMAIN output[p] : i < j => TurnOf(output[p][i]) < TurnOf(output[p][j])
CollectInv == AtOut /\ \A p \in DOMAIN Programs : Collected(p) \/ NotRun(p)

\* The file for the output is a new one, and nobody but the program writes to it.
LEMMA AtOutNext == LoopInv /\ AtOut /\ [Next]_vars => AtOut'
<1> SUFFICES ASSUME LoopInv, AtOut, [Next]_vars PROVE AtOut'
  OBVIOUS
<1> USE DEF AtOut, OutIs
<1>1. /\ InTurn => turn \in Turns
      /\ turn \in Turns => result \in [Turns -> Results] /\ TempOut(turn) # ModifyFilename(turn)
  BY NamesDiffer DEF LoopInv, TypeOK, InTurn
<1>2. CASE UNCHANGED vars
  <2>1. UNCHANGED <<pc, turn, dir, run, result>>
    BY <1>2 DEF vars, diskVars
  <2>2. OutIs(<<>>)' <=> OutIs(<<>>)
    BY <2>1
  <2>3. OutIs(<<Output(turn)>>)' <=> OutIs(<<Output(turn)>>)
    BY <2>1 DEF Output
  <2>4. QED
    BY <2>1, <2>2, <2>3
<1>3. CASE \/ MakeDir \/ Finish \/ SkipPair \/ EmptyCopy \/ CopyFile \/ PrintOutputAndRemove
           \/ StartAgain
  <2>1. pc' \notin {"program", "compare", "collect"}
    BY <1>3 DEF MakeDir, Finish, SkipPair, EmptyCopy, CopyFile, AtPair, PrintOutputAndRemove,
                StartAgain, Start
  <2>2. QED
    BY <2>1
<1>4. CASE NotExecuted
  <2>1. result'[turn] = "not_run" /\ pc' = "compare" /\ turn' = turn
    BY <1>4, <1>1 DEF NotExecuted, Outcome, InTurn
  <2>2. QED
    BY <2>1 DEF Done
<1>5. CASE ExecuteProgram
  <2>1. pc' = "program" /\ turn' = turn /\ OutIs(<<>>)'
    BY <1>5, FilesAre DEF ExecuteProgram
  <2>2. QED
    BY <2>1
<1>6. CASE ProgramSilent
  <2>1. /\ result'[turn] = "silent" /\ pc' = "compare" /\ turn' = turn /\ dir' = dir
        /\ OutIs(<<>>)
    BY <1>6, <1>1 DEF ProgramSilent, Outcome, InTurn, diskVars
  <2>2. QED
    BY <2>1 DEF Done
<1>7. CASE Program
  <2> DEFINE copy == ModifyFilename(turn)
             out == TempOut(turn)
             files == [dir EXCEPT ![copy] = Changed(turn)]
  <2>1. /\ turn \in Turns /\ out \in DOMAIN dir /\ dir[out] = <<>> /\ out # copy
        /\ pc' = "compare" /\ turn' = turn /\ run' = run
    BY <1>7, <1>1 DEF Program, InTurn
  <2>2. Append(<<>>, Output(turn)) = <<Output(turn)>>
    OBVIOUS
  <2>3. \E what \in Done : Outcome(what)
    BY <1>7 DEF Program, Done
  <2>4. result'[turn] \in Done
    BY <2>1, <2>3, <1>1 DEF Outcome
  <2>5. out \in DOMAIN dir' /\ dir'[out] = <<Output(turn)>>
    <3>1. CASE dir' = [dir EXCEPT ![out] = Append(@, Output(turn))]
      BY <2>1, <2>2, <3>1
    <3>2. CASE dir' = [files EXCEPT ![out] = Append(@, Output(turn))]
      <4>1. out \in DOMAIN files /\ files[out] = <<>>
        BY <2>1
      <4> HIDE DEF files
      <4>2. QED
        BY <4>1, <2>2, <3>2
    <3>3. CASE dir' = [Without(copy) EXCEPT ![out] = Append(@, Output(turn))]
      <4>1. out \in DOMAIN Without(copy) /\ Without(copy)[out] = <<>>
        BY <2>1 DEF Without
      <4>2. QED
        BY <4>1, <2>2, <3>3
    <3>4. QED
      BY <1>7, <3>1, <3>2, <3>3 DEF Program
  <2>6. Output(turn)' = Output(turn)
    BY <2>1 DEF Output
  <2>7. QED
    BY <2>1, <2>4, <2>5, <2>6 DEF Done
<1>8. CASE CompareHashes
  <2> DEFINE out == TempOut(turn)
  <2>1. /\ turn \in Turns /\ out # ModifyFilename(turn)
        /\ pc = "compare" /\ pc' = "collect" /\ UNCHANGED <<turn, run, result>>
        /\ dir' = dir \/ dir' = Without(ModifyFilename(turn))
    BY <1>8, <1>1 DEF CompareHashes, InTurn
  <2>2. out \in DOMAIN dir => out \in DOMAIN dir' /\ dir'[out] = dir[out]
    <3>1. CASE dir' = dir
      BY <3>1
    <3>2. CASE dir' = Without(ModifyFilename(turn))
      BY <2>1, <3>2 DEF Without
    <3>3. QED
      BY <2>1, <3>1, <3>2
  <2>3. Output(turn)' = Output(turn)
    BY <2>1 DEF Output
  <2>4. QED
    BY <2>1, <2>2, <2>3
<1>9. QED
  BY <1>2, <1>3, <1>4, <1>5, <1>6, <1>7, <1>8 DEF Next

\* As long as neither the output of a program nor its pairs behind turn change, what is
\* collected for it is as it was.
LEMMA CollectedStays ==
  ASSUME NEW p, Collected(p), output'[p] = output[p], Printed(p)' = Printed(p), run' = run
  PROVE  Collected(p)'
BY DEF Collected, Output, TurnOf

\* One more item, of a later pair.
LEMMA CollectedGrows ==
  ASSUME NEW p, Collected(p), turn \in Turns, \A t \in Turns : t \in Nat, run' = run,
         Printed(p)' = Printed(p) \cup {turn},
         output'[p] = output[p] \o <<Output(turn)>>
  PROVE  Collected(p)'
<1> DEFINE Items == {Output(t) : t \in Printed(p) \cup {turn}}
           old == output[p]
           new == output'[p]
<1>1. \A t : Output(t)' = Output(t)
  BY DEF Output
<1>2. old \in Seq({Output(t) : t \in Printed(p)})
  BY DEF Collected
<1>3. old \in Seq(Items) /\ Output(turn) \in Items
  <2>1. {Output(t) : t \in Printed(p)} \subseteq Items
    OBVIOUS
  <2>2. QED
    BY <1>2, <2>1, SeqMonotonic
<1>4. \A i \in DOMAIN old : \E t \in Printed(p) : old[i] = Output(t)
  <2>1. \A i \in DOMAIN old : old[i] \in {Output(t) : t \in Printed(p)}
    BY <1>2
  <2>2. QED
    BY <2>1
<1>5. \A t : TurnOf(Output(t)) = t
  BY DEF TurnOf, Output
<1>6. Printed(p) \subseteq Turns /\ \A t \in Printed(p) : t < turn
  BY DEF Printed
<1>7. \A i \in DOMAIN old : TurnOf(old[i]) < turn
  BY <1>4, <1>5, <1>6
<1> HIDE DEF Items
<1>8. /\ new \in Seq(Items) /\ DOMAIN new = 1 .. Len(old) + 1 /\ Len(old) \in Nat
      /\ DOMAIN old = 1 .. Len(old)
      /\ \A i \in DOMAIN old : new[i] = old[i]
      /\ new[Len(old) + 1] = Output(turn)
  BY <1>3
<1>9. \A t \in Printed(p) \cup {turn} : \E i \in DOMAIN new : new[i] = Output(t)
  <2>1. \A t \in Printed(p) : \E i \in DOMAIN old : old[i] = Output(t)
    BY DEF Collected
  <2>2. DOMAIN old \subseteq DOMAIN new /\ Len(old) + 1 \in DOMAIN new
    BY <1>8
  <2>3. QED
    BY <1>8, <2>1, <2>2
<1>10. ASSUME NEW i \in DOMAIN new, NEW j \in DOMAIN new, i < j
       PROVE  TurnOf(new[i]) < TurnOf(new[j])
  <2>1. i \in DOMAIN old
    BY <1>8, <1>10
  <2>2. CASE j \in DOMAIN old
    BY <1>8, <1>10, <2>1, <2>2 DEF Collected
  <2>3. CASE j = Len(old) + 1
    BY <1>5, <1>7, <1>8, <2>1, <2>3
  <2>4. QED
    BY <1>8, <2>2, <2>3
<1>11. (output[p] \in Seq({Output(t) : t \in Printed(p)}))'
  BY <1>1, <1>8 DEF Items
<1>12. (\A t \in Printed(p) : \E i \in DOMAIN output[p] : output[p][i] = Output(t))'
  BY <1>1, <1>9
<1>13. QED
  BY <1>10, <1>11, <1>12 DEF Collected, TurnOf

LEMMA CollectNext == LoopInv /\ CollectInv /\ [Next]_vars => CollectInv'
<1> SUFFICES ASSUME LoopInv, CollectInv, [Next]_vars, NEW p \in DOMAIN Programs
             PROVE  Collected(p)' \/ NotRun(p)'
  BY AtOutNext DEF CollectInv
<1>1. /\ turn \in Nat /\ \A t \in Turns : t \in Nat
      /\ InTurn => turn \in Turns
      /\ result \in [Turns -> Results]
  BY TurnsAre, FilesAssumption, ProgramsAssumption DEF LoopInv, TypeOK, InTurn
<1>2. Collected(p) \/ NotRun(p)
  BY DEF CollectInv
<1>3. ASSUME \/ /\ turn' = turn
                /\ \A t \in Turns : t < turn => result'[t] = result[t]
             \/ /\ turn \in Turns /\ turn' = turn + 1
                /\ \A t \in Turns : t < turn => result'[t] = result[t]
                /\ ProgramOf(turn) # p \/ result'[turn] \notin Done
      PROVE  Printed(p)' = Printed(p)
  <2>1. \A t \in Turns : t < turn' /\ t # turn => t < turn
    BY <1>1, <1>3
  <2>2. ASSUME NEW t \in Turns, t < turn
        PROVE  t < turn' /\ result'[t] = result[t]
    BY <1>1, <1>3, <2>2
  <2>3. ASSUME NEW t \in Turns, t < turn', ProgramOf(t) = p, result'[t] \in Done
        PROVE  t < turn
    BY <1>1, <1>3, <2>1, <2>3
  <2>4. QED
    BY <2>2, <2>3 DEF Printed, Done
<1>4. ASSUME NotRun(p), \A t \in Turns : result[t] = "not_run" => result'[t] = "not_run"
      PROVE  NotRun(p)'
  BY <1>4 DEF NotRun
<1>5. CASE Working
  <2>1. turn' = turn /\ run' = run /\ \A t \in Turns : t < turn => result'[t] = result[t]
    BY <1>5, WorkingWorks DEF Works
  <2>2. output' = output
    BY <1>5 DEF Working, vars, MakeDir, CopyFile, NotExecuted, ExecuteProgram,
                ProgramSilent, Program, CompareHashes, Finish
  <2>3. CASE Collected(p)
    BY <1>3, <2>1, <2>2, <2>3, CollectedStays
  <2>4. CASE NotRun(p)
    <3>1. ASSUME NEW t \in Turns, result[t] = "not_run"
          PROVE  result'[t] = "not_run"
      <4>1. CASE t = turn
        <5>1. pc \in {"compare", "collect"}
          BY <3>1, <4>1 DEF LoopInv, Told
        <5>2. result' = result
          BY <1>5, <5>1 DEF Working, vars, MakeDir, CopyFile, AtPair, NotExecuted,
                ExecuteProgram, ProgramSilent, Program, CompareHashes, Finish
        <5>3. QED
          BY <3>1, <5>2
      <4>2. CASE t < turn
        BY <2>1, <3>1, <4>2
      <4>3. ~(t > turn)
        BY <3>1 DEF LoopInv, Told
      <4>4. QED
        BY <1>1, <4>1, <4>2, <4>3
    <3>2. QED
      BY <1>4, <2>4, <3>1
  <2>5. QED
    BY <1>2, <2>3, <2>4
<1>6. CASE SkipPair \/ EmptyCopy
  <2>1. /\ turn \in Turns /\ turn' = turn + 1 /\ output' = output /\ run' = run /\ pc = "turn"
        /\ Outcome("skipped") \/ Outcome("emptied")
    BY <1>6 DEF SkipPair, EmptyCopy, AtPair
  <2>2. /\ result'[turn] \in {"skipped", "emptied"}
        /\ \A t \in Turns \ {turn} : result'[t] = result[t]
    BY <1>1, <2>1 DEF Outcome
  <2>3. result[turn] = "none"
    BY <2>1 DEF LoopInv, Told
  <2>4. CASE Collected(p)
    <3>1. \A t \in Turns : t < turn => result'[t] = result[t]
      BY <1>1, <2>2
    <3>2. result'[turn] \notin Done
      BY <2>2 DEF Done
    <3>3. Printed(p)' = Printed(p)
      BY <1>3, <2>1, <3>1, <3>2
    <3>4. QED
      BY <2>1, <2>4, <3>3, CollectedStays
  <2>5. CASE NotRun(p)
    BY <1>4, <2>2, <2>3, <2>5
  <2>6. QED
    BY <1>2, <2>4, <2>5
<1>7. CASE PrintOutputAndRemove
  <2> DEFINE out == TempOut(turn)
             q == ProgramOf(turn)
  <2>1. /\ turn \in Turns /\ turn' = turn + 1 /\ result' = result /\ run' = run
        /\ pc = "collect"
        /\ output' = IF out \in DOMAIN dir THEN [output EXCEPT ![q] = @ \o dir[out]] ELSE output
    BY <1>7, <1>1 DEF PrintOutputAndRemove, InTurn
  <2>2. q \in DOMAIN output /\ p \in DOMAIN output
    BY <2>1, TurnsAre DEF LoopInv, TypeOK
  <2>3. result[turn] \in {"not_run", "silent"} \cup Done
    <3>1. Ran(turn) /\ result[turn] \in Results
      BY <1>1, <2>1 DEF LoopInv, Told, InTurn
    <3>2. result[turn] # "none"
      BY <2>1, <1>1 DEF LoopInv, Told
    <3>3. result[turn] \notin {"skipped", "emptied"}
      BY <2>1, <3>1 DEF LoopInv, Told, Ran
    <3>4. QED
      BY <3>1, <3>2, <3>3 DEF Results, Done
  <2>4. CASE NotRun(p)
    BY <1>4, <2>1, <2>4
  <2>5. CASE q # p /\ Collected(p)
    BY <1>3, <2>1, <2>2, <2>5, CollectedStays
  <2>6. CASE q = p /\ Collected(p) /\ result[turn] = "not_run"
    BY <2>1, <2>6 DEF NotRun
  <2>7. CASE q = p /\ Collected(p) /\ result[turn] = "silent"
    <3>1. out \in DOMAIN dir /\ dir[out] = <<>>
      BY <2>1, <2>7 DEF CollectInv, AtOut, OutIs
    <3>2. output'[p] = output[p] \o <<>>
      BY <2>1, <2>2, <2>7, <3>1
    <3>3. output'[p] = output[p]
      BY <2>7, <3>2, ConcatEmptySeq DEF Collected
    <3>4. result'[turn] \notin Done
      BY <2>1, <2>7 DEF Done
    <3>5. Printed(p)' = Printed(p)
      BY <1>3, <2>1, <3>4
    <3>6. QED
      BY <2>1, <2>7, <3>3, <3>5, CollectedStays
  <2>8. CASE q = p /\ Collected(p) /\ result[turn] \in Done
    <3>1. out \in DOMAIN dir /\ dir[out] = <<Output(turn)>>
      BY <2>1, <2>8 DEF CollectInv, AtOut, OutIs
    <3>2. output'[p] = output[p] \o <<Output(turn)>>
      BY <2>1, <2>2, <2>8, <3>1
    <3>3. \A t \in Turns : t < turn' <=> t < turn \/ t = turn
      BY <1>1, <2>1
    <3>4. Printed(p)' = Printed(p) \cup {turn}
      BY <2>1, <2>8, <3>3 DEF Printed, Done
    <3>5. QED
      BY <1>1, <2>1, <2>8, <3>2, <3>4, CollectedGrows
  <2>9. QED
    BY <1>2, <2>3, <2>4, <2>5, <2>6, <2>7, <2>8
<1>8. CASE StartAgain
  <2>1. turn' = 1 /\ output'[p] = <<>>
    BY <1>8 DEF StartAgain, Start
  <2>2. Printed(p)' = {}
    <3>1. \A t \in Turns : ~(t < 1)
      BY FilesAssumption, ProgramsAssumption DEF Turns
    <3>2. QED
      BY <2>1, <3>1 DEF Printed
  <2>3. <<>> \in Seq({Output(t)' : t \in {}}) /\ DOMAIN <<>> = {}
    OBVIOUS
  <2>4. QED
    BY <2>1, <2>2, <2>3 DEF Collected
<1>9. QED
  BY <1>5, <1>6, <1>7, <1>8 DEF Next, Working

-----------------------------------------------------------------------------
(***************************************************************************)
(* Theorems.                                                               *)
(***************************************************************************)
LEMMA LoopAlways == Spec => []LoopInv
<1>1. Init => LoopInv
  BY InitLoop
<1>2. LoopInv /\ [Next]_vars => LoopInv'
  BY TypeNext, ToldNext, AtCopyNext DEF LoopInv
<1>3. QED
  BY <1>1, <1>2, PTL DEF Spec

\* The loops of main() stay in their bounds, and every file in the directory copy has
\* one of the names that copies and outputs are given.
THEOREM TypeCorrect == Spec => []TypeOK
<1>1. LoopInv => TypeOK
  BY DEF LoopInv
<1>2. QED
  BY <1>1, LoopAlways, PTL

\* A changed copy is neither removed with the unchanged ones nor written to, until its
\* name is used again, whatever interrupted runs have left.
THEOREM CopiesKept == Spec => []ChangedCopyKept
<1>1. Init => Kept
  BY InitLoop, KeptIs
<1>2. LoopInv => (ChangedCopyKept <=> Kept)
  BY KeptIs
<1>3. QED
  BY <1>1, <1>2, LoopAlways, KeptNext, PTL DEF Spec

\* A complete run leaves nothing but copies that are to stay, and the directory if there
\* are any.
THEOREM RunsClean == Spec => []CompleteRunCleans
<1>1. Init => Accounted
  BY InitLoop
<1>2. ASSUME LoopInv, Accounted, pc = "done"
      PROVE  CompleteRunCleans
  <2>1. turn \in Nat /\ turn \notin Turns /\ \A t \in Turns : t \in Nat /\ t < turn
    BY <1>2, TurnsAre, FilesAssumption, ProgramsAssumption DEF LoopInv, TypeOK, Told, Turns
  <2>2. \A name : ~Due(name)
    BY <2>1 DEF Due
  <2>3. ASSUME NEW name \in DOMAIN dir
        PROVE  \E t \in Turns : /\ ModifyFilename(t) = name
                                /\ result[t] \in {"changed", "emptied"}
                                /\ \A u \in Turns : u > t => ~Uses(u, name)
    BY <1>2, <2>2, <2>3, UsesAre DEF Accounted, Stays
  <2>4. QED
    BY <1>2, <2>3 DEF CompleteRunCleans, Accounted
<1>3. LoopInv /\ Accounted => CompleteRunCleans
  BY <1>2 DEF CompleteRunCleans
<1>4. QED
  BY <1>1, <1>3, LoopAlways, AccountedNext, PTL DEF Spec

\* The results that main() prints for a program are those of this run, one for each file
\* the program printed anything for, in the order of the files, unless it was once not
\* executed; nothing an interrupted run has left is taken for a result.
THEOREM ResultsAreInOrder == Spec => []ResultsInOrder
<1>1. ASSUME Init
      PROVE  CollectInv
  <2>1. AtOut
    BY <1>1 DEF Init, AtOut
  <2>2. ASSUME NEW p \in DOMAIN Programs
        PROVE  Collected(p)
    <3>1. output[p] = <<>> /\ Printed(p) = {}
      BY <1>1 DEF Init, Printed
    <3>2. <<>> \in Seq({Output(t) : t \in {}}) /\ DOMAIN <<>> = {}
      OBVIOUS
    <3>3. QED
      BY <3>1, <3>2 DEF Collected
  <2>3. QED
    BY <2>1, <2>2 DEF CollectInv
<1>2. ASSUME CollectInv
      PROVE  ResultsInOrder
  <2>1. ASSUME NEW p \in DOMAIN Programs, Collected(p)
        PROVE  Range(output[p]) = {Output(t) : t \in Printed(p)}
    <3>1. \A i \in DOMAIN output[p] : output[p][i] \in {Output(t) : t \in Printed(p)}
      BY <2>1 DEF Collected
    <3>2. \A t \in Printed(p) : \E i \in DOMAIN output[p] : output[p][i] = Output(t)
      BY <2>1 DEF Collected
    <3>3. QED
      BY <3>1, <3>2 DEF Range
  <2>2. QED
    BY <1>2, <2>1 DEF CollectInv, Collected, ResultsInOrder
<1>3. CollectInv => ResultsInOrder
  BY <1>2
<1>4. QED
  BY <1>1, <1>3, LoopAlways, CollectNext, PTL DEF Spec
=============================================================================
