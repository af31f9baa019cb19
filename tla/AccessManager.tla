--------------------------- MODULE AccessManager ---------------------------
(***************************************************************************)
(* Access_manager/main.c and access_manager.c: every program is run on a   *)
(* copy of every file, one at a time.  A copy the program did not change   *)
(* is removed, the others stay in the directory copy; what the program     *)
(* wrote is collected from a file beside the copy, which is removed, too.  *)
(*                                                                         *)
(* A name is a sequence of parts, so that different files and programs can *)
(* have copies of one name, and a copy the name of an output, as in the    *)
(* program: only the last "." of a file's name and what follows it is cut  *)
(* off, and ".out" appended.  The contents of a file are a sequence of     *)
(* items.  A hash stands for the contents it is made of.                   *)
(*                                                                         *)
(* The directory outlives the program, which can be interrupted at any     *)
(* time, together with the program it runs (Ctrl-C), and started again     *)
(* with the same arguments.  The program that is run is external: it ends, *)
(* whatever it does to its copy.                                           *)
(***************************************************************************)
EXTENDS Integers, SequencesExt

CONSTANTS
  Files,       \* regular files, in the order of scandir(): [base, ext]
  Unreadable,  \* the files, by their number, that cannot be opened
  Programs,    \* names of the programs, in the order of the arguments
  Matches,     \* <<file, program>>, by number: files the program is given
  MAX_RUNS     \* bound of the model: how often it is started

ASSUME FilesAssumption == Files \in Seq([base : Seq(STRING), ext : Nat])
ASSUME ProgramsAssumption == Programs \in Seq(Seq(STRING))
ASSUME UnreadableAssumption == Unreadable \subseteq DOMAIN Files
ASSUME MatchesAssumption == Matches \subseteq ((DOMAIN Files) \X (DOMAIN Programs))
ASSUME RunsAssumption == MAX_RUNS \in Nat \ {0}

VARIABLES
  pc,           \* where the program is
  turn,         \* number of the pair of a file and a program, in the order of the loops
  before_hash,
  output,       \* per program: what was collected
  copy_dir,     \* is there a directory copy?
  dir,          \* its files: a function from names to contents
  run,          \* not in the program: how often it was started
  result        \* not in the program: what became of each pair in this run

diskVars == <<copy_dir, dir>>
vars == <<pc, turn, before_hash, output, diskVars, run, result>>

Turns == 1 .. Len(Files) * Len(Programs)
FileOf(t) == ((t - 1) \div Len(Programs)) + 1
ProgramOf(t) == ((t - 1) % Len(Programs)) + 1

\* The "_" that modify_filename() puts between the two names.
Underscore == "_"

\* modify_filename(), temp_out.
ModifyFilename(t) == Files[FileOf(t)].base \o <<Underscore>> \o Programs[ProgramOf(t)]
TempOut(t) == Append(ModifyFilename(t), ".out")

\* The directory part of such a name does not exist: no file can be opened for writing.
IsPath(name) == Contains(name, "/")

Original(t) == <<<<"file", FileOf(t)>>>>
Changed(t) == <<<<"changed", run, t>>>>
Output(t) == <<"output", run, t>>

\* fopen() for writing, remove().
Write(name, contents) ==
  dir' = [n \in DOMAIN dir \cup {name} |-> IF n = name THEN contents ELSE dir[n]]
Without(name) == [n \in DOMAIN dir \ {name} |-> dir[n]]

Results == {"none", "skipped", "emptied", "not_run", "silent", "same", "changed", "removed"}
Outcome(what) == result' = [result EXCEPT ![turn] = what]

Start ==
  /\ pc' = "start"
  /\ turn' = 1
  /\ before_hash' = <<>>
  /\ output' = [p \in DOMAIN Programs |-> <<>>]
  /\ result' = [t \in Turns |-> "none"]

Init ==
  /\ pc = "start"
  /\ turn = 1
  /\ before_hash = <<>>
  /\ output = [p \in DOMAIN Programs |-> <<>>]
  /\ copy_dir = FALSE
  /\ dir = [n \in {} |-> <<>>]
  /\ run = 1
  /\ result = [t \in Turns |-> "none"]

-----------------------------------------------------------------------------
\* mkdir() may find the directory of an earlier run.
MakeDir ==
  /\ pc = "start"
  /\ copy_dir' = TRUE
  /\ pc' = "turn"
  /\ UNCHANGED <<turn, before_hash, output, dir, run, result>>

AtPair == pc = "turn" /\ turn \in Turns
IsMatch(t) == <<FileOf(t), ProgramOf(t)>> \in Matches

\* The pattern does not match, or the copy cannot be opened.
SkipPair ==
  /\ AtPair
  /\ IsMatch(turn) => IsPath(ModifyFilename(turn))
  /\ Outcome("skipped")
  /\ turn' = turn + 1
  /\ UNCHANGED <<pc, before_hash, output, diskVars, run>>

\* copy_file() opens the copy also when it cannot open the file.
EmptyCopy ==
  /\ AtPair
  /\ IsMatch(turn) /\ ~IsPath(ModifyFilename(turn))
  /\ FileOf(turn) \in Unreadable
  /\ Write(ModifyFilename(turn), <<>>)
  /\ Outcome("emptied")
  /\ turn' = turn + 1
  /\ UNCHANGED <<pc, before_hash, output, copy_dir, run>>

\* copy_file() and the hash of the copy.
CopyFile ==
  /\ AtPair
  /\ IsMatch(turn) /\ ~IsPath(ModifyFilename(turn))
  /\ FileOf(turn) \notin Unreadable
  /\ Write(ModifyFilename(turn), Original(turn))
  /\ before_hash' = Original(turn)
  /\ pc' = "execute"
  /\ UNCHANGED <<turn, output, copy_dir, run, result>>

\* execute_program(): fork() fails, which is not noticed, or the child cannot open the
\* file for the output.  wait() returns.
NotExecuted ==
  /\ pc = "execute"
  /\ Outcome("not_run")
  /\ pc' = "compare"
  /\ UNCHANGED <<turn, before_hash, output, diskVars, run>>

\* Seeded fault: without O_TRUNC.
FaultExecuteProgram ==
  /\ pc = "execute"
  /\ IF TempOut(turn) \in DOMAIN dir THEN UNCHANGED dir ELSE Write(TempOut(turn), <<>>)
  /\ pc' = "program"
  /\ UNCHANGED <<turn, before_hash, output, copy_dir, run, result>>

\* The child opens the file for the output, which may be there already.
ExecuteProgram ==
  /\ pc = "execute"
  /\ Write(TempOut(turn), <<>>)
  /\ pc' = "program"
  /\ UNCHANGED <<turn, before_hash, output, copy_dir, run, result>>

\* The program cannot be executed, or writes nothing and changes nothing.
ProgramSilent ==
  /\ pc = "program"
  /\ Outcome("silent")
  /\ pc' = "compare"
  /\ UNCHANGED <<turn, before_hash, output, diskVars, run>>

\* External: the program writes, and leaves, changes or removes its copy.
Program ==
  /\ pc = "program"
  /\ LET copy == ModifyFilename(turn)
         WithOutput(files) ==
           [files EXCEPT ![TempOut(turn)] = Append(@, Output(turn))]
     IN \/ dir' = WithOutput(dir) /\ Outcome("same")
        \/ dir' = WithOutput([dir EXCEPT ![copy] = Changed(turn)]) /\ Outcome("changed")
        \/ dir' = WithOutput(Without(copy)) /\ Outcome("removed")
  /\ pc' = "compare"
  /\ UNCHANGED <<turn, before_hash, output, copy_dir, run>>

\* Seeded fault: the test is the other way round.
FaultCompareHashes ==
  /\ pc = "compare"
  /\ LET copy == ModifyFilename(turn)
     IN IF copy \in DOMAIN dir /\ dir[copy] # before_hash
          THEN dir' = Without(copy)
          ELSE UNCHANGED dir
  /\ pc' = "collect"
  /\ UNCHANGED <<turn, before_hash, output, copy_dir, run, result>>

\* Without a copy there is no hash after the run.
CompareHashes ==
  /\ pc = "compare"
  /\ LET copy == ModifyFilename(turn)
     IN IF copy \in DOMAIN dir /\ dir[copy] = before_hash
          THEN dir' = Without(copy)
          ELSE UNCHANGED dir
  /\ pc' = "collect"
  /\ UNCHANGED <<turn, before_hash, output, copy_dir, run, result>>

\* Seeded fault: no remove().
FaultPrintOutputAndRemove ==
  /\ pc = "collect"
  /\ LET out == TempOut(turn)
     IN IF out \in DOMAIN dir
          THEN output' = [output EXCEPT ![ProgramOf(turn)] = @ \o dir[out]]
          ELSE UNCHANGED output
  /\ turn' = turn + 1
  /\ pc' = "turn"
  /\ UNCHANGED <<before_hash, copy_dir, dir, run, result>>

\* print_output_and_remove().
PrintOutputAndRemove ==
  /\ pc = "collect"
  /\ LET out == TempOut(turn)
     IN IF out \in DOMAIN dir
          THEN /\ output' = [output EXCEPT ![ProgramOf(turn)] = @ \o dir[out]]
               /\ dir' = Without(out)
          ELSE UNCHANGED <<output, dir>>
  /\ turn' = turn + 1
  /\ pc' = "turn"
  /\ UNCHANGED <<before_hash, copy_dir, run, result>>

\* is_dir_empty() and rmdir().
Finish ==
  /\ pc = "turn"
  /\ turn \notin Turns
  /\ copy_dir' = (DOMAIN dir # {})
  /\ pc' = "done"
  /\ UNCHANGED <<turn, before_hash, output, dir, run, result>>

\* Environment: the program is interrupted, or has ended, and is started again.
StartAgain ==
  /\ run < MAX_RUNS
  /\ run' = run + 1
  /\ Start
  /\ UNCHANGED diskVars

Next ==
  \/ MakeDir \/ SkipPair \/ EmptyCopy \/ CopyFile
  \/ NotExecuted \/ ExecuteProgram \/ ProgramSilent \/ Program
  \/ CompareHashes \/ PrintOutputAndRemove \/ Finish \/ StartAgain

Spec == Init /\ [][Next]_vars

-----------------------------------------------------------------------------
(***************************************************************************)
(* Properties.                                                             *)
(***************************************************************************)
Copies == {ModifyFilename(t) : t \in Turns}
Names == Copies \cup {TempOut(t) : t \in Turns}

\* The loops are in a state of their code, and the directory holds copies and outputs.
TypeOK ==
  /\ pc \in {"start", "turn", "execute", "program", "compare", "collect", "done"}
  /\ turn \in 1 .. Len(Files) * Len(Programs) + 1
  /\ pc \in {"execute", "program", "compare", "collect"} => turn \in Turns
  /\ DOMAIN output = DOMAIN Programs
  /\ copy_dir \in BOOLEAN
  /\ DOMAIN dir \subseteq Names
  /\ run \in 1 .. MAX_RUNS
  /\ result \in [Turns -> Results]

\* Has the pair got as far as its copy, and which names did it use then?
Tried(t) ==
  \/ result[t] \notin {"none", "skipped"}
  \/ t = turn /\ pc \in {"execute", "program"}
Uses(t, name) ==
  /\ Tried(t)
  /\ \/ name = ModifyFilename(t)
     \/ name = TempOut(t) /\ result[t] # "emptied"

\* A changed copy stays as the program left it, until a later pair has the same name for
\* its copy or its output; whatever an earlier run has left under that name.
ChangedCopyKept ==
  \A t \in Turns :
    LET copy == ModifyFilename(t)
        Reused == \E u \in t + 1 .. turn : u \in Turns /\ Uses(u, copy)
    IN result[t] = "changed" /\ ~Reused => copy \in DOMAIN dir /\ dir[copy] = Changed(t)

\* A complete run clears what an interrupted one has left: its copies and outputs.  What
\* there is then is the copy of a file that the last pair of this name changed or could
\* not read, and the directory is there if and only if there is such a copy.
CompleteRunCleans ==
  pc = "done" =>
    /\ \A name \in DOMAIN dir :
         \E t \in Turns :
           /\ ModifyFilename(t) = name
           /\ result[t] \in {"changed", "emptied"}
           /\ \A u \in Turns : u > t => ~Uses(u, name)
    /\ copy_dir <=> DOMAIN dir # {}

\* The results of a program are those of this run, one for each file and in their order;
\* unless it was once not executed at all, and an output or a copy that was there already
\* may have been taken for its own.
Printed(p) ==
  {t \in Turns : t < turn /\ ProgramOf(t) = p /\ result[t] \in {"same", "changed", "removed"}}
NotRun(p) == \E t \in Turns : ProgramOf(t) = p /\ result[t] = "not_run"
TurnOf(printed) == printed[3]
ResultsInOrder ==
  \A p \in DOMAIN Programs :
    \/ /\ Range(output[p]) = {Output(t) : t \in Printed(p)}
       /\ \A i, j \in DOMAIN output[p] : i < j => TurnOf(output[p][i]) < TurnOf(output[p][j])
    \/ NotRun(p)
=============================================================================
