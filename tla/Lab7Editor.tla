----------------------------- MODULE Lab7Editor -----------------------------
(***************************************************************************)
(* lab7/src/editor.c: several processes edit the records of one file.  A   *)
(* record is fetched without a lock (do_get), edited in memory, and saved  *)
(* under an exclusive open-file-description lock if it has not changed     *)
(* meanwhile (do_put).                                                     *)
(*                                                                         *)
(* A record is its bytes before and after the point where one process may  *)
(* overtake another in the middle of a read() or write(): "front" and      *)
(* "back".  Only whole-record equality, memcmp(), is ever asked of it, so  *)
(* name, address and semester are not told apart.  The locks are the       *)
(* kernel's; do_list() changes nothing and is left out, as is the lock     *)
(* query before fcntl(F_OFD_SETLKW), which only decides what is printed.   *)
(***************************************************************************)
EXTENDS Integers

CONSTANTS
  Editors,   \* running copies of the program
  Records,   \* record numbers of the file
  Values,    \* what half a record can hold
  Zero,      \* the value whose bytes are all zero
  NoEditor,  \* nobody, as the holder of a lock
  NoRecord   \* -1, before a record has been fetched

ASSUME EditorsAssumption == NoEditor \notin Editors
ASSUME RecordsAssumption == NoRecord \notin Records
ASSUME ValuesAssumption == Zero \in Values

VARIABLES
  file,         \* the data file
  lock,         \* per record: who holds its lock
  pc,           \* per editor: where it is
  last_rec_no,  \* per editor: record fetched last
  orig_rec,     \* per editor: the record as fetched
  work_rec,     \* per editor: the record as edited
  has_work      \* per editor: an edit is pending

vars == <<file, lock, pc, last_rec_no, orig_rec, work_rec, has_work>>

Record == [front : Values, back : Values]

Labels == {"menu", "reading", "lock_rec", "reread", "write", "write_back",
           "unlock", "conflict", "failed", "closed"}

\* A global record_t before main().
ZeroRecord == [front |-> Zero, back |-> Zero]

\* The first part of one record, the rest of another.
Mix(a, b) == [front |-> a.front, back |-> b.back]

Init ==
  /\ file \in [Records -> Record]
  /\ lock = [r \in Records |-> NoEditor]
  /\ pc = [e \in Editors |-> "menu"]
  /\ last_rec_no = [e \in Editors |-> NoRecord]
  /\ orig_rec = [e \in Editors |-> ZeroRecord]
  /\ work_rec = [e \in Editors |-> ZeroRecord]
  /\ has_work = [e \in Editors |-> FALSE]

Goto(e, label) == pc' = [pc EXCEPT ![e] = label]

Saved(e) == file[last_rec_no[e]]

-----------------------------------------------------------------------------
(***************************************************************************)
(* do_get(): the read(), then the prompts; a field may be kept.            *)
(***************************************************************************)
BeginGet(e, r) ==
  /\ pc[e] = "menu"
  /\ Goto(e, "reading")
  /\ orig_rec' = [orig_rec EXCEPT ![e] = Mix(file[r], @)]
  /\ last_rec_no' = [last_rec_no EXCEPT ![e] = r]
  /\ UNCHANGED <<file, lock, work_rec, has_work>>

EndGet(e) ==
  /\ pc[e] = "reading"
  /\ Goto(e, "menu")
  /\ orig_rec' = [orig_rec EXCEPT ![e] = Mix(@, Saved(e))]
  /\ \E edited \in Record : work_rec' = [work_rec EXCEPT ![e] = edited]
  /\ has_work' = [has_work EXCEPT ![e] = TRUE]
  /\ UNCHANGED <<file, lock, last_rec_no>>

(***************************************************************************)
(* do_put().                                                               *)
(***************************************************************************)
Put(e) ==
  /\ pc[e] = "menu"
  /\ has_work[e]
  /\ IF orig_rec[e] = work_rec[e]
       THEN has_work' = [has_work EXCEPT ![e] = FALSE] /\ UNCHANGED pc
       ELSE Goto(e, "lock_rec") /\ UNCHANGED has_work
  /\ UNCHANGED <<file, lock, last_rec_no, orig_rec, work_rec>>

\* Seeded fault: a shared lock, as F_RDLCK would be.
FaultLockRec(e) ==
  /\ pc[e] = "lock_rec"
  /\ lock' = [lock EXCEPT ![last_rec_no[e]] = e]
  /\ Goto(e, "reread")
  /\ UNCHANGED <<file, last_rec_no, orig_rec, work_rec, has_work>>

\* lock_rec(off, F_WRLCK, 1) waits; a lock of one's own does not conflict.
LockRec(e) ==
  /\ pc[e] = "lock_rec"
  /\ lock[last_rec_no[e]] \in {NoEditor, e}
  /\ lock' = [lock EXCEPT ![last_rec_no[e]] = e]
  /\ Goto(e, "reread")
  /\ UNCHANGED <<file, last_rec_no, orig_rec, work_rec, has_work>>

\* Seeded faults: the file is not read again; after a conflict it is, but not kept.
FaultCompareNever(e) ==
  /\ pc[e] = "reread"
  /\ Goto(e, "write")
  /\ UNCHANGED <<file, lock, last_rec_no, orig_rec, work_rec, has_work>>
FaultCompareKeeps(e) ==
  /\ pc[e] = "reread"
  /\ Goto(e, IF Saved(e) = orig_rec[e] THEN "write" ELSE "conflict")
  /\ UNCHANGED <<file, lock, last_rec_no, orig_rec, work_rec, has_work>>

\* current is read and compared with orig_rec; in a conflict it replaces both.
Compare(e) ==
  /\ pc[e] = "reread"
  /\ IF Saved(e) = orig_rec[e]
       THEN Goto(e, "write") /\ UNCHANGED <<orig_rec, work_rec>>
       ELSE /\ orig_rec' = [orig_rec EXCEPT ![e] = Saved(e)]
            /\ work_rec' = [work_rec EXCEPT ![e] = Saved(e)]
            /\ Goto(e, "conflict")
  /\ UNCHANGED <<file, lock, last_rec_no, has_work>>

\* write(), in two parts for those who read meanwhile.
WriteFront(e) ==
  /\ pc[e] = "write"
  /\ file' = [file EXCEPT ![last_rec_no[e]] = Mix(work_rec[e], @)]
  /\ Goto(e, "write_back")
  /\ UNCHANGED <<lock, last_rec_no, orig_rec, work_rec, has_work>>

WriteBack(e) ==
  /\ pc[e] = "write_back"
  /\ file' = [file EXCEPT ![last_rec_no[e]] = Mix(@, work_rec[e])]
  /\ Goto(e, "unlock")
  /\ UNCHANGED <<lock, last_rec_no, orig_rec, work_rec, has_work>>

\* fcntl(), read() or write() fails, write() possibly half way.
Fail(e) ==
  /\ pc[e] \in {"lock_rec", "reread", "write", "write_back"}
  /\ Goto(e, IF pc[e] = "lock_rec" THEN "menu" ELSE "failed")
  /\ UNCHANGED <<file, lock, last_rec_no, orig_rec, work_rec, has_work>>

\* unlock_rec(off): after a save the edit is done, after a conflict the loop
\* starts again, after a failure the edit stays pending.
UnlockRec(e) ==
  /\ pc[e] \in {"unlock", "conflict", "failed"}
  /\ lock' = [lock EXCEPT ![last_rec_no[e]] = NoEditor]
  /\ Goto(e, IF pc[e] = "conflict" THEN "lock_rec" ELSE "menu")
  /\ has_work' = [has_work EXCEPT ![e] = (pc[e] # "unlock")]
  /\ UNCHANGED <<file, last_rec_no, orig_rec, work_rec>>

(***************************************************************************)
(* The end of a process, by [E]xit or killed anywhere: the kernel closes   *)
(* the file and with it releases the lock.  Then it may be started again.  *)
(***************************************************************************)

ReleaseAll(e) == lock' = [r \in Records |-> IF lock[r] = e THEN NoEditor ELSE lock[r]]

Close(e) ==
  /\ pc[e] # "closed"
  /\ Goto(e, "closed")
  /\ ReleaseAll(e)
  /\ last_rec_no' = [last_rec_no EXCEPT ![e] = NoRecord]
  /\ orig_rec' = [orig_rec EXCEPT ![e] = ZeroRecord]
  /\ work_rec' = [work_rec EXCEPT ![e] = ZeroRecord]
  /\ has_work' = [has_work EXCEPT ![e] = FALSE]
  /\ UNCHANGED file

Start(e) ==
  /\ pc[e] = "closed"
  /\ Goto(e, "menu")
  /\ UNCHANGED <<file, lock, last_rec_no, orig_rec, work_rec, has_work>>

Step(e) == \/ EndGet(e) \/ LockRec(e) \/ Compare(e) \/ WriteFront(e) \/ WriteBack(e)
           \/ UnlockRec(e)

Next == \E e \in Editors :
          \/ \E r \in Records : BeginGet(e, r)
          \/ Put(e) \/ Step(e) \/ Fail(e) \/ Close(e) \/ Start(e)

Spec == Init /\ [][Next]_vars

(***************************************************************************)
(* A process inside a command goes on; the kernel serves those who wait    *)
(* for a lock in turn.  Nothing makes the users type, or calls fail.       *)
(***************************************************************************)
Fairness == \A e \in Editors : WF_vars(Step(e)) /\ SF_vars(LockRec(e))

FairSpec == Spec /\ Fairness

-----------------------------------------------------------------------------
(***************************************************************************)
(* Properties.                                                             *)
(***************************************************************************)

\* The variables keep the types of their C declarations.
TypeOK ==
  /\ file \in [Records -> Record]
  /\ lock \in [Records -> Editors \cup {NoEditor}]
  /\ pc \in [Editors -> Labels]
  /\ last_rec_no \in [Editors -> Records \cup {NoRecord}]
  /\ orig_rec \in [Editors -> Record]
  /\ work_rec \in [Editors -> Record]
  /\ has_work \in [Editors -> BOOLEAN]

Writing(e) == pc[e] \in {"reread", "write", "write_back", "unlock", "conflict", "failed"}

\* Two editors are never between lock_rec() and unlock_rec() of one record,
\* even when one of them has died, been started again or failed meanwhile.
OneSaverPerRecord ==
  \A e, f \in Editors :
    Writing(e) /\ Writing(f) /\ last_rec_no[e] = last_rec_no[f] => e = f

\* No update is lost: bytes of a record change only at the hands of an editor
\* that fetched exactly what they replace, however long ago that was.
NoLostUpdate ==
  [][\A r \in Records : file'[r] # file[r] =>
       \E e \in Editors :
         /\ last_rec_no[e] = r
         /\ \/ pc[e] = "write" /\ file[r] = orig_rec[e]
            \/ pc[e] = "write_back" /\ file[r] = Mix(work_rec[e], orig_rec[e])]_vars

\* The editors implement atomic compare-and-set on whole records, although
\* fetching is not locked and writing is not atomic.
StoredRecords ==
  [r \in Records |->
     IF \E e \in Editors : pc[e] = "write_back" /\ last_rec_no[e] = r
       THEN orig_rec[CHOOSE e \in Editors : pc[e] = "write_back" /\ last_rec_no[e] = r]
       ELSE file[r]]

OpenSession(e) == [open |-> TRUE, rec |-> last_rec_no[e], base |-> orig_rec[e], draft |-> work_rec[e]]
Sessions ==
  [e \in Editors |-> IF has_work[e] /\ pc[e] # "unlock" THEN OpenSession(e) ELSE [open |-> FALSE]]

Store == INSTANCE RecordStore
           WITH Contents <- Record, store <- StoredRecords, session <- Sessions
CompareAndSet == Store!Spec

Putting(e) == Writing(e) \/ pc[e] = "lock_rec"

\* A save comes to an end once the others have stopped saving: conflicts do
\* not repeat without somebody else's update, and no lock is left behind.
PutReturns ==
  \A e \in Editors :
    <>[](\A f \in Editors \ {e} : ~Putting(f)) => (Putting(e) ~> ~Putting(e))

\* "Record %d updated successfully." is said of an edit that changed something:
\* an unchanged record has been answered with "No changes to save." before.
UpdateIsAnEdit == \A e \in Editors : pc[e] = "unlock" => work_rec[e] # orig_rec[e]
=============================================================================
