----------------------------- MODULE Lab7Proofs -----------------------------
(***************************************************************************)
(* Proofs about Lab7Editor, for any number of editors, records and values. *)
(***************************************************************************)
EXTENDS Lab7Editor, TLAPS

(***************************************************************************)
(* The inductive invariant: an editor past lock_rec() holds the lock of    *)
(* its record, and from the comparison to the end of the write the record  *)
(* is, up to the part already written, the one the editor had fetched.     *)
(* The second part needs the first: nobody else may write in between.      *)
(***************************************************************************)
RecordKnown ==
  \A e \in Editors :
    /\ pc[e] = "reading" \/ Putting(e) \/ has_work[e] => last_rec_no[e] \in Records
    /\ Putting(e) => has_work[e]

LockHeld == \A e \in Editors : Writing(e) => lock[last_rec_no[e]] = e

BaseCurrent ==
  \A e \in Editors :
    /\ pc[e] = "write" => Saved(e) = orig_rec[e]
    /\ pc[e] = "write_back" => Saved(e) = Mix(work_rec[e], orig_rec[e])

EditorInv == TypeOK /\ RecordKnown /\ LockHeld /\ BaseCurrent

-----------------------------------------------------------------------------
\* Putting records together.
LEMMA MixFacts ==
  ASSUME NEW a \in Record, NEW b \in Record
  PROVE  /\ Mix(a, b) \in Record
         /\ Mix(Mix(a, b), a) = a /\ Mix(a, a) = a
BY DEF Mix, Record

\* A cleared record is a record.
LEMMA ZeroType == ZeroRecord \in Record
BY ValuesAssumption DEF ZeroRecord, Record

\* The invariant holds before the first command.
LEMMA InitInv == Init => EditorInv
BY ZeroType DEF Init, EditorInv, TypeOK, RecordKnown, LockHeld, BaseCurrent, Putting, Writing, Labels

\* Fetching a record keeps the invariant.
LEMMA GetInv ==
  ASSUME EditorInv, NEW e \in Editors, EndGet(e) \/ \E r \in Records : BeginGet(e, r)
  PROVE  EditorInv'
<1> USE DEF EditorInv, TypeOK, RecordKnown, LockHeld, BaseCurrent, Putting, Writing, Saved, Goto
<1>1. ASSUME NEW r \in Records, BeginGet(e, r) PROVE EditorInv'
  <2>1. Mix(file[r], orig_rec[e]) \in Record
    BY MixFacts
  <2>2. TypeOK'
    BY <1>1, <2>1 DEF BeginGet, Labels
  <2>3. QED
    BY <1>1, <2>2 DEF BeginGet
<1>2. CASE EndGet(e)
  <2>1. last_rec_no[e] \in Records
    BY <1>2 DEF EndGet
  <2>2. Mix(orig_rec[e], file[last_rec_no[e]]) \in Record
    BY <2>1, MixFacts
  <2>3. TypeOK'
    BY <1>2, <2>2 DEF EndGet, Labels
  <2>4. QED
    BY <1>2, <2>1, <2>3 DEF EndGet
<1>3. QED
  BY <1>1, <1>2

\* Saving a record keeps the invariant.
LEMMA PutInv ==
  ASSUME EditorInv, NEW e \in Editors,
         Put(e) \/ LockRec(e) \/ Compare(e) \/ Fail(e)
  PROVE  EditorInv'
<1> USE DEF EditorInv, TypeOK, RecordKnown, LockHeld, BaseCurrent, Putting, Writing, Saved, Goto
<1>1. CASE Put(e)
  <2>1. CASE orig_rec[e] = work_rec[e]
    <3>1. has_work' = [has_work EXCEPT ![e] = FALSE]
          /\ UNCHANGED <<file, lock, pc, last_rec_no, orig_rec, work_rec>>
      BY <1>1, <2>1 DEF Put
    <3>2. pc[e] = "menu"
      BY <1>1 DEF Put
    <3>3. QED
      BY <3>1, <3>2
  <2>2. CASE orig_rec[e] # work_rec[e]
    <3>1. pc' = [pc EXCEPT ![e] = "lock_rec"]
          /\ UNCHANGED <<file, lock, has_work, last_rec_no, orig_rec, work_rec>>
      BY <1>1, <2>2 DEF Put
    <3>2. pc[e] = "menu" /\ has_work[e]
      BY <1>1 DEF Put
    <3>3. TypeOK'
      BY <3>1 DEF Labels
    <3>4. QED
      BY <3>1, <3>2, <3>3
  <2>3. QED
    BY <2>1, <2>2
<1>2. CASE LockRec(e)
  <2>1. last_rec_no[e] \in Records /\ lock[last_rec_no[e]] \in {NoEditor, e}
    BY <1>2 DEF LockRec
  <2>2. \A f \in Editors : Writing(f) => f = e \/ last_rec_no[f] # last_rec_no[e]
    BY <2>1, EditorsAssumption
  <2>3. TypeOK' /\ RecordKnown' /\ BaseCurrent'
    BY <1>2, <2>1 DEF LockRec, Labels
  <2>4. LockHeld'
    BY <1>2, <2>1, <2>2 DEF LockRec
  <2>5. QED
    BY <2>3, <2>4
<1>3. CASE Compare(e)
  BY <1>3 DEF Compare, Labels
<1>4. CASE Fail(e)
  <2>1. TypeOK'
    BY <1>4 DEF Fail, Labels
  <2>2. QED
    BY <1>4, <2>1 DEF Fail
<1>5. QED
  BY <1>1, <1>2, <1>3, <1>4

\* Two editors past lock_rec() are at different records.
LEMMA Apart ==
  ASSUME EditorInv, NEW e \in Editors, NEW f \in Editors, e # f, Writing(e), Writing(f)
  PROVE  last_rec_no[e] # last_rec_no[f]
BY DEF EditorInv, LockHeld

\* Writing a record keeps the invariant.
LEMMA WriteInv ==
  ASSUME EditorInv, NEW e \in Editors, WriteFront(e) \/ WriteBack(e)
  PROVE  EditorInv'
<1> USE DEF EditorInv, Goto
<1>1. Writing(e) /\ last_rec_no[e] \in Records
  BY DEF RecordKnown, Putting, Writing, WriteFront, WriteBack
<1>2. /\ UNCHANGED <<lock, last_rec_no, orig_rec, work_rec, has_work>>
      /\ pc' = [pc EXCEPT ![e] = IF pc[e] = "write" THEN "write_back" ELSE "unlock"]
      /\ pc[e] \in {"write", "write_back"}
  BY DEF WriteFront, WriteBack
<1>3. /\ file' \in [Records -> Record]
      /\ \A r \in Records : r # last_rec_no[e] => file'[r] = file[r]
  <2>1. Mix(work_rec[e], file[last_rec_no[e]]) \in Record /\ Mix(file[last_rec_no[e]], work_rec[e]) \in Record
    BY <1>1, MixFacts DEF TypeOK
  <2>2. QED
    BY <2>1 DEF WriteFront, WriteBack, TypeOK
<1>4. TypeOK' /\ RecordKnown' /\ LockHeld'
  BY <1>2, <1>3 DEF TypeOK, RecordKnown, LockHeld, Putting, Writing, Labels
<1>5. BaseCurrent'
  <2>1. ASSUME NEW f \in Editors, f # e, pc[f] \in {"write", "write_back"}
        PROVE  file'[last_rec_no[f]] = file[last_rec_no[f]]
    <3>1. Writing(f) /\ last_rec_no[f] \in Records
      BY <2>1 DEF Writing, RecordKnown, Putting
    <3>2. QED
      BY <1>1, <1>3, <2>1, <3>1, Apart
  <2>2. pc[e] = "write" => file'[last_rec_no[e]] = Mix(work_rec[e], orig_rec[e])
    BY <1>1 DEF WriteFront, WriteBack, BaseCurrent, Saved, TypeOK
  <2>3. QED
    BY <1>2, <2>1, <2>2 DEF BaseCurrent, Saved, TypeOK
<1>6. QED
  BY <1>4, <1>5

\* Giving the lock back, and the end and start of a process, keep the invariant.
LEMMA ReleaseInv ==
  ASSUME EditorInv, NEW e \in Editors, UnlockRec(e) \/ Close(e) \/ Start(e)
  PROVE  EditorInv'
<1> USE DEF EditorInv, TypeOK, RecordKnown, LockHeld, BaseCurrent, Putting, Writing, Saved, Goto
<1>1. CASE UnlockRec(e)
  <2>1. Writing(e) /\ last_rec_no[e] \in Records
    BY <1>1 DEF UnlockRec
  <2>2. TypeOK' /\ RecordKnown' /\ BaseCurrent'
    BY <1>1, <2>1 DEF UnlockRec, Labels
  <2>3. LockHeld'
    <3>1. \A f \in Editors \ {e} : Writing(f) => last_rec_no[f] # last_rec_no[e]
      BY <2>1, Apart
    <3>2. QED
      BY <1>1, <2>1, <3>1 DEF UnlockRec
  <2>4. QED
    BY <2>2, <2>3
<1>2. CASE Close(e)
  <2>1. TypeOK'
    BY <1>2, ZeroType DEF Close, ReleaseAll, Labels
  <2>2. RecordKnown' /\ BaseCurrent'
    BY <1>2 DEF Close
  <2>3. LockHeld'
    BY <1>2, EditorsAssumption DEF Close, ReleaseAll
  <2>4. QED
    BY <2>1, <2>2, <2>3
<1>3. CASE Start(e)
  BY <1>3 DEF Start, Labels
<1>4. QED
  BY <1>1, <1>2, <1>3

\* Every step keeps the invariant.
LEMMA StepInv == EditorInv /\ [Next]_vars => EditorInv'
<1>1. ASSUME EditorInv, UNCHANGED vars PROVE EditorInv'
  BY <1>1 DEF vars, EditorInv, TypeOK, RecordKnown, LockHeld, BaseCurrent, Putting, Writing, Saved
<1>2. QED
  BY <1>1, GetInv, PutInv, WriteInv, ReleaseInv DEF Next, Step

\* The invariant holds for good.
LEMMA InvariantHolds == Spec => []EditorInv
BY InitInv, StepInv, PTL DEF Spec

\* An editor only uses a record number it has fetched, and every variable keeps
\* its type, whatever is typed, fails or is killed.
THEOREM TypeCorrect == Spec => []TypeOK
<1>1. EditorInv => TypeOK
  BY DEF EditorInv
<1>2. QED
  BY <1>1, InvariantHolds, PTL

\* The lock works: no two editors are between lock_rec() and unlock_rec() of the
\* same record, for any number of editors, with failures and deaths anywhere.
THEOREM SaversExcluded == Spec => []OneSaverPerRecord
<1>1. EditorInv => OneSaverPerRecord
  BY Apart DEF OneSaverPerRecord
<1>2. QED
  BY <1>1, InvariantHolds, PTL

\* No update is lost: write() only ever replaces what its editor had fetched.
THEOREM UpdatesKept == Spec => NoLostUpdate
<1> DEFINE Kept == \A r \in Records : file'[r] # file[r] =>
              \E e \in Editors :
                /\ last_rec_no[e] = r
                /\ \/ pc[e] = "write" /\ file[r] = orig_rec[e]
                   \/ pc[e] = "write_back" /\ file[r] = Mix(work_rec[e], orig_rec[e])
<1>1. ASSUME EditorInv, NEW e \in Editors, WriteFront(e) \/ WriteBack(e) PROVE Kept
  <2>1. \A r \in Records : file'[r] # file[r] => r = last_rec_no[e]
    BY <1>1 DEF EditorInv, TypeOK, WriteFront, WriteBack
  <2>2. \/ pc[e] = "write" /\ Saved(e) = orig_rec[e]
        \/ pc[e] = "write_back" /\ Saved(e) = Mix(work_rec[e], orig_rec[e])
    BY <1>1 DEF EditorInv, BaseCurrent, WriteFront, WriteBack
  <2>3. QED
    BY <2>1, <2>2 DEF Saved
<1>2. ASSUME UNCHANGED file PROVE Kept
  BY <1>2
<1>3. EditorInv /\ [Next]_vars => [Kept]_vars
  <2> SUFFICES ASSUME EditorInv, Next PROVE Kept
    OBVIOUS
  <2> HIDE DEF Kept
  <2>1. PICK e \in Editors : \/ \E r \in Records : BeginGet(e, r)
                             \/ Put(e) \/ Step(e) \/ Fail(e) \/ Close(e) \/ Start(e)
    BY DEF Next
  <2>2. CASE WriteFront(e) \/ WriteBack(e)
    BY <1>1, <2>2
  <2>3. CASE ~(WriteFront(e) \/ WriteBack(e))
    <3>1. UNCHANGED file
      BY <2>1, <2>3 DEF BeginGet, Put, Step, Fail, Close, Start, EndGet, LockRec, Compare, UnlockRec
    <3>2. QED
      BY <1>2, <3>1
  <2>4. QED
    BY <2>2, <2>3
<1>4. QED
  BY <1>3, InvariantHolds, PTL DEF Spec, NoLostUpdate

-----------------------------------------------------------------------------
(***************************************************************************)
(* The refinement.  A save takes effect when write() has put down its last *)
(* byte; until then the store still has what the editor had fetched.       *)
(***************************************************************************)
InBack(e, r) == pc[e] = "write_back" /\ last_rec_no[e] = r

\* The stored record, while somebody writes it and otherwise.
StoreFacts ==
  /\ \A r \in Records, e \in Editors : InBack(e, r) => StoredRecords[r] = orig_rec[e]
  /\ \A r \in Records : (\A e \in Editors : ~InBack(e, r)) => StoredRecords[r] = file[r]
  /\ StoredRecords = [r \in Records |-> StoredRecords[r]]

\* No two editors write one record, so the one that does determines it.
LEMMA StoredValue == EditorInv => StoreFacts
<1> SUFFICES ASSUME EditorInv PROVE StoreFacts
  OBVIOUS
<1>1. ASSUME NEW r \in Records, NEW e \in Editors, InBack(e, r)
      PROVE  StoredRecords[r] = orig_rec[e]
  <2>1. \A f \in Editors : pc[f] = "write_back" /\ last_rec_no[f] = r => f = e
    BY <1>1, Apart DEF InBack, Writing
  <2>2. (CHOOSE f \in Editors : pc[f] = "write_back" /\ last_rec_no[f] = r) = e
    BY <1>1, <2>1 DEF InBack
  <2>3. QED
    BY <1>1, <2>2 DEF StoredRecords, InBack
<1>2. ASSUME NEW r \in Records, \A e \in Editors : ~InBack(e, r)
      PROVE  StoredRecords[r] = file[r]
  BY <1>2 DEF StoredRecords, InBack
<1>3. StoredRecords = [r \in Records |-> StoredRecords[r]]
  BY DEF StoredRecords
<1>4. QED
  BY <1>1, <1>2, <1>3 DEF StoreFacts

\* The same, after a step.
LEMMA StoredValueNext == EditorInv' => StoreFacts'
BY StoredValue, PTL

\* A step that writes nothing leaves the store alone.
LEMMA StoreSame ==
  ASSUME EditorInv, EditorInv', UNCHANGED file,
         \A e \in Editors : \/ pc[e] = "write_back" /\ pc'[e] = "write_back"
                               /\ orig_rec'[e] = orig_rec[e] /\ last_rec_no'[e] = last_rec_no[e]
                            \/ pc[e] # "write_back" /\ pc'[e] # "write_back"
  PROVE  UNCHANGED StoredRecords
<1>1. \A e \in Editors, r \in Records : InBack(e, r)' <=> InBack(e, r)
  BY DEF InBack
<1>2. ASSUME NEW r \in Records PROVE StoredRecords'[r] = StoredRecords[r]
  <2>1. CASE \E e \in Editors : InBack(e, r)
    <3>1. PICK e \in Editors : InBack(e, r)
      BY <2>1
    <3>2. StoredRecords[r] = orig_rec[e] /\ StoredRecords'[r] = orig_rec'[e]
      BY <1>1, <3>1, StoredValue, StoredValueNext DEF StoreFacts
    <3>3. orig_rec'[e] = orig_rec[e]
      BY <3>1 DEF InBack
    <3>4. QED
      BY <3>2, <3>3
  <2>2. CASE \A e \in Editors : ~InBack(e, r)
    <3>1. StoredRecords[r] = file[r] /\ StoredRecords'[r] = file'[r]
      BY <1>1, <2>2, StoredValue, StoredValueNext DEF StoreFacts
    <3>2. QED
      BY <3>1
  <2>3. QED
    BY <2>1, <2>2
<1>3. QED
  BY <1>2, StoredValue, StoredValueNext DEF StoreFacts

\* What the store holds after e has ended its write of record r, or been cut off.
LEMMA StoreWritten ==
  ASSUME EditorInv, EditorInv', NEW e \in Editors, NEW r \in Records, InBack(e, r),
         pc'[e] # "write_back",
         \A f \in Editors \ {e} : /\ pc'[f] = pc[f] /\ orig_rec'[f] = orig_rec[f]
                                  /\ last_rec_no'[f] = last_rec_no[f],
         \A s \in Records \ {r} : file'[s] = file[s]
  PROVE  /\ StoredRecords[r] = orig_rec[e]
         /\ StoredRecords' = [StoredRecords EXCEPT ![r] = file'[r]]
<1>1. StoredRecords[r] = orig_rec[e]
  BY StoredValue DEF StoreFacts
<1>2. StoredRecords'[r] = file'[r]
  <2>1. \A f \in Editors : ~InBack(f, r)'
    BY Apart DEF InBack, Writing
  <2>2. QED
    BY <2>1, StoredValueNext DEF StoreFacts
<1>3. ASSUME NEW s \in Records, s # r PROVE StoredRecords'[s] = StoredRecords[s]
  <2>1. \A f \in Editors : InBack(f, s)' <=> InBack(f, s)
    BY <1>3 DEF InBack
  <2>2. CASE \E f \in Editors : InBack(f, s)
    <3>1. PICK f \in Editors : InBack(f, s)
      BY <2>2
    <3>2. f # e
      BY <1>3, <3>1 DEF InBack
    <3>3. StoredRecords[s] = orig_rec[f] /\ StoredRecords'[s] = orig_rec'[f]
      BY <2>1, <3>1, StoredValue, StoredValueNext DEF StoreFacts
    <3>4. QED
      BY <3>2, <3>3
  <2>3. CASE \A f \in Editors : ~InBack(f, s)
    <3>1. StoredRecords[s] = file[s] /\ StoredRecords'[s] = file'[s]
      BY <2>1, <2>3, StoredValue, StoredValueNext DEF StoreFacts
    <3>2. QED
      BY <1>3, <3>1
  <2>4. QED
    BY <2>2, <2>3
<1>4. QED
  BY <1>1, <1>2, <1>3, StoredValue, StoredValueNext DEF StoreFacts

\* What happens to the session of e alone.
LEMMA SessionsChange ==
  ASSUME NEW e \in Editors,
         \A f \in Editors \ {e} : /\ pc'[f] = pc[f] /\ orig_rec'[f] = orig_rec[f]
                                  /\ work_rec'[f] = work_rec[f] /\ has_work'[f] = has_work[f]
                                  /\ last_rec_no'[f] = last_rec_no[f]
  PROVE  Sessions' = [Sessions EXCEPT ![e] =
           IF has_work'[e] /\ pc'[e] # "unlock" THEN OpenSession(e)' ELSE [open |-> FALSE]]
BY DEF Sessions, OpenSession

\* A step that only touches one pending edit re-opens or drops its session.
LEMMA EditStep ==
  ASSUME EditorInv, EditorInv', NEW e \in Editors, UNCHANGED StoredRecords,
         \A f \in Editors \ {e} : /\ pc'[f] = pc[f] /\ orig_rec'[f] = orig_rec[f]
                                  /\ work_rec'[f] = work_rec[f] /\ has_work'[f] = has_work[f]
                                  /\ last_rec_no'[f] = last_rec_no[f]
  PROVE  Store!Next
<1>1. Sessions' = [Sessions EXCEPT ![e] =
         IF has_work'[e] /\ pc'[e] # "unlock" THEN OpenSession(e)' ELSE [open |-> FALSE]]
  BY SessionsChange
<1>2. CASE has_work'[e] /\ pc'[e] # "unlock"
  <2>1. last_rec_no'[e] \in Records /\ orig_rec'[e] \in Record /\ work_rec'[e] \in Record
    BY <1>2 DEF EditorInv, RecordKnown, TypeOK
  <2>2. Store!Edit(e, last_rec_no'[e], orig_rec'[e], work_rec'[e])
    BY <1>1, <1>2 DEF Store!Edit, Store!Become, OpenSession
  <2>3. QED
    BY <2>1, <2>2 DEF Store!Next
<1>3. CASE ~(has_work'[e] /\ pc'[e] # "unlock")
  BY <1>1, <1>3 DEF Store!Next, Store!Close, Store!Become, Store!None
<1>4. QED
  BY <1>2, <1>3

\* The steps that write nothing are edits, closes or stutters of the store.
LEMMA QuietRefines ==
  ASSUME EditorInv, EditorInv', NEW e \in Editors, UNCHANGED file,
         pc[e] # "write_back", pc'[e] # "write_back",
         \A f \in Editors \ {e} : /\ pc'[f] = pc[f] /\ orig_rec'[f] = orig_rec[f]
                                  /\ work_rec'[f] = work_rec[f] /\ has_work'[f] = has_work[f]
                                  /\ last_rec_no'[f] = last_rec_no[f]
  PROVE  Store!Next
<1>1. UNCHANGED StoredRecords
  BY StoreSame
<1>2. QED
  BY <1>1, EditStep

\* The first part of write() does not show.
LEMMA WriteFrontRefines ==
  ASSUME EditorInv, EditorInv', NEW e \in Editors, WriteFront(e)
  PROVE  UNCHANGED <<StoredRecords, Sessions>>
<1> DEFINE r == last_rec_no[e]
<1>0. /\ pc[e] = "write" /\ pc' = [pc EXCEPT ![e] = "write_back"]
      /\ UNCHANGED <<lock, last_rec_no, orig_rec, work_rec, has_work>>
      /\ r \in Records /\ file[r] = orig_rec[e]
      /\ \A s \in Records \ {r} : file'[s] = file[s]
  BY DEF WriteFront, Goto, EditorInv, RecordKnown, Putting, Writing, BaseCurrent, Saved, TypeOK
<1> HIDE DEF r
<1>1. Sessions' = Sessions
  BY <1>0 DEF Sessions, OpenSession, EditorInv, TypeOK
<1>2. ASSUME NEW s \in Records, s # r PROVE StoredRecords'[s] = StoredRecords[s]
  <2>1. \A f \in Editors : InBack(f, s)' <=> InBack(f, s)
    BY <1>0, <1>2 DEF InBack, EditorInv, TypeOK, r
  <2>2. CASE \E f \in Editors : InBack(f, s)
    <3>1. PICK f \in Editors : InBack(f, s)
      BY <2>2
    <3>2. StoredRecords[s] = orig_rec[f] /\ StoredRecords'[s] = orig_rec'[f]
      BY <2>1, <3>1, StoredValue, StoredValueNext DEF StoreFacts
    <3>3. QED
      BY <1>0, <3>2
  <2>3. CASE \A f \in Editors : ~InBack(f, s)
    <3>1. StoredRecords[s] = file[s] /\ StoredRecords'[s] = file'[s]
      BY <2>1, <2>3, StoredValue, StoredValueNext DEF StoreFacts
    <3>2. QED
      BY <1>0, <1>2, <3>1
  <2>4. QED
    BY <2>2, <2>3
<1>3. StoredRecords'[r] = StoredRecords[r]
  <2>1. \A f \in Editors : ~InBack(f, r)
    BY <1>0, Apart DEF InBack, Writing, r
  <2>2. StoredRecords[r] = file[r]
    BY <1>0, <2>1, StoredValue DEF StoreFacts
  <2>3. InBack(e, r)'
    BY <1>0 DEF InBack, r, EditorInv, TypeOK
  <2>4. StoredRecords'[r] = orig_rec'[e]
    BY <1>0, <2>3, StoredValueNext DEF StoreFacts, r
  <2>5. QED
    BY <1>0, <2>2, <2>4
<1>4. QED
  BY <1>1, <1>2, <1>3, StoredValue, StoredValueNext DEF StoreFacts

\* The end of write() is the save.
LEMMA WriteBackRefines ==
  ASSUME EditorInv, EditorInv', NEW e \in Editors, WriteBack(e)
  PROVE  Store!Save(e)
<1> DEFINE r == last_rec_no[e]
<1>0. /\ pc[e] = "write_back" /\ pc' = [pc EXCEPT ![e] = "unlock"] /\ has_work[e]
      /\ UNCHANGED <<lock, last_rec_no, orig_rec, work_rec, has_work>>
      /\ r \in Records /\ file[r] = Mix(work_rec[e], orig_rec[e])
      /\ \A s \in Records \ {r} : file'[s] = file[s]
      /\ file'[r] = Mix(file[r], work_rec[e])
  BY DEF WriteBack, Goto, EditorInv, RecordKnown, Putting, Writing, BaseCurrent, Saved, TypeOK
<1>1. /\ pc'[e] = "unlock"
      /\ \A f \in Editors \ {e} : /\ pc'[f] = pc[f] /\ orig_rec'[f] = orig_rec[f]
                                  /\ work_rec'[f] = work_rec[f] /\ has_work'[f] = has_work[f]
                                  /\ last_rec_no'[f] = last_rec_no[f]
  BY <1>0 DEF EditorInv, TypeOK
<1>2. file'[r] = work_rec[e]
  BY <1>0, MixFacts DEF EditorInv, TypeOK
<1>3. /\ StoredRecords[r] = orig_rec[e]
      /\ StoredRecords' = [StoredRecords EXCEPT ![r] = work_rec[e]]
  BY <1>0, <1>1, <1>2, StoreWritten DEF InBack
<1>4. Sessions[e] = OpenSession(e)
  BY <1>0 DEF Sessions
<1>5. Sessions' = [Sessions EXCEPT ![e] = [open |-> FALSE]]
  BY <1>1, SessionsChange
<1>6. QED
  BY <1>3, <1>4, <1>5 DEF Store!Save, Store!UpToDate, Store!Become, Store!None, OpenSession

\* A write() cut off half way, by a failure or by death, breaks the record.
LEMMA CutOffRefines ==
  ASSUME EditorInv, EditorInv', NEW e \in Editors, pc[e] = "write_back", Fail(e) \/ Close(e)
  PROVE  Store!Break(e)
<1> DEFINE r == last_rec_no[e]
<1>0. /\ has_work[e] /\ UNCHANGED file
      /\ r \in Records /\ file[r] = Mix(work_rec[e], orig_rec[e])
  BY DEF Fail, Close, EditorInv, RecordKnown, Putting, Writing, BaseCurrent, Saved
<1>1. /\ pc'[e] \in {"failed", "closed"}
      /\ \A f \in Editors \ {e} : /\ pc'[f] = pc[f] /\ orig_rec'[f] = orig_rec[f]
                                  /\ work_rec'[f] = work_rec[f] /\ has_work'[f] = has_work[f]
                                  /\ last_rec_no'[f] = last_rec_no[f]
  BY DEF Fail, Close, Goto, EditorInv, TypeOK
<1>2. /\ StoredRecords[r] = orig_rec[e]
      /\ StoredRecords' = [StoredRecords EXCEPT ![r] = Mix(work_rec[e], orig_rec[e])]
  BY <1>0, <1>1, StoreWritten DEF InBack
<1>3. Sessions[e] = OpenSession(e)
  BY <1>0 DEF Sessions
<1>4. \/ Sessions' = [Sessions EXCEPT ![e] = [open |-> FALSE]]
      \/ Sessions' = Sessions
  <2>1. CASE Fail(e)
    BY <1>0, <2>1 DEF Fail, Goto, Sessions, OpenSession, EditorInv, TypeOK
  <2>2. CASE Close(e)
    <3>1. ~has_work'[e]
      BY <2>2 DEF Close, EditorInv, TypeOK
    <3>2. QED
      BY <1>1, <3>1, SessionsChange
  <2>3. QED
    BY <2>1, <2>2
<1>5. QED
  BY <1>2, <1>3, <1>4 DEF Store!Break, Store!UpToDate, Store!Become, Store!None, OpenSession

\* Saving is atomic and optimistic: on whole records, the editors implement a
\* store in which a record is replaced in one step and only by a session that
\* has seen its present contents, for any number of editors and records.
THEOREM SaveIsCompareAndSet == Spec => CompareAndSet
<1>1. Init => Store!Init
  <2> SUFFICES ASSUME Init PROVE Store!Init
    OBVIOUS
  <2>1. StoredRecords = file /\ file \in [Records -> Record]
    BY DEF Init, StoredRecords
  <2>2. Sessions = [e \in Editors |-> [open |-> FALSE]]
    BY DEF Init, Sessions
  <2>3. QED
    BY <2>1, <2>2 DEF Store!Init, Store!None
<1>2. ASSUME EditorInv, EditorInv', [Next]_vars
      PROVE  Store!Next \/ UNCHANGED <<StoredRecords, Sessions>>
  <2>1. CASE UNCHANGED vars
    BY <2>1 DEF vars, StoredRecords, Sessions, OpenSession
  <2>2. ASSUME NEW e \in Editors,
               \/ \E r \in Records : BeginGet(e, r)
               \/ Put(e) \/ Step(e) \/ Fail(e) \/ Close(e) \/ Start(e)
        PROVE  Store!Next \/ UNCHANGED <<StoredRecords, Sessions>>
    <3>1. CASE WriteFront(e)
      BY <1>2, <3>1, WriteFrontRefines
    <3>2. CASE WriteBack(e)
      BY <1>2, <3>2, WriteBackRefines DEF Store!Next
    <3>3. CASE pc[e] = "write_back" /\ (Fail(e) \/ Close(e))
      BY <1>2, <3>3, CutOffRefines DEF Store!Next
    <3>4. CASE ~WriteFront(e) /\ ~WriteBack(e) /\ pc[e] # "write_back"
      <4>1. /\ UNCHANGED file /\ pc'[e] # "write_back"
            /\ \A f \in Editors \ {e} : /\ pc'[f] = pc[f] /\ orig_rec'[f] = orig_rec[f]
                                        /\ work_rec'[f] = work_rec[f] /\ has_work'[f] = has_work[f]
                                        /\ last_rec_no'[f] = last_rec_no[f]
        BY <1>2, <2>2, <3>4 DEF BeginGet, Put, Step, Fail, Close, Start, EndGet, LockRec, Compare,
           UnlockRec, Goto, EditorInv, TypeOK
      <4>2. QED
        BY <1>2, <3>4, <4>1, QuietRefines
    <3>5. pc[e] = "write_back" => WriteBack(e) \/ Fail(e) \/ Close(e)
      BY <2>2 DEF BeginGet, Put, Step, Start, EndGet, LockRec, Compare, WriteFront, UnlockRec
    <3>6. QED
      BY <3>1, <3>2, <3>3, <3>4, <3>5
  <2>3. QED
    BY <1>2, <2>1, <2>2 DEF Next
<1>3. EditorInv /\ EditorInv' /\ [Next]_vars => [Store!Next]_<<StoredRecords, Sessions>>
  BY <1>2
<1>4. QED
  BY <1>1, <1>3, InvariantHolds, PTL DEF Spec, CompareAndSet, Store!Spec
=============================================================================
