----------------------------- MODULE RecordStore -----------------------------
(***************************************************************************)
(* What the editors of lab 7 promise one another: a record is replaced in  *)
(* one step, and only by an editor that has seen its present contents.     *)
(*                                                                         *)
(* An editor's session is the record it has fetched, the contents it saw   *)
(* (base) and the contents it wants (draft).  What it saw may be wrong,    *)
(* because records are fetched without a lock; such a session conflicts.   *)
(***************************************************************************)
CONSTANTS Editors, Records, Contents,
          Mix(_, _)   \* a record that begins like the first and ends like the second

VARIABLES store, session

None == [open |-> FALSE]

Init == /\ store \in [Records -> Contents]
        /\ session = [e \in Editors |-> None]

Become(e, s) == session' = [session EXCEPT ![e] = s]

Edit(e, r, base, draft) ==
  /\ Become(e, [open |-> TRUE, rec |-> r, base |-> base, draft |-> draft])
  /\ UNCHANGED store

Close(e) == Become(e, None) /\ UNCHANGED store

UpToDate(e) == session[e].open /\ store[session[e].rec] = session[e].base

Save(e) ==
  /\ UpToDate(e)
  /\ store' = [store EXCEPT ![session[e].rec] = session[e].draft]
  /\ Become(e, None)

\* A save cut short by the death of the editor or by a full disk.
Break(e) ==
  /\ UpToDate(e)
  /\ store' = [store EXCEPT ![session[e].rec] = Mix(session[e].draft, session[e].base)]
  /\ \/ Become(e, None)
     \/ UNCHANGED session

Next == \E e \in Editors :
          \/ \E r \in Records, base, draft \in Contents : Edit(e, r, base, draft)
          \/ Close(e) \/ Save(e) \/ Break(e)

Spec == Init /\ [][Next]_<<store, session>>
=============================================================================
