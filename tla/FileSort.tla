------------------------------ MODULE FileSort ------------------------------
(***************************************************************************)
(* What sort_index of lab 6 promises: it moves the records of a file about *)
(* and says "File is fully sorted" only when they are in order.  Each      *)
(* record is there before and after every move.                            *)
(***************************************************************************)
EXTENDS Integers, FiniteSets

CONSTANTS Places, Marks   \* where records are, what they are ordered by

VARIABLES file, sorted

\* The places that hold mark m.
Holding(f, m) == {i \in Places : f[i] = m}

Rearranged(f, g) == \A m \in Marks : Cardinality(Holding(f, m)) = Cardinality(Holding(g, m))

Ordered(f) == \A i, j \in Places : i < j => f[i] <= f[j]

Init == /\ file \in [Places -> Marks]
        /\ sorted = FALSE

Rearrange == /\ ~sorted
             /\ file' \in [Places -> Marks]
             /\ Rearranged(file, file')
             /\ UNCHANGED sorted

Finish == /\ ~sorted
          /\ Ordered(file)
          /\ sorted' = TRUE
          /\ UNCHANGED file

Next == Rearrange \/ Finish

Spec == Init /\ [][Next]_<<file, sorted>>
=============================================================================
