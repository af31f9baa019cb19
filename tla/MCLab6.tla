------------------------------- MODULE MCLab6 -------------------------------
(***************************************************************************)
(* Instances of Lab6Sort for TLC.  As no step looks at more than the order *)
(* of two marks, two marks tell a sorter that works from one that does not *)
(* (the zero-one principle); the files are those with three small marks.   *)
(***************************************************************************)
EXTENDS Lab6Sort, FiniteSetsExt

TwoMarks == {0, 1}
ThreeSmall == {[i \in 0 .. RECORDS - 1 |-> IF i \in s THEN 0 ELSE 1]
                 : s \in kSubset(3, 0 .. RECORDS - 1)}
=============================================================================
