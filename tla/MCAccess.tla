------------------------------ MODULE MCAccess ------------------------------
(***************************************************************************)
(* Instance of AccessManager for TLC: a.1, a.2 and a.3, the last of which  *)
(* cannot be read, given to p.out and p, whose output has the name of the  *)
(* copy for p.out, and a.1 to ./q, a program with a path.                  *)
(***************************************************************************)
EXTENDS AccessManager

MCFiles == [i \in 1 .. 3 |-> [base |-> <<"a">>, ext |-> i]]
MCUnreadable == {3}
MCPrograms == <<<<"p", ".out">>, <<"p">>, <<".", "/", "q">>>>
MCMatches == ((1 .. 3) \X {1, 2}) \cup {<<1, 3>>}
=============================================================================
