------------------------------- MODULE MCLab4 -------------------------------
(***************************************************************************)
(* Instances of Lab4Processes for TLC.                                     *)
(***************************************************************************)
EXTENDS Lab4Processes

\* Process ids and messages are interchangeable; used for safety only.
Interchangeable == Permutations(Procs) \cup Permutations(Messages)
=============================================================================
