------------------------------- MODULE MCLab5 -------------------------------
(***************************************************************************)
(* Instances of Lab5Threads for TLC.  Messages are never compared with     *)
(* anything but each other, so they are interchangeable.                   *)
(***************************************************************************)
EXTENDS Lab5Threads, TLC

Interchangeable == Permutations(Messages)
=============================================================================
