----------------------------- MODULE MCLab5Cond -----------------------------
(***************************************************************************)
(* Instance of Lab5Conditions for TLC.                                     *)
(***************************************************************************)
EXTENDS Lab5Conditions, TLC
=============================================================================
