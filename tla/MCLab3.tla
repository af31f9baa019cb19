------------------------------- MODULE MCLab3 -------------------------------
(***************************************************************************)
(* Instance of Lab3Children for TLC.                                       *)
(***************************************************************************)
EXTENDS Lab3Children
=============================================================================
