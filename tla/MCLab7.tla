------------------------------- MODULE MCLab7 -------------------------------
(***************************************************************************)
(* Instances of Lab7Editor for TLC.                                        *)
(***************************************************************************)
EXTENDS Lab7Editor
=============================================================================
