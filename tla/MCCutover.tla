----------------------------- MODULE MCCutover -----------------------------
(***************************************************************************)
(* Cutover for TLC.                                                        *)
(***************************************************************************)
EXTENDS Cutover
=============================================================================
