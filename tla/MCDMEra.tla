------------------------------ MODULE MCDMEra ------------------------------
(***************************************************************************)
(* DMEra for TLC.                                                          *)
(***************************************************************************)
EXTENDS DMEra
=============================================================================
