------------------------------ MODULE MCAudit ------------------------------
(***************************************************************************)
(* Audit for TLC: one migration beside the main log.                       *)
(***************************************************************************)
EXTENDS Audit

const_Migrations == {"m1"}
=============================================================================
