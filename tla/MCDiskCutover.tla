--------------------------- MODULE MCDiskCutover ---------------------------
(***************************************************************************)
(* DiskCutover for TLC.                                                    *)
(***************************************************************************)
EXTENDS DiskCutover
=============================================================================
