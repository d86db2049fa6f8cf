-------------------------- MODULE MCSourceSnapshot --------------------------
(***************************************************************************)
(* SourceSnapshot for TLC.                                                 *)
(***************************************************************************)
EXTENDS SourceSnapshot

\* A root, and what is mounted below it.
const_Depth == [m \in Filesystems |-> CASE m = "/" -> 0 [] m = "/var" -> 1 [] OTHER -> 2]
=============================================================================
