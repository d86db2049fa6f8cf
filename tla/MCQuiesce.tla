----------------------------- MODULE MCQuiesce -----------------------------
(***************************************************************************)
(* Quiesce for TLC: a boot disk and a data disk.                           *)
(***************************************************************************)
EXTENDS Quiesce

\* A root that may be remounted beside a data volume on LVM, and a root that can do
\* nothing beside a volume pinned to snapshots.
const_Sources ==
    { [d \in Disks |-> IF d = "root" THEN "remountro" ELSE "lvm"],
      [d \in Disks |-> IF d = "root" THEN "none" ELSE "pinned"] }
=============================================================================
