--------------------------- MODULE ConsistentPass ---------------------------
(***************************************************************************)
(* What a cutover is promised about one disk while it waits for a          *)
(* crash-consistent pass, with no agents, sessions or runs: it asks for    *)
(* one; the target takes passes of any kind; the disk is marked only while *)
(* the target holds one of a single instant; and as long as it is both     *)
(* asked for and marked, the target takes no other kind.  The mark is made *)
(* behind a look at the request, so it may come when the request has been  *)
(* dropped; then it binds nobody, and the next request starts by lifting   *)
(* it.  Replication promises this of the disk it replicates, Quiesce of    *)
(* every disk of a migration.                                              *)
(***************************************************************************)

VARIABLES
    want,    \* has a cutover asked for a consistent pass?
    marked,  \* is one known to have landed?
    atOnce   \* is what the target holds of one instant?

vars == <<want, marked, atOnce>>

Init ==
    /\ want = FALSE
    /\ marked = FALSE
    /\ atOnce \in BOOLEAN

\* A cutover asks anew; what was marked for an earlier one does not count.
Ask ==
    /\ want' = TRUE
    /\ marked' = FALSE
    /\ UNCHANGED atOnce

\* The target takes a pass, or a part of one; a marked disk only one of an instant,
\* while that is wanted.
Take ==
    /\ atOnce' \in BOOLEAN
    /\ want /\ marked => atOnce'
    /\ UNCHANGED <<want, marked>>

\* A pass of one instant is there.
Mark ==
    /\ atOnce
    /\ marked' = TRUE
    /\ UNCHANGED <<want, atOnce>>

\* The request is dropped, or lost with the appliance and whatever it was writing.
Drop ==
    /\ want' = FALSE
    /\ marked' = FALSE
    /\ atOnce' \in BOOLEAN

Next == Ask \/ Take \/ Mark \/ Drop

Spec == Init /\ [][Next]_vars
=============================================================================
