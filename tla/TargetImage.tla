---------------------------- MODULE TargetImage ----------------------------
(***************************************************************************)
(* What replication promises about a disk's target, with no sessions,      *)
(* frames or staging: the source offers images, each the result of reading *)
(* the whole disk once; the target takes an offered image in one step; a   *)
(* baseline may overwrite it block by block, and then the target holds no  *)
(* image until one is installed.                                           *)
(***************************************************************************)
EXTENDS Naturals

CONSTANTS Blocks, Contents, Initial

VARIABLES
    content,  \* what the target holds
    whole,    \* is it an image that was offered?
    offer     \* the newest image offered

vars == <<content, whole, offer>>

Init ==
    /\ content = Initial
    /\ offer = Initial
    /\ whole = FALSE

\* The source has read its whole disk once more.
Offer ==
    /\ offer' \in [Blocks -> Contents]
    /\ UNCHANGED <<content, whole>>

\* The target takes the offered image, all of it at once.
Install ==
    /\ content' = offer
    /\ whole' = TRUE
    /\ UNCHANGED offer

\* A baseline in progress writes one block.
Overwrite(b) ==
    /\ \E v \in Contents : content' = [content EXCEPT ![b] = v]
    /\ whole' = FALSE
    /\ UNCHANGED offer

Next == Offer \/ Install \/ \E b \in Blocks : Overwrite(b)

Spec == Init /\ [][Next]_vars
=============================================================================
