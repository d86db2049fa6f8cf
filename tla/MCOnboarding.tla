---------------------------- MODULE MCOnboarding ----------------------------
(***************************************************************************)
(* Onboarding for TLC, with GiBs of four bytes: one disk or two, then one. *)
(***************************************************************************)
EXTENDS Onboarding

const_Plans == [ nanode    |-> [class |-> "shared", disk |-> 8],
                 standard  |-> [class |-> "shared", disk |-> 16],
                 dedicated |-> [class |-> "dedicated", disk |-> 16] ]

Form(declared, real, target, plan) ==
    [declared |-> declared, real |-> real, target |-> target, class |-> "shared", plan |-> plan]

\* Sizes that are entered to the byte, rounded up, half of what is there or twice that;
\* a plan too small, which is turned down, and one of another class, which is not.
const_Forms ==
    { << Form(<<13, 3>>, <<7, 7>>, "disk", "any"), Form(<<12>>, <<11>>, "disk", "nanode") >>,
      << Form(<<8>>, <<8>>, "disk", "any"), Form(<<14>>, <<14>>, "volume", "dedicated") >> }
=============================================================================
