------------------------------ MODULE Release ------------------------------
(***************************************************************************)
(* What publishing promises, with no calls, faults or leftovers: a file is *)
(* released by one run of the converter, whole or not at all, and only if  *)
(* its document yields a publishable bundle.  A release may be taken back, *)
(* because a run that could not record its end is run again; one whose run *)
(* did record it is for good.                                              *)
(***************************************************************************)
CONSTANTS Runs,   \* executions of Convert
          Parts,  \* what a release is made of
          None    \* no release

VARIABLES
  publishable,  \* the document yields a bundle that may be published
  released,     \* the run that made each part, or None
  settled       \* the run has recorded its end

vars == <<publishable, released, settled>>

Init ==
  /\ publishable \in BOOLEAN
  /\ released = None
  /\ settled = FALSE

Publish(c) ==
  /\ publishable
  /\ released = None
  /\ released' = [p \in Parts |-> c]
  /\ UNCHANGED <<publishable, settled>>

Finish ==
  /\ released # None
  /\ settled' = TRUE
  /\ UNCHANGED <<publishable, released>>

Withdraw ==
  /\ ~settled
  /\ released' = None
  /\ UNCHANGED <<publishable, settled>>

Next == (\E c \in Runs : Publish(c)) \/ Finish \/ Withdraw

Spec == Init /\ [][Next]_vars
=============================================================================
