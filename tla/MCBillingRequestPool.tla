------------------------ MODULE MCBillingRequestPool ------------------------
(* Instance of BillingRequestPool for TLC. *)
EXTENDS BillingRequestPool

\* An impression that turned out to be fraud is taken back.
TakenBack == {-1}

=============================================================================
